----------------------------- MODULE FileProofs ------------------------------
(***************************************************************************)
(* What a message refers to can be opened, for any files, conversations,   *)
(* cleanup consumers, limits and plans.                                    *)
(***************************************************************************)
EXTENDS ChatFiles, TLAPS

Row == [file : Files, st : {"uploading", "ready", "failed"}]
Page == [rows : Seq(Row), conv : Convs \cup {None}, busy : BOOLEAN, uploadBusy : BOOLEAN,
         batches : SUBSET (SUBSET Files)]
Post == [conv : Convs \cup {None}, files : SUBSET Files, step : {"sent", "refused", "committed"}, awaited : BOOLEAN]
Plan == [left : [Acts -> Int], picks : SUBSET Seq(Files), kept : SUBSET Files, old : SUBSET Files,
         convs : SUBSET Convs, refs : [Convs -> SUBSET Files]]
Hand == [names : SUBSET Files, nth : Nat, done : SUBSET (Files \cup {None}), file : Files \cup {None},
         step : Deleting \cup Ends \cup {"free", "next", "done"}]
Removal == [file : Files \cup {None}, at : Nat, step : Deleting \cup Ends \cup {"idle", "error"}]
Drop == [step : {"none", "listed", "committed", "announced", "answered"}, files : SUBSET Files]
JobTyped ==
    /\ job = [step |-> job.step, cut |-> job.cut, off |-> job.off, found |-> job.found, orphans |-> job.orphans]
    /\ job.cut \in SUBSET Files /\ job.found \in SUBSET Files /\ job.orphans \in SUBSET Files

BrowserTyped ==
    /\ plan \in Plan /\ page \in Page /\ posts \in SUBSET Post
    /\ upload \in [Files -> {"none"} \cup Unfinished]
    /\ removal \in [Removals -> Removal] /\ pressed \in SUBSET Files
StoreTyped ==
    /\ row \in [Files -> {"none", "pending", "uploaded", "deleted"}] /\ blob \in [Files -> BOOLEAN]
    /\ old \in SUBSET Files
ChatTyped ==
    /\ refs \in [Convs -> SUBSET Files] /\ late \in SUBSET Files
    /\ drop \in [Convs -> Drop] /\ outbox \in SUBSET (SUBSET Files)
CleanupTyped ==
    /\ queue \in SUBSET [names : SUBSET Files, nth : Nat]
    /\ hand \in [Workers -> Hand] /\ JobTyped
Typed == BrowserTyped /\ StoreTyped /\ ChatTyped /\ CleanupTyped

-----------------------------------------------------------------------------
(* The composer's rows.                                                     *)

Rows == {page.rows[i] : i \in DOMAIN page.rows}

LEMMA RowsOf ==
    ASSUME BrowserTyped
    PROVE  Rows \subseteq Row /\ page.rows \in Seq(Row) /\ DOMAIN page.rows \subseteq Nat
BY DEF BrowserTyped, Page, Rows

LEMMA Joined ==
    ASSUME NEW S, NEW a \in Seq(S), NEW b \in Seq(S)
    PROVE  a \o b \in Seq(S) /\ Len(a \o b) = Len(a) + Len(b)
OBVIOUS

LEMMA DroppedRows ==
    ASSUME NEW rows \in Seq(Row), NEW i \in Nat
    PROVE  /\ Dropped(rows, i) \in Seq(Row)
           /\ \A k \in DOMAIN Dropped(rows, i) : \E j \in DOMAIN rows : Dropped(rows, i)[k] = rows[j]
<1>1. CASE i \notin DOMAIN rows
  BY <1>1 DEF Dropped
<1>2. CASE i \in DOMAIN rows
  <2> DEFINE a == SubSeq(rows, 1, i - 1)
             b == SubSeq(rows, i + 1, Len(rows))
  <2>1. i \in 1 .. Len(rows) /\ Len(rows) \in Nat
    BY <1>2
  <2>2. a \in Seq(Row) /\ Len(a) = i - 1 /\ \A k \in 1 .. i - 1 : a[k] = rows[k]
    BY <2>1
  <2>3. b \in Seq(Row) /\ Len(b) = Len(rows) - i /\ \A k \in 1 .. Len(rows) - i : b[k] = rows[k + i]
    BY <2>1
  <2>4. Dropped(rows, i) = a \o b
    BY <1>2 DEF Dropped, RemoveAt
  <2> HIDE DEF a, b
  <2>5. a \o b \in Seq(Row) /\ Len(a \o b) = Len(rows) - 1
    <3>1. a \o b \in Seq(Row) /\ Len(a \o b) = Len(a) + Len(b)
      BY <2>2, <2>3, Joined
    <3> QED BY <2>1, <2>2, <2>3, <3>1
  <2>6. ASSUME NEW k \in DOMAIN (a \o b)
        PROVE  \E j \in DOMAIN rows : (a \o b)[k] = rows[j]
    <3>1. k \in 1 .. Len(rows) - 1
      BY <2>5
    <3>2. CASE k <= i - 1
      <4>1. (a \o b)[k] = rows[k] /\ k \in DOMAIN rows
        BY <2>1, <2>2, <2>3, <3>1, <3>2
      <4> QED BY <4>1
    <3>3. CASE ~(k <= i - 1)
      <4>1. k - (i - 1) \in 1 .. Len(rows) - i /\ k + 1 \in DOMAIN rows
        BY <2>1, <3>1, <3>3
      <4>2. (a \o b)[k] = b[k - (i - 1)]
        BY <2>1, <2>2, <2>3, <3>1, <3>3
      <4>3. b[k - (i - 1)] = rows[k + 1]
        <5>1. k - (i - 1) + i = k + 1
          BY <2>1, <3>1
        <5> QED BY <2>3, <4>1, <5>1
      <4> QED BY <4>1, <4>2, <4>3
    <3> QED BY <3>2, <3>3
  <2> QED BY <2>4, <2>5, <2>6
<1> QED BY <1>1, <1>2

(* The rows of f are marked in more, the others as they were. *)
Marks(more, rows, f, st) ==
    /\ DOMAIN more = DOMAIN rows
    /\ \A i \in DOMAIN rows : /\ more[i].file = rows[i].file
                              /\ more[i].st = IF rows[i].file = f THEN st ELSE rows[i].st

LEMMA MarkedRows ==
    ASSUME NEW rows \in Seq(Row), NEW f \in Files, NEW st \in {"uploading", "ready", "failed"}
    PROVE  Marked(rows, f, st) \in Seq(Row) /\ Marks(Marked(rows, f, st), rows, f, st)
<1> DEFINE m(i) == IF rows[i].file = f THEN [rows[i] EXCEPT !.st = st] ELSE rows[i]
<1>1. \A i \in DOMAIN rows : /\ m(i) \in Row /\ m(i).file = rows[i].file
                             /\ m(i).st = IF rows[i].file = f THEN st ELSE rows[i].st
  <2>1. ASSUME NEW i \in DOMAIN rows
        PROVE  /\ m(i) \in Row /\ m(i).file = rows[i].file
               /\ m(i).st = IF rows[i].file = f THEN st ELSE rows[i].st
    <3>1. rows[i] \in Row
      OBVIOUS
    <3> QED BY <3>1 DEF Row
  <2> QED BY <2>1
<1>2. Marked(rows, f, st) = [i \in DOMAIN rows |-> m(i)] /\ DOMAIN rows = 1 .. Len(rows) /\ Len(rows) \in Nat
  BY DEF Marked
<1> HIDE DEF m
<1>3. [i \in 1 .. Len(rows) |-> m(i)] \in Seq(Row)
  BY <1>1, <1>2
<1> QED BY <1>1, <1>2, <1>3 DEF Marks

Fresh(some) == [i \in DOMAIN some |-> [file |-> some[i], st |-> "uploading"]]

(* A row of more is one of rows or new. *)
Adds(more, rows, some) ==
    \A k \in DOMAIN more : \/ \E j \in DOMAIN rows : more[k] = rows[j]
                           \/ \E f \in ToSet(some) : more[k] = [file |-> f, st |-> "uploading"]

LEMMA AddedRows ==
    ASSUME NEW rows \in Seq(Row), NEW some \in Seq(Files), NEW more, more = rows \o Fresh(some)
    PROVE  more \in Seq(Row) /\ Adds(more, rows, some)
<1> DEFINE new == Fresh(some)
<1>1. DOMAIN some = 1 .. Len(some) /\ Len(some) \in Nat /\ \A i \in DOMAIN some : some[i] \in Files
  OBVIOUS
<1>2. \A i \in DOMAIN some : new[i] = [file |-> some[i], st |-> "uploading"] /\ new[i] \in Row
  BY <1>1 DEF Row, Fresh
<1>3. new \in Seq(Row) /\ Len(new) = Len(some)
  BY <1>1, <1>2 DEF Fresh
<1>4. more = rows \o new
  OBVIOUS
<1> HIDE DEF new
<1>5. more \in Seq(Row) /\ Len(more) = Len(rows) + Len(some)
  <2>1. rows \o new \in Seq(Row) /\ Len(rows \o new) = Len(rows) + Len(new)
    BY <1>3, Joined
  <2> QED BY <1>3, <1>4, <2>1
<1>6. ASSUME NEW k \in DOMAIN more
      PROVE  \/ \E j \in DOMAIN rows : more[k] = rows[j]
             \/ \E f \in ToSet(some) : more[k] = [file |-> f, st |-> "uploading"]
  <2>1. k \in 1 .. Len(rows) + Len(some) /\ Len(rows) \in Nat
    BY <1>1, <1>5
  <2>2. CASE k <= Len(rows)
    <3>1. more[k] = rows[k] /\ k \in DOMAIN rows
      BY <1>3, <1>4, <2>1, <2>2
    <3> QED BY <3>1
  <2>3. CASE ~(k <= Len(rows))
    <3>1. k - Len(rows) \in DOMAIN some /\ more[k] = new[k - Len(rows)]
      BY <1>1, <1>3, <1>4, <2>1, <2>3
    <3> QED BY <1>2, <3>1 DEF ToSet
  <2> QED BY <2>2, <2>3
<1> QED BY <1>5, <1>6 DEF Adds

-----------------------------------------------------------------------------
(* Every variable keeps its type.                                           *)

LEMMA SpendKeeps ==
    ASSUME plan \in Plan, NEW act \in Acts, Spend(act)
    PROVE  plan' \in Plan /\ plan'.picks = plan.picks
<1> DEFINE left == [plan.left EXCEPT ![act] = @ - 1]
<1>1. left \in [Acts -> Int]
  BY DEF Plan
<1>2. plan' = [plan EXCEPT !.left = left]
  BY DEF Spend
<1> HIDE DEF left
<1> QED BY <1>1, <1>2 DEF Plan

LEMMA SoftDeletes ==
    ASSUME StoreTyped, NEW f, NEW s, NEW s1, softDeleteFile(f, s, s1)
    PROVE  /\ s \in Deleting /\ s1 \in Ends
           /\ row' \in [Files -> {"none", "pending", "uploaded", "deleted"}] /\ blob' \in [Files -> BOOLEAN]
           /\ \A g \in Files : g # f => row'[g] = row[g] /\ blob'[g] = blob[g]
BY DEF StoreTyped, softDeleteFile, SelectsRow, DeletesBlob, UpdatesRow, Deleting, Ends

LEMMA NextFileTyped ==
    ASSUME NEW h \in Hand
    PROVE  /\ NextFile(h) \in Hand /\ NextFile(h).names = h.names
           /\ NextFile(h).step \in Deleting => NextFile(h).file \in NextFile(h).names
<1>1. CASE h.names \ h.done = {}
  BY <1>1 DEF NextFile, Hand, Deleting
<1>2. CASE h.names \ h.done # {}
  <2>1. PICK f \in h.names \ h.done : f = CHOOSE g \in h.names \ h.done : TRUE
    BY <1>2
  <2>2. NextFile(h) = [h EXCEPT !.step = "select", !.file = f]
    BY <1>2, <2>1 DEF NextFile
  <2>3. f \in Files
    BY DEF Hand
  <2> QED BY <2>1, <2>2, <2>3 DEF Hand, Deleting
<1> QED BY <1>1, <1>2

LEMMA EmptiedPage ==
    ASSUME page \in Page
    PROVE  /\ [page EXCEPT !.rows = <<>>] \in Page /\ [page EXCEPT !.rows = <<>>].rows = <<>>
           /\ [page EXCEPT !.rows = <<>>, !.busy = TRUE] \in Page
           /\ [page EXCEPT !.rows = <<>>, !.busy = TRUE].rows = <<>>
           /\ \A c \in Convs \cup {None} : Leaves(page, c) \in Page /\ Leaves(page, c).rows = <<>>
<1> DEFINE none == <<>>
<1>1. none \in Seq(Row)
  OBVIOUS
<1> HIDE DEF none
<1>2. [page EXCEPT !.rows = none] \in Page /\ [page EXCEPT !.rows = none].rows = none
  BY <1>1 DEF Page
<1>3. [page EXCEPT !.rows = none, !.busy = TRUE] \in Page /\ [page EXCEPT !.rows = none, !.busy = TRUE].rows = none
  BY <1>1 DEF Page
<1>4. \A c \in Convs \cup {None} :
        /\ [page EXCEPT !.rows = none, !.conv = c, !.busy = FALSE] \in Page
        /\ [page EXCEPT !.rows = none, !.conv = c, !.busy = FALSE].rows = none
  BY <1>1 DEF Page
<1> QED BY <1>2, <1>3, <1>4 DEF none, Leaves

LEMMA UnawaitedPosts ==
    ASSUME posts \in SUBSET Post
    PROVE  /\ Unawaited \in SUBSET Post
           /\ \A y \in Unawaited : \E x \in posts : y = [x EXCEPT !.awaited = FALSE] /\ y.files = x.files /\ y.step = x.step
<1>1. ASSUME NEW x \in posts
      PROVE  LET y == [x EXCEPT !.awaited = FALSE] IN y \in Post /\ y.files = x.files /\ y.step = x.step
  <2>1. x \in Post
    OBVIOUS
  <2> QED BY <2>1 DEF Post
<1>2. \A y \in Unawaited : \E x \in posts : y = [x EXCEPT !.awaited = FALSE]
  BY DEF Unawaited
<1> QED BY ZenonT(60), <1>1, <1>2

(* The end of an upload. *)
LEMMA UploadEndsPage ==
    ASSUME BrowserTyped, NEW f \in Files, NEW st \in {"ready", "failed"}, UploadEnds(f, st)
    PROVE  /\ page' \in Page /\ page'.rows = Marked(page.rows, f, st)
           /\ upload' = [upload EXCEPT ![f] = "none"]
<1> DEFINE mine == {b \in page.batches : f \in b}
           rest == {b \ {f} : b \in mine} \ {{}}
           batches == (page.batches \ mine) \cup rest
           ub == IF rest = {} THEN FALSE ELSE page.uploadBusy
           rows == Marked(page.rows, f, st)
<1>1. page' = [page EXCEPT !.rows = rows, !.batches = batches, !.uploadBusy = ub]
  BY DEF UploadEnds
<1>2. rows \in Seq(Row) /\ page \in Page
  BY RowsOf, MarkedRows DEF BrowserTyped
<1>3. batches \in SUBSET (SUBSET Files) /\ ub \in BOOLEAN
  <2>1. page.batches \in SUBSET (SUBSET Files) /\ page.uploadBusy \in BOOLEAN
    BY <1>2 DEF Page
  <2>2. mine \subseteq page.batches
    OBVIOUS
  <2>3. rest \in SUBSET (SUBSET Files)
    BY <2>1, <2>2
  <2> QED BY <2>1, <2>2, <2>3
<1>4. upload' = [upload EXCEPT ![f] = "none"]
  BY DEF UploadEnds
<1> HIDE DEF rows, batches, ub
<1>5. page' \in Page /\ page'.rows = rows
  BY <1>1, <1>2, <1>3 DEF Page
<1> QED BY <1>4, <1>5 DEF rows

LEMMA ServesTyped ==
    ASSUME StoreTyped, NEW f \in Files, Serves(f) \/ UNCHANGED <<row, blob, born>>
    PROVE  /\ row' \in [Files -> {"none", "pending", "uploaded", "deleted"}] /\ blob' \in [Files -> BOOLEAN]
           /\ \A g \in Files : g # f => row'[g] = row[g] /\ blob'[g] = blob[g]
BY DEF StoreTyped, Serves, Prepared, Stored, Confirmed

LEMMA ComposerTyped ==
    ASSUME Typed, onFileInputChange \/ uploadOneLocalFile \/ UploadFails \/ removeAttachment \/ RemovalRuns
                  \/ RemovalFails \/ RemovalLands \/ send \/ SwitchThread
    PROVE  Typed'
<1>0. BrowserTyped /\ StoreTyped /\ ChatTyped /\ CleanupTyped
  BY DEF Typed
<1>1. UNCHANGED <<chat, cleanup, job, late>> => ChatTyped' /\ CleanupTyped'
  BY <1>0 DEF ChatTyped, CleanupTyped, JobTyped, chat, cleanup
<1>2. UNCHANGED store => StoreTyped'
  BY <1>0 DEF StoreTyped, store
<1>3. CASE onFileInputChange
  <2>1. PICK some \in plan.picks :
          /\ plan' = [plan EXCEPT !.picks = @ \ {some}]
          /\ page' = [page EXCEPT !.rows = @ \o [i \in DOMAIN some |-> [file |-> some[i], st |-> "uploading"]],
                                  !.uploadBusy = TRUE, !.batches = @ \cup {ToSet(some)}]
          /\ upload' = [f \in Files |-> IF f \in ToSet(some) THEN "prepare" ELSE upload[f]]
          /\ UNCHANGED <<posts, removal, store, chat, cleanup, job, history>>
    BY <1>3 DEF onFileInputChange
  <2>2. some \in Seq(Files) /\ ToSet(some) \in SUBSET Files
    BY <1>0 DEF BrowserTyped, Plan, ToSet
  <2> DEFINE rows == page.rows \o Fresh(some)
             batches == page.batches \cup {ToSet(some)}
  <2>3. rows \in Seq(Row)
    BY <1>0, <2>2, AddedRows, RowsOf
  <2>4. batches \in SUBSET (SUBSET Files)
    BY <1>0, <2>2 DEF BrowserTyped, Page
  <2>5. page' = [page EXCEPT !.rows = rows, !.uploadBusy = TRUE, !.batches = batches]
    BY <2>1 DEF Fresh
  <2> HIDE DEF rows, batches
  <2>6. page' \in Page
    BY <1>0, <2>3, <2>4, <2>5 DEF BrowserTyped, Page
  <2>7. plan' \in Plan
    BY <1>0, <2>1 DEF BrowserTyped, Plan
  <2>8. upload' \in [Files -> {"none"} \cup Unfinished]
    BY <1>0, <2>1 DEF BrowserTyped, Unfinished
  <2> QED BY <1>0, <1>1, <1>2, <2>1, <2>6, <2>7, <2>8 DEF Typed, BrowserTyped, history
<1>4. CASE uploadOneLocalFile
  <2>1. PICK f \in Files :
    /\ Serves(f)
    /\ CASE upload[f] = "prepare" -> upload' = [upload EXCEPT ![f] = "put"] /\ UNCHANGED page
         [] upload[f] = "put" -> upload' = [upload EXCEPT ![f] = "confirm"] /\ UNCHANGED page
         [] upload[f] = "confirm" -> UploadEnds(f, "ready")
    /\ UNCHANGED <<plan, posts, removal, old, chat, cleanup, job, history>>
    BY <1>4 DEF uploadOneLocalFile
  <2>2. StoreTyped'
    BY <1>0, <2>1, ServesTyped DEF StoreTyped
  <2>3. upload[f] \in {"prepare", "put", "confirm"}
    BY <2>1 DEF Serves
  <2>4. page' \in Page /\ upload' \in [Files -> {"none"} \cup Unfinished]
    BY <1>0, <2>1, <2>3, UploadEndsPage DEF BrowserTyped, Unfinished
  <2> QED BY <1>0, <1>1, <2>1, <2>2, <2>4 DEF Typed, BrowserTyped, history
<1>5. CASE UploadFails
  <2>1. PICK f \in Files :
    /\ Spend("lose") /\ UploadEnds(f, "failed") /\ (Serves(f) \/ UNCHANGED <<row, blob, born>>)
    /\ UNCHANGED <<posts, removal, old, chat, cleanup, job, history>>
    BY <1>5 DEF UploadFails
  <2>2. StoreTyped'
    BY <1>0, <2>1, ServesTyped DEF StoreTyped
  <2>3. page' \in Page /\ upload' \in [Files -> {"none"} \cup Unfinished]
    BY <1>0, <2>1, UploadEndsPage DEF BrowserTyped, Unfinished
  <2>4. plan' \in Plan
    BY <1>0, <2>1, SpendKeeps DEF BrowserTyped, Acts
  <2> QED BY <1>0, <1>1, <2>1, <2>2, <2>3, <2>4 DEF Typed, BrowserTyped, history
<1>6. CASE removeAttachment
  <2>1. PICK i \in DOMAIN page.rows :
       /\ Spend("remove")
       /\ \/ page' = [page EXCEPT !.rows = Dropped(@, i)] /\ UNCHANGED <<removal, pressed>>
          \/ /\ \E r \in Removals : removal' = [removal EXCEPT ![r] = [file |-> page.rows[i].file, at |-> i, step |-> "select"]]
             /\ pressed' = pressed \cup {page.rows[i].file}
             /\ UNCHANGED page
       /\ UNCHANGED <<upload, posts, store, chat, cleanup, job, late, gaveUp>>
    BY <1>6 DEF removeAttachment
  <2>2. page.rows[i].file \in Files /\ i \in Nat
    BY <1>0, RowsOf DEF Row, Rows
  <2>3. plan' \in Plan
    BY <1>0, <2>1, SpendKeeps DEF BrowserTyped, Acts
  <2>4. Dropped(page.rows, i) \in Seq(Row)
    BY <1>0, <2>2, RowsOf, DroppedRows
  <2>5. page' \in Page
    BY <1>0, <2>1, <2>4 DEF BrowserTyped, Page
  <2>6. removal' \in [Removals -> Removal] /\ pressed' \in SUBSET Files
    BY <1>0, <2>1, <2>2 DEF BrowserTyped, Removal, Deleting
  <2> QED BY <1>0, <1>1, <1>2, <2>1, <2>3, <2>5, <2>6 DEF Typed, BrowserTyped
<1>7. CASE RemovalRuns
  <2>1. PICK r \in Removals, s1 \in Ends :
    /\ softDeleteFile(removal[r].file, removal[r].step, s1)
    /\ removal' = [removal EXCEPT ![r].step = s1]
    /\ UNCHANGED <<plan, page, upload, posts, born, old, chat, cleanup, job, history>>
    BY <1>7 DEF RemovalRuns
  <2>2. StoreTyped'
    BY <1>0, <2>1, SoftDeletes DEF StoreTyped
  <2>3. removal' \in [Removals -> Removal]
    BY <1>0, <2>1 DEF BrowserTyped, Removal
  <2> QED BY <1>0, <1>1, <2>1, <2>2, <2>3 DEF Typed, BrowserTyped, history
<1>8. CASE RemovalFails
  <2>1. plan' \in Plan
    BY <1>0, <1>8, SpendKeeps DEF BrowserTyped, Acts, RemovalFails
  <2>2. removal' \in [Removals -> Removal]
    BY <1>0, <1>8 DEF BrowserTyped, Removal, RemovalFails
  <2> QED BY <1>0, <1>1, <1>2, <1>8, <2>1, <2>2 DEF Typed, BrowserTyped, history, RemovalFails
<1>9. CASE RemovalLands
  <2>1. PICK r \in Removals :
    /\ page' = IF removal[r].step = "ok" THEN [page EXCEPT !.rows = Dropped(@, removal[r].at)] ELSE page
    /\ removal' = [removal EXCEPT ![r] = Idle]
    /\ UNCHANGED <<plan, upload, posts, store, chat, cleanup, job, history>>
    BY <1>9 DEF RemovalLands
  <2>2. Dropped(page.rows, removal[r].at) \in Seq(Row)
    BY <1>0, RowsOf, DroppedRows DEF BrowserTyped, Removal
  <2>3. page' \in Page
    BY <1>0, <2>1, <2>2 DEF BrowserTyped, Page
  <2>4. removal' \in [Removals -> Removal]
    BY <1>0, <2>1 DEF BrowserTyped, Removal, Idle
  <2> QED BY <1>0, <1>1, <1>2, <2>1, <2>3, <2>4 DEF Typed, BrowserTyped, history
<1>10. CASE send
  <2> DEFINE x == [conv |-> page.conv, files |-> Snapshot(page.rows), step |-> "sent", awaited |-> TRUE]
  <2>1. posts' = posts \cup {x} /\ page' = [page EXCEPT !.rows = <<>>, !.busy = TRUE] /\ Spend("send")
        /\ UNCHANGED <<upload, removal, store, chat, cleanup, job, history>>
    BY <1>10 DEF send
  <2>2. Snapshot(page.rows) \in SUBSET Files /\ page.conv \in Convs \cup {None}
    BY <1>0, RowsOf DEF Snapshot, Row, Rows, BrowserTyped, Page
  <2>3. x \in Post
    BY <2>2 DEF Post
  <2>4. page' \in Page
    BY <1>0, <2>1, EmptiedPage DEF BrowserTyped
  <2>5. plan' \in Plan
    BY <1>0, <2>1, SpendKeeps DEF BrowserTyped, Acts
  <2> HIDE DEF x
  <2> QED BY <1>0, <1>1, <1>2, <2>1, <2>3, <2>4, <2>5 DEF Typed, BrowserTyped, history
<1>11. CASE SwitchThread
  <2>1. PICK c \in Convs \cup {None} :
          /\ Spend("switch") /\ UNCHANGED <<upload, removal, store, chat, cleanup, job, history>>
          /\ \/ page' = [page EXCEPT !.rows = <<>>] /\ UNCHANGED posts
             \/ page' = Leaves(page, c) /\ posts' = Unawaited
    BY <1>11 DEF SwitchThread
  <2>2. page' \in Page
    BY <1>0, <2>1, EmptiedPage DEF BrowserTyped
  <2>3. posts' \in SUBSET Post
    BY <1>0, <2>1, UnawaitedPosts DEF BrowserTyped
  <2>4. plan' \in Plan
    BY <1>0, <2>1, SpendKeeps DEF BrowserTyped, Acts
  <2> QED BY <1>0, <1>1, <1>2, <2>1, <2>2, <2>3, <2>4 DEF Typed, BrowserTyped, history
<1> QED BY <1>3, <1>4, <1>5, <1>6, <1>7, <1>8, <1>9, <1>10, <1>11

LEMMA BrowserFrame == ASSUME BrowserTyped, plan' \in Plan, UNCHANGED <<browser, pressed>> PROVE BrowserTyped'
BY DEF BrowserTyped, browser

LEMMA AnsweredTyped ==
    ASSUME BrowserTyped, NEW x \in posts, NEW ok \in BOOLEAN, Answered(x, ok)
    PROVE  /\ page' \in Page /\ page'.rows = page.rows /\ posts' \in SUBSET Post /\ posts' = posts \ {x}
           /\ UNCHANGED <<upload, removal, store, chat, cleanup, job, history>>
<1>1. page \in Page /\ x.conv \in Convs \cup {None}
  BY DEF BrowserTyped, Post
<1>2. \/ page' = page \/ page' = [page EXCEPT !.busy = FALSE, !.conv = x.conv] \/ page' = [page EXCEPT !.busy = FALSE]
  BY DEF Answered
<1>3. page' \in Page /\ page'.rows = page.rows
  BY <1>1, <1>2 DEF Page
<1> QED BY <1>3 DEF Answered, BrowserTyped

(* The two ends of a POST in the service.                                   *)
PostRest == UNCHANGED <<plan, page, upload, removal, store, drop, outbox, told, cleanup, job, pressed, gaveUp>>
Refuses(x) ==
    /\ posts' = (posts \ {x}) \cup {[x EXCEPT !.step = "refused"]}
    /\ UNCHANGED <<refs, late>> /\ PostRest
Commits(x, c) ==
    /\ posts' = (posts \ {x}) \cup {[x EXCEPT !.step = "committed", !.conv = c]}
    /\ refs' = [refs EXCEPT ![c] = @ \cup x.files]
    /\ late' = late \cup (x.files \cap old) /\ PostRest

LEMMA PostRuns ==
    ASSUME post_message
    PROVE  \E x \in posts : x.step = "sent" /\ (Refuses(x) \/ \E c \in Convs : Commits(x, c))
<1>1. PICK x \in posts :
    /\ x.step = "sent"
    /\ IF Target(x) = {}
       THEN /\ posts' = (posts \ {x}) \cup {[x EXCEPT !.step = "refused"]}
            /\ UNCHANGED <<conv, refs, late>>
       ELSE LET c == CHOOSE y \in Target(x) : TRUE
            IN /\ posts' = (posts \ {x}) \cup {[x EXCEPT !.step = "committed", !.conv = c]}
               /\ conv' = [conv EXCEPT ![c] = "alive"]
               /\ refs' = [refs EXCEPT ![c] = @ \cup x.files]
               /\ late' = late \cup (x.files \cap old)
    /\ PostRest
  BY Zenon DEF post_message, PostRest
<1>2. CASE Target(x) = {}
  BY <1>1, <1>2 DEF Refuses
<1>3. CASE Target(x) # {}
  <2>1. PICK c : c = CHOOSE y \in Target(x) : TRUE
    OBVIOUS
  <2>2. c \in Target(x)
    BY <1>3, <2>1
  <2>3. c \in Convs
    BY <2>2 DEF Target
  <2>4. Commits(x, c)
    BY <1>1, <1>3, <2>1 DEF Commits
  <2> QED BY <1>1, <2>3, <2>4
<1> QED BY <1>2, <1>3

LEMMA ChatServiceTyped ==
    ASSUME Typed, post_message \/ PostLands \/ PostIsLost \/ executeDelete \/ delete_conversation \/ dispatch_event
                  \/ AnnouncementIsLost \/ DeletionLands \/ drain_outbox_batch
    PROVE  Typed'
<1>0. BrowserTyped /\ StoreTyped /\ ChatTyped /\ CleanupTyped /\ plan \in Plan
  BY DEF Typed, BrowserTyped
<1>1. UNCHANGED <<cleanup, job>> => CleanupTyped'
  BY <1>0 DEF CleanupTyped, JobTyped, cleanup
<1>2. UNCHANGED store => StoreTyped'
  BY <1>0 DEF StoreTyped, store
<1>3. CASE post_message
  <2>1. PICK x \in posts : x.step = "sent" /\ (Refuses(x) \/ \E c \in Convs : Commits(x, c))
    BY <1>3, PostRuns
  <2>2. x \in Post /\ x.files \in SUBSET Files
    BY <1>0 DEF BrowserTyped, Post
  <2>3. [x EXCEPT !.step = "refused"] \in Post /\ \A c \in Convs : [x EXCEPT !.step = "committed", !.conv = c] \in Post
    BY <2>2 DEF Post
  <2>4. posts' \in SUBSET Post
    BY ZenonT(60), <1>0, <2>1, <2>3 DEF BrowserTyped, Refuses, Commits
  <2>5. refs' \in [Convs -> SUBSET Files] /\ late' \in SUBSET Files
    BY <1>0, <2>1, <2>2 DEF ChatTyped, Refuses, Commits
  <2> QED BY <1>0, <1>1, <1>2, <2>1, <2>4, <2>5 DEF Typed, BrowserTyped, ChatTyped, Refuses, Commits, PostRest
<1>4. CASE PostLands \/ PostIsLost
  <2>1. PICK x \in posts, ok \in BOOLEAN : Answered(x, ok) /\ (UNCHANGED plan \/ Spend("lose"))
    BY <1>4 DEF PostLands, PostIsLost
  <2>2. plan' \in Plan
    BY <1>0, <2>1, SpendKeeps DEF Acts
  <2>3. page' \in Page /\ posts' \in SUBSET Post /\ UNCHANGED <<upload, removal, store, chat, cleanup, job, history>>
    BY <1>0, <2>1, AnsweredTyped
  <2> QED BY <1>0, <1>1, <1>2, <2>2, <2>3 DEF Typed, BrowserTyped, ChatTyped, chat, history
<1>5. CASE executeDelete
  <2>1. PICK c \in Convs :
    /\ Spend("drop")
    /\ drop' = [drop EXCEPT ![c] = [step |-> "listed", files |-> list_orphan_file_ids_for_conversation(c)]]
    /\ UNCHANGED <<browser, store, conv, refs, outbox, told, cleanup, job, history>>
    BY <1>5 DEF executeDelete
  <2>2. list_orphan_file_ids_for_conversation(c) \in SUBSET Files
    BY <1>0 DEF list_orphan_file_ids_for_conversation, ChatTyped
  <2>3. drop' \in [Convs -> Drop]
    BY <1>0, <2>1, <2>2 DEF ChatTyped, Drop
  <2>4. BrowserTyped'
    BY <1>0, <2>1, SpendKeeps, BrowserFrame DEF Acts, history
  <2> QED BY <1>0, <1>1, <1>2, <2>1, <2>3, <2>4 DEF Typed, ChatTyped, history
<1>6. CASE delete_conversation
  <2>1. PICK c \in Convs :
    /\ refs' = [refs EXCEPT ![c] = {}] /\ drop' = [drop EXCEPT ![c].step = "committed"]
    /\ UNCHANGED <<plan, browser, store, outbox, told, cleanup, job, history>>
    BY <1>6 DEF delete_conversation
  <2>2. drop' \in [Convs -> Drop] /\ refs' \in [Convs -> SUBSET Files]
    BY <1>0, <2>1 DEF ChatTyped, Drop
  <2>3. BrowserTyped'
    BY <1>0, <2>1, BrowserFrame DEF history
  <2> QED BY <1>0, <1>1, <1>2, <2>1, <2>2, <2>3 DEF Typed, ChatTyped, history
<1>7. CASE dispatch_event
  <2>1. PICK c \in Convs :
    /\ \/ queue' = queue \cup Event(drop[c].files) /\ UNCHANGED <<plan, outbox, told>>
       \/ /\ Spend("nats")
          /\ outbox' = outbox \cup ({drop[c].files} \ {{}}) /\ UNCHANGED queue
    /\ drop' = [drop EXCEPT ![c].step = "announced"]
    /\ UNCHANGED <<browser, store, conv, refs, hand, job, history>>
    BY <1>7 DEF dispatch_event
  <2>2. drop[c].files \in SUBSET Files
    BY <1>0 DEF ChatTyped, Drop
  <2>3. queue' \in SUBSET [names : SUBSET Files, nth : Nat] /\ outbox' \in SUBSET (SUBSET Files)
    BY <1>0, <2>1, <2>2 DEF ChatTyped, CleanupTyped, Event
  <2>4. BrowserTyped'
    BY <1>0, <2>1, SpendKeeps, BrowserFrame DEF Acts, history
  <2>5. drop' \in [Convs -> Drop]
    BY <1>0, <2>1 DEF ChatTyped, Drop
  <2> QED BY <1>0, <1>2, <2>1, <2>3, <2>4, <2>5 DEF Typed, ChatTyped, CleanupTyped, JobTyped, history
<1>8. CASE AnnouncementIsLost
  <2>1. PICK c \in Convs :
    /\ Spend("die")
    /\ drop' = [drop EXCEPT ![c] = [step |-> "announced", files |-> {}]]
    /\ UNCHANGED <<browser, store, conv, refs, outbox, told, cleanup, job, history>>
    BY <1>8 DEF AnnouncementIsLost
  <2>2. drop' \in [Convs -> Drop]
    BY <1>0, <2>1 DEF ChatTyped, Drop
  <2>3. BrowserTyped'
    BY <1>0, <2>1, SpendKeeps, BrowserFrame DEF Acts, history
  <2> QED BY <1>0, <1>1, <1>2, <2>1, <2>2, <2>3 DEF Typed, ChatTyped, history
<1>9. CASE DeletionLands
  <2>1. PICK c \in Convs :
    /\ drop' = [drop EXCEPT ![c].step = "answered"]
    /\ \/ page' = page \/ page' = Leaves(page, None)
    /\ \/ posts' = posts \/ posts' = Unawaited
    /\ UNCHANGED plan \/ Spend("lose")
    /\ UNCHANGED <<upload, removal, store, conv, refs, outbox, told, cleanup, job, history>>
    BY <1>9 DEF DeletionLands
  <2>2. page' \in Page
    BY <1>0, <2>1, EmptiedPage DEF BrowserTyped
  <2>3. posts' \in SUBSET Post
    BY <1>0, <2>1, UnawaitedPosts DEF BrowserTyped
  <2>4. plan' \in Plan
    BY <1>0, <2>1, SpendKeeps DEF Acts
  <2>5. drop' \in [Convs -> Drop]
    BY <1>0, <2>1 DEF ChatTyped, Drop
  <2> QED BY <1>0, <1>1, <1>2, <2>1, <2>2, <2>3, <2>4, <2>5 DEF Typed, BrowserTyped, ChatTyped, history
<1>10. CASE drain_outbox_batch
  <2>1. PICK names \in outbox :
    /\ queue' = queue \cup Event(names) /\ outbox' = outbox \ {names}
    /\ UNCHANGED <<plan, browser, store, conv, refs, drop, told, hand, job, history>>
    BY <1>10 DEF drain_outbox_batch
  <2>2. queue' \in SUBSET [names : SUBSET Files, nth : Nat] /\ outbox' \in SUBSET (SUBSET Files)
    BY <1>0, <2>1 DEF ChatTyped, CleanupTyped, Event
  <2>3. BrowserTyped'
    BY <1>0, <2>1, BrowserFrame DEF history
  <2> QED BY <1>0, <1>2, <2>1, <2>2, <2>3 DEF Typed, ChatTyped, CleanupTyped, JobTyped, history
<1> QED BY <1>3, <1>4, <1>5, <1>6, <1>7, <1>8, <1>9, <1>10

LEMMA AgainTyped ==
    ASSUME NEW h \in Hand, Again(h), CleanupTyped
    PROVE  /\ queue' \in SUBSET [names : SUBSET Files, nth : Nat]
           /\ \A m \in queue' : m \in queue \/ m.names = h.names
           /\ UNCHANGED <<pressed, late>>
BY DEF Again, CleanupTyped, Hand

(* What a run of the job remembers. *)
LEMMA JobGoesOn ==
    ASSUME JobTyped, StoreTyped,
           scan_orphan_files \/ list_files_for_owner \/ _is_file_referenced \/ JobPublishes \/ JobFails
    PROVE  /\ JobTyped'
           /\ job'.cut \subseteq job.cut \cup old
           /\ job'.found \subseteq job.found \cup job.cut
           /\ \A f \in job'.orphans : f \in job.orphans \/ (f \in job.found /\ ~Referenced(f))
<1>1. CASE scan_orphan_files
  <2>1. job' = [step |-> "list", cut |-> old, off |-> 0, found |-> {}, orphans |-> {}]
    BY <1>1 DEF scan_orphan_files, Asleep
  <2> QED BY <2>1 DEF JobTyped, StoreTyped
<1>2. CASE list_files_for_owner
  <2> DEFINE upTo == Smaller(job.off + PageLimit, Len(Listed))
             got == {Listed[i] : i \in job.off + 1 .. upTo}
             found == job.found \cup (got \cap job.cut)
             off == job.off + Cardinality(got)
  <2>1. PICK st : job' = [job EXCEPT !.off = off, !.found = found, !.step = st]
    BY <1>2 DEF list_files_for_owner
  <2>2. found \in SUBSET Files /\ found \subseteq job.found \cup job.cut
    BY DEF JobTyped
  <2> HIDE DEF found, off
  <2>3. job' = [step |-> st, cut |-> job.cut, off |-> off, found |-> found, orphans |-> job.orphans]
    BY <2>1 DEF JobTyped
  <2>4. job'.step = st /\ job'.cut = job.cut /\ job'.off = off /\ job'.found = found /\ job'.orphans = job.orphans
    BY <2>3
  <2>5. job' = [step |-> job'.step, cut |-> job'.cut, off |-> job'.off, found |-> job'.found, orphans |-> job'.orphans]
    BY <2>3, <2>4
  <2>6. job.cut \in SUBSET Files /\ job.orphans \in SUBSET Files
    BY DEF JobTyped
  <2>7. JobTyped'
    BY <2>2, <2>4, <2>5, <2>6 DEF JobTyped
  <2> QED BY <2>2, <2>4, <2>7
<1>3. CASE _is_file_referenced
  <2>1. PICK f \in job.found :
          job' = [job EXCEPT !.found = @ \ {f}, !.orphans = IF Referenced(f) THEN @ ELSE @ \cup {f}]
    BY <1>3 DEF _is_file_referenced
  <2> DEFINE found == job.found \ {f}
             orphans == IF Referenced(f) THEN job.orphans ELSE job.orphans \cup {f}
  <2>2. /\ found \in SUBSET Files /\ orphans \in SUBSET Files /\ found \subseteq job.found
        /\ \A g \in orphans : g \in job.orphans \/ (g \in job.found /\ ~Referenced(g))
    <3>1. job.found \in SUBSET Files /\ job.orphans \in SUBSET Files /\ f \in Files
      BY DEF JobTyped
    <3>2. CASE Referenced(f)
      BY <3>1, <3>2
    <3>3. CASE ~Referenced(f)
      BY <3>1, <3>3
    <3> QED BY <3>2, <3>3
  <2>3. job' = [job EXCEPT !.found = found, !.orphans = orphans]
    BY <2>1
  <2> HIDE DEF found, orphans
  <2>4. job' = [step |-> job.step, cut |-> job.cut, off |-> job.off, found |-> found, orphans |-> orphans]
    BY <2>3 DEF JobTyped
  <2> QED BY <2>2, <2>4 DEF JobTyped
<1>4. CASE JobPublishes \/ JobFails
  <2>1. job' = [step |-> "asleep", cut |-> {}, off |-> 0, found |-> {}, orphans |-> {}]
    BY <1>4 DEF JobPublishes, JobFails, Asleep
  <2> QED BY <2>1 DEF JobTyped
<1> QED BY <1>1, <1>2, <1>3, <1>4

LEMMA CleanupServiceTyped ==
    ASSUME Typed, Fetch \/ processConversationDeleted \/ Acks \/ CleanupFails \/ AckWaitEnds \/ scan_orphan_files
                  \/ list_files_for_owner \/ _is_file_referenced \/ JobPublishes \/ JobFails \/ Age
    PROVE  Typed'
<1>0. BrowserTyped /\ StoreTyped /\ ChatTyped /\ CleanupTyped /\ plan \in Plan
  BY DEF Typed, BrowserTyped
<1>1. UNCHANGED <<chat, late>> => ChatTyped'
  BY <1>0 DEF ChatTyped, chat
<1>2. UNCHANGED store => StoreTyped'
  BY <1>0 DEF StoreTyped, store
<1>3. UNCHANGED <<browser, pressed>> /\ plan' \in Plan => BrowserTyped'
  BY <1>0, BrowserFrame
<1>4. CASE Fetch
  <2>1. PICK w \in Workers, m \in queue :
    /\ queue' = queue \ {m}
    /\ hand' = [hand EXCEPT ![w] = NextFile([names |-> m.names, nth |-> m.nth, done |-> {}, file |-> None, step |-> "next"])]
    /\ UNCHANGED <<plan, browser, store, chat, job, history>>
    BY <1>4 DEF Fetch
  <2> DEFINE h == [names |-> m.names, nth |-> m.nth, done |-> {}, file |-> None, step |-> "next"]
  <2>2. h \in Hand
    BY <1>0 DEF CleanupTyped, Hand
  <2> HIDE DEF h
  <2>3. hand' \in [Workers -> Hand]
    BY <1>0, <2>1, <2>2, NextFileTyped DEF CleanupTyped, h
  <2> QED BY <1>0, <1>1, <1>2, <1>3, <2>1, <2>3 DEF Typed, CleanupTyped, JobTyped, history
<1>5. CASE processConversationDeleted
  <2>1. PICK w \in Workers, s1 \in Ends :
       /\ softDeleteFile(hand[w].file, hand[w].step, s1)
       /\ hand' = [hand EXCEPT ![w] = IF s1 \in {"ok", "gone"} THEN NextFile([hand[w] EXCEPT !.done = @ \cup {hand[w].file}])
                                      ELSE [hand[w] EXCEPT !.step = s1]]
       /\ UNCHANGED <<plan, browser, born, old, chat, queue, job, history>> /\ hand[w].step \in Deleting
    BY <1>5 DEF processConversationDeleted
  <2> DEFINE h == [hand[w] EXCEPT !.done = @ \cup {hand[w].file}]
             k == [hand[w] EXCEPT !.step = s1]
  <2>2. h \in Hand /\ k \in Hand
    <3>1. hand[w] \in Hand
      BY <1>0 DEF CleanupTyped
    <3> QED BY <3>1 DEF Hand
  <2> HIDE DEF h, k
  <2>3. hand' \in [Workers -> Hand]
    BY <1>0, <2>1, <2>2, NextFileTyped DEF CleanupTyped, h, k
  <2>4. StoreTyped'
    BY <1>0, <2>1, SoftDeletes DEF StoreTyped
  <2> QED BY <1>0, <1>1, <1>3, <2>1, <2>3, <2>4 DEF Typed, CleanupTyped, JobTyped, history
<1>6. CASE Acks
  <2>1. hand' \in [Workers -> Hand]
    BY <1>0, <1>6 DEF Acks, Free, CleanupTyped, Hand
  <2> QED BY <1>0, <1>1, <1>2, <1>3, <1>6, <2>1 DEF Acks, Typed, CleanupTyped, JobTyped, history
<1>7. CASE CleanupFails \/ AckWaitEnds
  <2>1. PICK w \in Workers, act \in Acts :
    /\ Spend(act) /\ Again(hand[w]) /\ (hand' = [hand EXCEPT ![w] = Free] \/ UNCHANGED hand)
    /\ UNCHANGED <<browser, store, chat, job>>
    BY <1>7 DEF CleanupFails, AckWaitEnds, Acts
  <2>2. hand[w] \in Hand
    BY <1>0 DEF CleanupTyped
  <2>3. hand' \in [Workers -> Hand]
    BY <1>0, <2>1 DEF Free, CleanupTyped, Hand
  <2>4. plan' \in Plan
    BY <1>0, <2>1, SpendKeeps
  <2>5. queue' \in SUBSET [names : SUBSET Files, nth : Nat] /\ UNCHANGED <<pressed, late>>
    BY <1>0, <2>1, <2>2, AgainTyped
  <2> QED BY <1>0, <1>1, <1>2, <1>3, <2>1, <2>3, <2>4, <2>5 DEF Typed, CleanupTyped, JobTyped
<1>8. CASE scan_orphan_files \/ list_files_for_owner \/ _is_file_referenced \/ JobPublishes \/ JobFails
  <2>1. JobTyped'
    BY <1>0, <1>8, JobGoesOn DEF CleanupTyped
  <2>2. UNCHANGED <<browser, store, chat, hand, history>> /\ (plan' = plan \/ Spend("die"))
    BY <1>8 DEF scan_orphan_files, list_files_for_owner, _is_file_referenced, JobPublishes, JobFails, cleanup
  <2>3. queue' \in SUBSET [names : SUBSET Files, nth : Nat]
    <3>1. queue' = queue \/ queue' = queue \cup Event(job.orphans)
      BY <1>8 DEF scan_orphan_files, list_files_for_owner, _is_file_referenced, JobPublishes, JobFails, cleanup
    <3> QED BY <1>0, <3>1 DEF Event, CleanupTyped, JobTyped
  <2>4. plan' \in Plan
    BY <1>0, <2>2, SpendKeeps DEF Acts
  <2> QED BY <1>0, <1>1, <1>2, <1>3, <2>1, <2>2, <2>3, <2>4 DEF Typed, CleanupTyped, JobTyped, history
<1>9. CASE Age
  <2>1. plan' \in Plan
    BY <1>0, <1>9, SpendKeeps DEF Acts, Age
  <2>2. StoreTyped'
    BY <1>0, <1>9 DEF Age, StoreTyped
  <2> QED BY <1>0, <1>1, <1>3, <1>9, <2>1, <2>2 DEF Age, Typed, CleanupTyped, JobTyped, cleanup, history
<1> QED BY <1>4, <1>5, <1>6, <1>7, <1>8, <1>9

-----------------------------------------------------------------------------
(* Where a file is on its way to a message, and what may delete it.         *)

Picked(f) == \E some \in plan.picks : f \in ToSet(some)
Shown(f) == \E x \in Rows : x.file = f
Ready(f) == \E x \in Rows : x.file = f /\ x.st = "ready"
Settled(f) == \E x \in Rows : x.file = f /\ x.st # "uploading"
Uploading(f) == upload[f] # "none"
Sent(f) == \E x \in posts : x.step = "sent" /\ f \in x.files
Ahead(f) == Picked(f) \/ Shown(f) \/ Uploading(f) \/ Sent(f)
Whole(f) == row[f] = "uploaded" /\ blob[f]

(* Files that are to be deleted: by a removal the user pressed, or named by  *)
(* something that is or becomes an event.                                   *)
Doomed(f) ==
    \/ \E m \in queue : f \in m.names
    \/ \E names \in outbox : f \in names
    \/ \E w \in Workers : f \in hand[w].names
    \/ f \in job.orphans
    \/ \E c \in Convs : drop[c].step = "committed" /\ f \in drop[c].files

(* Nothing brings a file that is dead back into a message.                  *)
Dead(f) == ~Ahead(f) /\ ~Referenced(f)
Spent(f) == f \in old /\ (Referenced(f) => f \in late)

FileOK(f) ==
    /\ Picked(f) => ~Shown(f) /\ ~Uploading(f) /\ ~Sent(f) /\ row[f] = "none" /\ f \notin old \cup pressed
    /\ Sent(f) => ~Shown(f) /\ ~Uploading(f)
    /\ Referenced(f) => ~Ahead(f)
    /\ Uploading(f) => f \notin old /\ ~Settled(f)
    /\ upload[f] = "confirm" => blob[f] \/ f \in pressed
    /\ Ready(f) \/ Sent(f) => f \in pressed \cup old \/ Whole(f)
    /\ Referenced(f) => f \in pressed \cup late \/ Whole(f)
    /\ Doomed(f) => Dead(f) \/ Spent(f)
    /\ \A c \in Convs : drop[c].step = "listed" /\ f \in drop[c].files =>
          ~Ahead(f) /\ \A o \in Convs \ {c} : f \notin refs[o]

FilesOK == \A f \in Files : FileOK(f)
OncePicked == \A some, more \in plan.picks : ToSet(some) \cap ToSet(more) # {} => some = more
OncePosted == \A x, y \in posts : x.step = "sent" /\ y.step = "sent" /\ x.files \cap y.files # {} => x = y
HandsOK == \A w \in Workers : hand[w].step \in Deleting => hand[w].file \in hand[w].names
RemovalsOK == \A r \in Removals : removal[r].step \in Deleting => removal[r].file \in pressed
JobOK == job.cut \subseteq old /\ job.found \subseteq old

Safe == Typed /\ FilesOK /\ OncePicked /\ OncePosted /\ HandsOK /\ RemovalsOK /\ JobOK

-----------------------------------------------------------------------------
(* Steps that bring no file further.                                        *)

NothingNew ==
    /\ plan'.picks = plan.picks /\ Rows' \subseteq Rows /\ upload' = upload
    /\ \A x \in posts' : x.step = "sent" => \E y \in posts : y.step = "sent" /\ y.files = x.files

LEMMA NobodyFurther ==
    ASSUME NothingNew, NEW f
    PROVE  /\ Picked(f)' = Picked(f) /\ (Shown(f)' => Shown(f)) /\ (Ready(f)' => Ready(f)) /\ (Settled(f)' => Settled(f))
           /\ Uploading(f)' = Uploading(f) /\ (Sent(f)' => Sent(f)) /\ (Ahead(f)' => Ahead(f))
BY DEF NothingNew, Picked, Shown, Ready, Settled, Uploading, Sent, Ahead

NoOtherDoom ==
    /\ \A f \in Files : Doomed(f)' => Doomed(f)
    /\ \A f \in Files, c \in Convs : drop'[c].step = "listed" /\ f \in drop'[c].files =>
          drop[c].step = "listed" /\ f \in drop[c].files

LEMMA FilesStay ==
    ASSUME FilesOK, NothingNew, NoOtherDoom, refs' = refs, UNCHANGED <<row, blob, old, pressed, late>>
    PROVE  FilesOK'
<1> SUFFICES ASSUME NEW f \in Files PROVE FileOK(f)'
  BY DEF FilesOK
<1>1. FileOK(f)
  BY DEF FilesOK
<1>2. /\ Picked(f)' = Picked(f) /\ (Shown(f)' => Shown(f)) /\ (Ready(f)' => Ready(f)) /\ (Settled(f)' => Settled(f))
      /\ Uploading(f)' = Uploading(f) /\ (Sent(f)' => Sent(f)) /\ (Ahead(f)' => Ahead(f)) /\ upload'[f] = upload[f]
  BY NobodyFurther DEF NothingNew
<1>3. Referenced(f)' = Referenced(f) /\ Whole(f)' = Whole(f) /\ (Doomed(f)' => Doomed(f))
  BY DEF Referenced, Whole, NoOtherDoom
<1>4. (Dead(f) => Dead(f)') /\ (Spent(f) => Spent(f)')
  BY <1>2, <1>3 DEF Dead, Spent
<1>5. \A c \in Convs : drop'[c].step = "listed" /\ f \in drop'[c].files =>
          ~Ahead(f)' /\ \A o \in Convs \ {c} : f \notin refs'[o]
  BY <1>1, <1>2 DEF FileOK, NoOtherDoom
<1> QED BY <1>1, <1>2, <1>3, <1>4, <1>5 DEF FileOK

LEMMA RowsStay == ASSUME page'.rows = page.rows PROVE Rows' = Rows
BY DEF Rows

LEMMA DoomStays ==
    ASSUME UNCHANGED <<queue, outbox, hand, job, drop>> PROVE NoOtherDoom
BY DEF NoOtherDoom, Doomed

(* The invariant after such a step.                                          *)
LEMMA SafeStays ==
    ASSUME Safe, Typed', NothingNew, NoOtherDoom, UNCHANGED <<refs, row, blob, old, pressed, late>>,
           OncePosted', HandsOK', RemovalsOK', JobOK'
    PROVE  Safe'
<1>1. FilesOK'
  BY FilesStay DEF Safe
<1>2. OncePicked'
  BY DEF Safe, OncePicked, NothingNew
<1> QED BY <1>1, <1>2 DEF Safe

LEMMA PostsStay ==
    ASSUME OncePosted, posts' \subseteq posts
    PROVE  OncePosted'
BY DEF OncePosted

LEMMA PostsLeft ==
    ASSUME posts \in SUBSET Post, OncePosted, posts' = Unawaited
    PROVE  /\ OncePosted'
           /\ \A x \in posts' : x.step = "sent" => \E y \in posts : y.step = "sent" /\ y.files = x.files
<1>1. \A y \in posts' : \E x \in posts : y = [x EXCEPT !.awaited = FALSE] /\ y.files = x.files /\ y.step = x.step
  BY UnawaitedPosts
<1>2. ASSUME NEW x \in posts', NEW y \in posts', x.step = "sent", y.step = "sent", x.files \cap y.files # {}
      PROVE  x = y
  <2>1. PICK u \in posts : x = [u EXCEPT !.awaited = FALSE] /\ x.files = u.files /\ x.step = u.step
    BY <1>1
  <2>2. PICK v \in posts : y = [v EXCEPT !.awaited = FALSE] /\ y.files = v.files /\ y.step = v.step
    BY <1>1
  <2>3. u = v
    BY <1>2, <2>1, <2>2 DEF OncePosted
  <2> QED BY <2>1, <2>2, <2>3
<1> QED BY <1>1, <1>2 DEF OncePosted

(* A file nothing happens to, whatever happens to the others.                *)
LEMMA FileStays ==
    ASSUME NEW f \in Files, FileOK(f),
           Picked(f)' => Picked(f), Shown(f)' => Shown(f), Ready(f)' => Ready(f), Settled(f)' => Settled(f),
           Sent(f)' => Sent(f), upload'[f] = upload[f], \A c \in Convs : f \in refs'[c] => f \in refs[c],
           Whole(f) => Whole(f)', row'[f] = row[f], blob'[f] = blob[f],
           f \in old' <=> f \in old, f \in pressed' => f \in pressed \/ ~Picked(f),
           f \in pressed => f \in pressed', f \in late => f \in late',
           Doomed(f)' => Doomed(f) \/ Dead(f)' \/ Spent(f)',
           \A c \in Convs : drop'[c].step = "listed" /\ f \in drop'[c].files =>
              \/ drop[c].step = "listed" /\ f \in drop[c].files
              \/ ~Ahead(f)' /\ \A o \in Convs \ {c} : f \notin refs'[o]
    PROVE  FileOK(f)'
<1>1. Uploading(f)' = Uploading(f) /\ (Ahead(f)' => Ahead(f))
  BY DEF Uploading, Ahead
<1>2. Referenced(f)' => Referenced(f)
  BY DEF Referenced
<1>3. (Dead(f) => Dead(f)') /\ (Spent(f) => Spent(f)')
  BY <1>1, <1>2 DEF Dead, Spent
<1>4. Doomed(f)' => Dead(f)' \/ Spent(f)'
  BY <1>3 DEF FileOK
<1>5. \A c \in Convs : drop'[c].step = "listed" /\ f \in drop'[c].files =>
          ~Ahead(f)' /\ \A o \in Convs \ {c} : f \notin refs'[o]
  BY <1>1 DEF FileOK
<1>6. Referenced(f)' => ~Ahead(f)'
  BY <1>1, <1>2 DEF FileOK
<1>7. Ready(f)' \/ Sent(f)' => f \in pressed' \cup old' \/ Whole(f)'
  BY DEF FileOK
<1>8. Referenced(f)' => f \in pressed' \cup late' \/ Whole(f)'
  BY <1>2 DEF FileOK
<1> QED BY <1>1, <1>4, <1>5, <1>6, <1>7, <1>8 DEF FileOK

-----------------------------------------------------------------------------
(* The composer's steps.                                                    *)

LEMMA PickSafe == ASSUME Safe, Typed', onFileInputChange PROVE Safe'
<1>0. Typed /\ BrowserTyped /\ FilesOK /\ OncePicked /\ OncePosted /\ HandsOK /\ RemovalsOK /\ JobOK
  BY DEF Safe, Typed
<1>1. PICK some \in plan.picks :
          /\ plan' = [plan EXCEPT !.picks = @ \ {some}]
          /\ page' = [page EXCEPT !.rows = @ \o [i \in DOMAIN some |-> [file |-> some[i], st |-> "uploading"]],
                                  !.uploadBusy = TRUE, !.batches = @ \cup {ToSet(some)}]
          /\ upload' = [f \in Files |-> IF f \in ToSet(some) THEN "prepare" ELSE upload[f]]
          /\ UNCHANGED <<posts, removal, store, chat, cleanup, job, history>>
  BY DEF onFileInputChange
<1>2. plan'.picks = plan.picks \ {some} /\ some \in Seq(Files)
  BY <1>0, <1>1 DEF BrowserTyped, Plan
<1>3. page'.rows = page.rows \o Fresh(some)
  BY <1>0, <1>1 DEF BrowserTyped, Page, Fresh
<1>4. \A x \in Rows' : x \in Rows \/ \E f \in ToSet(some) : x = [file |-> f, st |-> "uploading"]
  <2>1. PICK rows : rows = page.rows
    OBVIOUS
  <2>2. PICK more : more = page'.rows
    OBVIOUS
  <2>3. rows \in Seq(Row) /\ more = rows \o Fresh(some)
    BY <1>0, <1>3, <2>1, <2>2, RowsOf
  <2>4. Adds(more, rows, some)
    BY <1>2, <2>3, AddedRows
  <2>5. \A x \in Rows' : \E k \in DOMAIN more : x = more[k]
    BY <2>2 DEF Rows
  <2>6. \A j \in DOMAIN rows : rows[j] \in Rows
    BY <2>1 DEF Rows
  <2> QED BY <2>4, <2>5, <2>6 DEF Adds
<1>5. UNCHANGED <<posts, refs, row, blob, old, pressed, late, queue, outbox, hand, job, drop, removal>>
  BY <1>1 DEF store, chat, cleanup, history
<1>6. ASSUME NEW f \in Files
      PROVE  FileOK(f)'
  <2>1. /\ FileOK(f) /\ Doomed(f)' = Doomed(f) /\ Sent(f)' = Sent(f) /\ Referenced(f)' = Referenced(f)
        /\ Whole(f)' = Whole(f) /\ row' = row /\ blob' = blob
    BY <1>0, <1>5 DEF FilesOK, Doomed, Sent, Referenced, Whole
  <2>2. Picked(f)' => Picked(f)
    BY <1>2 DEF Picked
  <2>3. CASE f \in ToSet(some)
    <3>1. Picked(f) /\ ~Picked(f)'
      <4>1. ASSUME NEW more \in plan'.picks, f \in ToSet(more)
            PROVE  FALSE
        <5>1. more = some
          BY <1>0, <1>2, <2>3, <4>1 DEF OncePicked
        <5> QED BY <1>2, <5>1
      <4> QED BY <2>3, <4>1 DEF Picked
    <3>2. /\ ~Shown(f) /\ ~Uploading(f) /\ ~Sent(f) /\ f \notin old \cup pressed /\ ~Referenced(f) /\ ~Doomed(f)
          /\ \A c \in Convs : ~(drop[c].step = "listed" /\ f \in drop[c].files)
      BY <2>1, <3>1 DEF FileOK, Dead, Spent, Ahead
    <3>3. ~Ready(f)' /\ ~Settled(f)'
      BY <1>4, <3>2 DEF Ready, Settled, Shown
    <3>4. upload'[f] = "prepare"
      BY <1>1, <2>3
    <3> QED BY <1>5, <2>1, <3>1, <3>2, <3>3, <3>4 DEF FileOK
  <2>4. CASE f \notin ToSet(some)
    <3>1. (Shown(f)' => Shown(f)) /\ (Ready(f)' => Ready(f)) /\ (Settled(f)' => Settled(f))
      BY <1>4, <2>4 DEF Shown, Ready, Settled
    <3>2. upload'[f] = upload[f]
      BY <1>1, <2>4
    <3> QED BY <1>5, <2>1, <2>2, <3>1, <3>2, FileStays
  <2> QED BY <2>3, <2>4
<1>7. OncePicked' /\ OncePosted' /\ HandsOK' /\ RemovalsOK' /\ JobOK'
  BY <1>0, <1>2, <1>5 DEF OncePicked, OncePosted, HandsOK, RemovalsOK, JobOK
<1> QED BY <1>6, <1>7 DEF Safe, FilesOK

(* A step of one upload: what it leaves of the other files.                  *)
LEMMA UploadOthers ==
    ASSUME Safe, Typed', NEW f \in Files, NEW st \in {"ready", "failed"},
           \/ UploadEnds(f, st)
           \/ UNCHANGED page /\ \E to : upload' = [upload EXCEPT ![f] = to],
           plan'.picks = plan.picks, Serves(f) \/ UNCHANGED <<row, blob, born>>,
           UNCHANGED <<posts, removal, old, chat, cleanup, job, history>>, FileOK(f)'
    PROVE  Safe'
<1>0. Typed /\ BrowserTyped /\ StoreTyped /\ FilesOK /\ OncePicked /\ OncePosted /\ HandsOK /\ RemovalsOK /\ JobOK
  BY DEF Safe, Typed
<1>1. UNCHANGED <<refs, pressed, late, queue, outbox, hand, drop>>
  BY DEF chat, cleanup, history
<1>2. ASSUME NEW g \in Files, g # f
      PROVE  FileOK(g)'
  <2>1. FileOK(g) /\ Doomed(g)' = Doomed(g) /\ Sent(g)' = Sent(g) /\ Picked(g)' = Picked(g)
    BY <1>0, <1>1 DEF FilesOK, Doomed, Sent, Picked
  <2>2. row'[g] = row[g] /\ blob'[g] = blob[g]
    BY <1>0, <1>2, ServesTyped
  <2>3. upload'[g] = upload[g]
    BY <1>0, <1>2, UploadEndsPage DEF BrowserTyped
  <2>4. \A x \in Rows' : x.file = g => \E y \in Rows : y.file = g /\ y.st = x.st
    <3>1. CASE UNCHANGED page
      BY <3>1, RowsStay
    <3>2. CASE UploadEnds(f, st)
      <4>1. page'.rows = Marked(page.rows, f, st)
        BY <1>0, <3>2, UploadEndsPage
      <4>2. st \in {"uploading", "ready", "failed"} /\ page.rows \in Seq(Row)
        BY <1>0, RowsOf
      <4>3. Marks(page'.rows, page.rows, f, st)
        BY <4>1, <4>2, MarkedRows
      <4> QED BY <1>2, <4>3 DEF Rows, Marks
    <3> QED BY <3>1, <3>2
  <2>5. (Shown(g)' => Shown(g)) /\ (Ready(g)' => Ready(g)) /\ (Settled(g)' => Settled(g))
    BY <2>4 DEF Shown, Ready, Settled
  <2> QED BY <1>1, <2>1, <2>2, <2>3, <2>5, FileStays DEF Whole
<1>3. OncePicked' /\ OncePosted' /\ HandsOK' /\ RemovalsOK' /\ JobOK'
  BY <1>0, <1>1 DEF OncePicked, OncePosted, HandsOK, RemovalsOK, JobOK
<1> QED BY <1>2, <1>3 DEF Safe, FilesOK

(* What it leaves of its own.                                                *)
LEMMA UploadOwn ==
    ASSUME Safe, NEW f \in Files, Uploading(f), plan'.picks = plan.picks,
           UNCHANGED <<posts, old, chat, cleanup, job, history>>,
           Shown(f)' => Shown(f), Ready(f)' => f \in pressed \/ Whole(f)',
           Uploading(f)' => ~Settled(f)', upload'[f] = "confirm" => blob'[f]
    PROVE  FileOK(f)'
<1>1. FileOK(f)
  BY DEF Safe, FilesOK
<1>2. UNCHANGED <<refs, pressed, late, queue, outbox, hand, drop>>
  BY DEF chat, cleanup, history
<1>3. /\ ~Picked(f) /\ ~Sent(f) /\ ~Referenced(f) /\ f \notin old /\ ~Doomed(f)
      /\ \A c \in Convs : ~(drop[c].step = "listed" /\ f \in drop[c].files)
  BY <1>1 DEF FileOK, Ahead, Dead, Spent
<1>4. Picked(f)' = Picked(f) /\ Sent(f)' = Sent(f) /\ Referenced(f)' = Referenced(f) /\ Doomed(f)' = Doomed(f)
  BY <1>2 DEF Picked, Sent, Referenced, Doomed
<1> QED BY <1>2, <1>3, <1>4 DEF FileOK

LEMMA UploadSafe == ASSUME Safe, Typed', uploadOneLocalFile PROVE Safe'
<1>0. Typed /\ BrowserTyped /\ StoreTyped /\ FilesOK
  BY DEF Safe, Typed
<1>1. PICK f \in Files :
    /\ Serves(f)
    /\ CASE upload[f] = "prepare" -> upload' = [upload EXCEPT ![f] = "put"] /\ UNCHANGED page
         [] upload[f] = "put" -> upload' = [upload EXCEPT ![f] = "confirm"] /\ UNCHANGED page
         [] upload[f] = "confirm" -> UploadEnds(f, "ready")
    /\ UNCHANGED <<plan, posts, removal, old, chat, cleanup, job, history>>
  BY DEF uploadOneLocalFile
<1>2. Uploading(f) /\ FileOK(f) /\ ~Settled(f)
  BY <1>0, <1>1 DEF Serves, Uploading, FilesOK, FileOK
<1>3. CASE upload[f] \in {"prepare", "put"}
  <2>1. UNCHANGED page /\ \E to : upload' = [upload EXCEPT ![f] = to]
    BY <1>1, <1>3
  <2>2. Rows' = Rows
    BY <2>1, RowsStay
  <2>3. upload'[f] = "confirm" => blob'[f]
    BY <1>0, <1>1, <1>3 DEF Serves, Stored, BrowserTyped, StoreTyped
  <2>4. Shown(f)' = Shown(f) /\ ~Ready(f)' /\ ~Settled(f)'
    BY <1>2, <2>2 DEF Shown, Ready, Settled
  <2>5. FileOK(f)'
    BY <1>1, <1>2, <2>3, <2>4, UploadOwn
  <2> QED BY <1>1, <2>1, <2>5, UploadOthers
<1>4. CASE upload[f] = "confirm"
  <2>1. UploadEnds(f, "ready") /\ row' = [row EXCEPT ![f] = "uploaded"] /\ UNCHANGED blob
    BY <1>1, <1>4 DEF Serves, Confirmed
  <2>2. f \in pressed \/ Whole(f)'
    BY <1>0, <1>2, <1>4, <2>1 DEF FileOK, Whole, StoreTyped
  <2>3. upload'[f] = "none"
    BY <1>0, <2>1, UploadEndsPage DEF BrowserTyped
  <2>4. Shown(f)' => Shown(f)
    <3>1. Marks(page'.rows, page.rows, f, "ready")
      BY <1>0, <2>1, UploadEndsPage, RowsOf, MarkedRows
    <3> QED BY <3>1 DEF Shown, Rows, Marks
  <2>5. FileOK(f)'
    BY <1>1, <1>2, <2>2, <2>3, <2>4, UploadOwn DEF Uploading
  <2> QED BY <1>1, <2>1, <2>5, UploadOthers
<1> QED BY <1>1, <1>3, <1>4 DEF Serves

LEMMA UploadFailsSafe == ASSUME Safe, Typed', UploadFails PROVE Safe'
<1>0. Typed /\ BrowserTyped /\ FilesOK
  BY DEF Safe, Typed
<1>1. PICK f \in Files :
    /\ upload[f] \in Unfinished /\ Spend("lose") /\ UploadEnds(f, "failed")
    /\ Serves(f) \/ UNCHANGED <<row, blob, born>>
    /\ UNCHANGED <<posts, removal, old, chat, cleanup, job, history>>
  BY DEF UploadFails
<1>2. Uploading(f) /\ plan'.picks = plan.picks
  BY <1>0, <1>1, SpendKeeps DEF Unfinished, Uploading, Acts, BrowserTyped
<1>3. upload'[f] = "none"
  BY <1>0, <1>1, UploadEndsPage DEF BrowserTyped
<1>4. Marks(page'.rows, page.rows, f, "failed")
  BY <1>0, <1>1, UploadEndsPage, RowsOf, MarkedRows
<1>5. (Shown(f)' => Shown(f)) /\ ~Ready(f)'
  BY <1>4 DEF Shown, Ready, Rows, Marks
<1>6. FileOK(f)'
  BY <1>1, <1>2, <1>3, <1>5, UploadOwn DEF Uploading
<1> QED BY <1>1, <1>2, <1>6, UploadOthers

(* Rows that leave the composer.                                             *)
LEMMA FewerRows ==
    ASSUME BrowserTyped, NEW i \in Nat, page'.rows = Dropped(page.rows, i)
    PROVE  Rows' \subseteq Rows
<1>1. PICK rows : rows = page.rows
  OBVIOUS
<1>2. PICK more : more = page'.rows
  OBVIOUS
<1>3. rows \in Seq(Row) /\ more = Dropped(rows, i)
  BY <1>1, <1>2, RowsOf
<1>4. \A k \in DOMAIN more : \E j \in DOMAIN rows : more[k] = rows[j]
  BY <1>3, DroppedRows
<1>5. \A x \in Rows' : \E k \in DOMAIN more : x = more[k]
  BY <1>2 DEF Rows
<1>6. \A j \in DOMAIN rows : rows[j] \in Rows
  BY <1>1 DEF Rows
<1> QED BY <1>4, <1>5, <1>6

LEMMA NoRows == ASSUME page'.rows = <<>> PROVE Rows' = {}
BY DEF Rows

LEMMA RemoveSafe == ASSUME Safe, Typed', removeAttachment PROVE Safe'
<1>0. Typed /\ BrowserTyped /\ FilesOK /\ OncePicked /\ OncePosted /\ HandsOK /\ RemovalsOK /\ JobOK
  BY DEF Safe, Typed
<1>1. PICK i \in DOMAIN page.rows :
       /\ page.rows[i].st # "uploading" /\ Spend("remove")
       /\ \/ page' = [page EXCEPT !.rows = Dropped(@, i)] /\ UNCHANGED <<removal, pressed>>
          \/ /\ \E r \in Removals : removal' = [removal EXCEPT ![r] = [file |-> page.rows[i].file, at |-> i, step |-> "select"]]
             /\ pressed' = pressed \cup {page.rows[i].file}
             /\ UNCHANGED page
       /\ UNCHANGED <<upload, posts, store, chat, cleanup, job, late, gaveUp>>
  BY DEF removeAttachment
<1>2. plan'.picks = plan.picks /\ page.rows[i] \in Rows /\ page.rows[i].file \in Files /\ i \in Nat
  BY <1>0, <1>1, SpendKeeps, RowsOf DEF BrowserTyped, Acts, Row, Rows
<1>3. UNCHANGED <<upload, posts, refs, row, blob, old, late, queue, outbox, hand, job, drop>>
  BY <1>1 DEF store, chat, cleanup
<1>4. CASE page' = [page EXCEPT !.rows = Dropped(@, i)] /\ UNCHANGED <<removal, pressed>>
  <2>1. page'.rows = Dropped(page.rows, i)
    BY <1>0, <1>4 DEF BrowserTyped, Page
  <2>2. Rows' \subseteq Rows
    BY <1>0, <1>2, <2>1, FewerRows
  <2>3. NothingNew /\ NoOtherDoom
    BY <1>2, <1>3, <2>2, DoomStays DEF NothingNew
  <2>4. OncePosted' /\ HandsOK' /\ RemovalsOK' /\ JobOK'
    BY <1>0, <1>3, <1>4 DEF OncePosted, HandsOK, RemovalsOK, JobOK
  <2> QED BY <1>3, <1>4, <2>3, <2>4, SafeStays
<1>5. CASE UNCHANGED page /\ pressed' = pressed \cup {page.rows[i].file}
           /\ \E r \in Removals : removal' = [removal EXCEPT ![r] = [file |-> page.rows[i].file, at |-> i, step |-> "select"]]
  <2>1. Rows' = Rows /\ Shown(page.rows[i].file)
    BY <1>2, <1>5, RowsStay DEF Shown
  <2>2. ~Picked(page.rows[i].file)
    BY <1>0, <1>2, <2>1 DEF FilesOK, FileOK
  <2>3. ASSUME NEW f \in Files
        PROVE  FileOK(f)'
    <3>1. /\ FileOK(f) /\ Doomed(f)' = Doomed(f) /\ Sent(f)' = Sent(f) /\ Whole(f)' = Whole(f) /\ Picked(f)' = Picked(f)
          /\ Shown(f)' = Shown(f) /\ Ready(f)' = Ready(f) /\ Settled(f)' = Settled(f)
      BY <1>0, <1>2, <1>3, <2>1 DEF FilesOK, Doomed, Sent, Whole, Picked, Shown, Ready, Settled
    <3>2. f \in pressed' => f \in pressed \/ ~Picked(f)
      BY <1>5, <2>2
    <3> QED BY <1>3, <1>5, <3>1, <3>2, FileStays
  <2>4. RemovalsOK'
    BY <1>0, <1>5 DEF RemovalsOK, BrowserTyped
  <2>5. OncePicked' /\ OncePosted' /\ HandsOK' /\ JobOK'
    BY <1>0, <1>2, <1>3 DEF OncePicked, OncePosted, HandsOK, JobOK
  <2> QED BY <2>3, <2>4, <2>5 DEF Safe, FilesOK
<1> QED BY <1>1, <1>4, <1>5

(* softDeleteFile takes a file that nothing needs as it was.                 *)
Expendable(f) == f \in pressed \/ Dead(f) \/ Spent(f)

LEMMA DeleteSafe ==
    ASSUME Safe, Typed', NEW f \in Files, NEW s, NEW s1, softDeleteFile(f, s, s1), Expendable(f),
           UNCHANGED <<plan, browser, born, old, chat, queue, job, history>> \/
           UNCHANGED <<plan, page, upload, posts, born, old, chat, cleanup, job, history>>,
           \A w \in Workers : hand'[w].names = hand[w].names,
           HandsOK', RemovalsOK'
    PROVE  Safe'
<1>0. Typed /\ StoreTyped /\ FilesOK /\ OncePicked /\ OncePosted /\ JobOK
  BY DEF Safe, Typed
<1>1. UNCHANGED <<plan, page, upload, posts, refs, old, pressed, late, queue, outbox, job, drop>>
  BY DEF browser, chat, cleanup, history
<1>2. ASSUME NEW g \in Files
      PROVE  FileOK(g)'
  <2>1. /\ FileOK(g) /\ Doomed(g)' = Doomed(g) /\ Sent(g)' = Sent(g) /\ Picked(g)' = Picked(g) /\ Uploading(g)' = Uploading(g)
        /\ Shown(g)' = Shown(g) /\ Ready(g)' = Ready(g) /\ Settled(g)' = Settled(g) /\ Referenced(g)' = Referenced(g)
    <3>1. Rows' = Rows
      BY <1>1, RowsStay
    <3> QED BY <1>0, <1>1, <3>1 DEF FilesOK, Doomed, Sent, Picked, Uploading, Shown, Ready, Settled, Referenced
  <2>2. CASE g = f
    <3>1. ~Picked(g)
      BY <2>1, <2>2 DEF Expendable, Dead, Spent, Ahead, FileOK
    <3>2. Uploading(g) => g \in pressed
      BY <2>1, <2>2 DEF Expendable, Dead, Spent, Ahead, FileOK
    <3>3. Ready(g) \/ Sent(g) => g \in pressed \cup old
      BY <2>1, <2>2 DEF Expendable, Dead, Spent, Ahead, FileOK, Ready, Shown
    <3>4. Referenced(g) => g \in pressed \cup late
      BY <2>1, <2>2 DEF Expendable, Dead, Spent, Ahead, FileOK
    <3>5. upload[g] = "confirm" => Uploading(g)
      BY DEF Uploading
    <3> QED BY <1>1, <2>1, <3>1, <3>2, <3>3, <3>4, <3>5 DEF FileOK, Ahead, Dead, Spent
  <2>3. CASE g # f
    <3>1. row'[g] = row[g] /\ blob'[g] = blob[g]
      BY <1>0, <2>3, SoftDeletes
    <3> QED BY <1>1, <2>1, <3>1, FileStays DEF Whole
  <2> QED BY <2>2, <2>3
<1>3. OncePicked' /\ OncePosted' /\ JobOK'
  BY <1>0, <1>1 DEF OncePicked, OncePosted, JobOK
<1> QED BY <1>2, <1>3 DEF Safe, FilesOK

LEMMA RemovalRunsSafe == ASSUME Safe, Typed', RemovalRuns PROVE Safe'
<1>0. Typed /\ BrowserTyped /\ StoreTyped /\ HandsOK /\ RemovalsOK
  BY DEF Safe, Typed
<1>1. PICK r \in Removals, s1 \in Ends :
    /\ softDeleteFile(removal[r].file, removal[r].step, s1)
    /\ removal' = [removal EXCEPT ![r].step = s1]
    /\ UNCHANGED <<plan, page, upload, posts, born, old, chat, cleanup, job, history>>
  BY DEF RemovalRuns
<1>2. removal[r].step \in Deleting /\ removal[r].file \in pressed /\ removal[r].file \in Files
  BY <1>0, <1>1, SoftDeletes DEF RemovalsOK, BrowserTyped
<1>3. UNCHANGED <<hand, pressed>>
  BY <1>1 DEF cleanup, history
<1>4. HandsOK' /\ RemovalsOK'
  BY <1>0, <1>1, <1>2, <1>3 DEF HandsOK, RemovalsOK, BrowserTyped, Removal
<1> QED BY <1>1, <1>2, <1>3, <1>4, DeleteSafe DEF Expendable

LEMMA RemovalEndsSafe == ASSUME Safe, Typed', RemovalFails \/ RemovalLands PROVE Safe'
<1>0. Typed /\ BrowserTyped /\ OncePosted /\ HandsOK /\ RemovalsOK /\ JobOK
  BY DEF Safe, Typed
<1>1. /\ UNCHANGED <<upload, posts, refs, row, blob, old, pressed, late, queue, outbox, hand, job, drop>>
      /\ plan'.picks = plan.picks
  BY <1>0, SpendKeeps DEF RemovalFails, RemovalLands, store, chat, cleanup, history, BrowserTyped, Acts
<1>2. Rows' \subseteq Rows
  <2>1. CASE RemovalFails
    BY <2>1, RowsStay DEF RemovalFails
  <2>2. CASE RemovalLands
    <3>1. PICK r \in Removals :
            page' = IF removal[r].step = "ok" THEN [page EXCEPT !.rows = Dropped(@, removal[r].at)] ELSE page
      BY <2>2 DEF RemovalLands
    <3>2. removal[r].at \in Nat
      BY <1>0 DEF BrowserTyped, Removal
    <3>3. page'.rows = Dropped(page.rows, removal[r].at) \/ page'.rows = page.rows
      BY <1>0, <3>1 DEF BrowserTyped, Page
    <3> QED BY <1>0, <3>2, <3>3, RowsStay, FewerRows
  <2> QED BY <2>1, <2>2
<1>3. RemovalsOK'
  BY <1>0, <1>1 DEF RemovalFails, RemovalLands, RemovalsOK, Idle, Deleting, BrowserTyped, Removal
<1>4. OncePosted' /\ HandsOK' /\ JobOK'
  BY <1>0, <1>1 DEF OncePosted, HandsOK, JobOK
<1>5. NothingNew /\ NoOtherDoom
  BY <1>1, <1>2, DoomStays DEF NothingNew
<1> QED BY <1>1, <1>3, <1>4, <1>5, SafeStays

LEMMA SendSafe == ASSUME Safe, Typed', send PROVE Safe'
<1> DEFINE x == [conv |-> page.conv, files |-> Snapshot(page.rows), step |-> "sent", awaited |-> TRUE]
<1>0. Typed /\ BrowserTyped /\ FilesOK /\ OncePicked /\ OncePosted /\ HandsOK /\ RemovalsOK /\ JobOK
  BY DEF Safe, Typed
<1>1. /\ posts' = posts \cup {x} /\ x.step = "sent" /\ x.files = Snapshot(page.rows)
      /\ \A i \in DOMAIN page.rows : page.rows[i].st = "ready"
      /\ UNCHANGED <<upload, removal, refs, row, blob, old, pressed, late, queue, outbox, hand, job, drop>>
  BY DEF send, store, chat, cleanup, history
<1>2. plan'.picks = plan.picks
  BY <1>0, SpendKeeps DEF send, BrowserTyped, Acts
<1>3. Rows' = {}
  <2>1. page'.rows = <<>>
    BY <1>0, EmptiedPage DEF send, BrowserTyped
  <2> QED BY <2>1, NoRows
<1>4. \A f : f \in x.files <=> Shown(f)
  BY <1>1 DEF Snapshot, Shown, Rows
<1>5. \A f : Shown(f) => Ready(f) /\ Settled(f)
  BY <1>1 DEF Shown, Ready, Settled, Rows
<1> HIDE DEF x
<1>6. ASSUME NEW f \in Files
      PROVE  FileOK(f)'
  <2>1. /\ FileOK(f) /\ Doomed(f)' = Doomed(f) /\ Whole(f)' = Whole(f) /\ Picked(f)' = Picked(f)
        /\ Uploading(f)' = Uploading(f) /\ ~Shown(f)' /\ ~Ready(f)' /\ ~Settled(f)' /\ Referenced(f)' = Referenced(f)
    BY <1>0, <1>1, <1>2, <1>3 DEF FilesOK, Doomed, Whole, Picked, Uploading, Shown, Ready, Settled, Referenced
  <2>2. Sent(f)' => Sent(f) \/ Shown(f)
    BY <1>1, <1>4 DEF Sent
  <2>3. CASE Shown(f)
    <3>1. /\ ~Picked(f) /\ ~Uploading(f) /\ ~Referenced(f) /\ (f \in pressed \cup old \/ Whole(f))
          /\ (Doomed(f) => Spent(f)) /\ \A c \in Convs : ~(drop[c].step = "listed" /\ f \in drop[c].files)
      BY <1>5, <2>1, <2>3 DEF FileOK, Ahead, Dead
    <3>2. Spent(f) => Spent(f)'
      BY <1>1, <2>1 DEF Spent
    <3>3. upload'[f] # "confirm"
      BY <1>1, <3>1 DEF Uploading
    <3> QED BY <1>1, <2>1, <3>1, <3>2, <3>3 DEF FileOK
  <2>4. CASE ~Shown(f)
    <3>1. Sent(f)' => Sent(f)
      BY <2>2, <2>4
    <3> QED BY <1>1, <2>1, <3>1, FileStays
  <2> QED BY <2>3, <2>4
<1>7. OncePosted'
  <2>1. \A y \in posts : y.step = "sent" => y.files \cap x.files = {}
    <3>1. ASSUME NEW y \in posts, y.step = "sent", NEW f \in y.files, f \in x.files
          PROVE  FALSE
      <4>1. f \in Files /\ Sent(f) /\ Shown(f)
        BY <1>0, <1>4, <3>1 DEF BrowserTyped, Post, Sent
      <4> QED BY <1>0, <4>1 DEF FilesOK, FileOK
    <3> QED BY <3>1
  <2> QED BY <1>0, <1>1, <2>1 DEF OncePosted
<1>8. OncePicked' /\ HandsOK' /\ RemovalsOK' /\ JobOK'
  BY <1>0, <1>1, <1>2 DEF OncePicked, HandsOK, RemovalsOK, JobOK
<1> QED BY <1>6, <1>7, <1>8 DEF Safe, FilesOK

LEMMA SwitchSafe == ASSUME Safe, Typed', SwitchThread PROVE Safe'
<1>0. Typed /\ BrowserTyped /\ OncePosted /\ HandsOK /\ RemovalsOK /\ JobOK
  BY DEF Safe, Typed
<1>1. PICK c \in Convs \cup {None} :
        /\ Spend("switch") /\ UNCHANGED <<upload, removal, store, chat, cleanup, job, history>>
        /\ \/ page' = [page EXCEPT !.rows = <<>>] /\ UNCHANGED posts
           \/ page' = Leaves(page, c) /\ posts' = Unawaited
  BY DEF SwitchThread
<1>2. /\ UNCHANGED <<upload, removal, refs, row, blob, old, pressed, late, queue, outbox, hand, job, drop>>
      /\ plan'.picks = plan.picks
  BY <1>0, <1>1, SpendKeeps DEF store, chat, cleanup, history, BrowserTyped, Acts
<1>3. Rows' = {}
  <2>1. page'.rows = <<>>
    BY <1>0, <1>1, EmptiedPage DEF BrowserTyped
  <2> QED BY <2>1, NoRows
<1>4. OncePosted' /\ \A x \in posts' : x.step = "sent" => \E y \in posts : y.step = "sent" /\ y.files = x.files
  <2>1. CASE UNCHANGED posts
    BY <1>0, <2>1 DEF OncePosted
  <2>2. CASE posts' = Unawaited
    BY <1>0, <2>2, PostsLeft DEF BrowserTyped
  <2> QED BY <1>1, <2>1, <2>2
<1>5. NothingNew /\ NoOtherDoom
  BY <1>2, <1>3, <1>4, DoomStays DEF NothingNew
<1>6. HandsOK' /\ RemovalsOK' /\ JobOK'
  BY <1>0, <1>2 DEF HandsOK, RemovalsOK, JobOK
<1> QED BY <1>2, <1>4, <1>5, <1>6, SafeStays

-----------------------------------------------------------------------------
(* The steps of chatbot-service.                                            *)

LEMMA PostSafe == ASSUME Safe, Typed', post_message PROVE Safe'
<1>0. Typed /\ BrowserTyped /\ ChatTyped /\ FilesOK /\ OncePicked /\ OncePosted /\ HandsOK /\ RemovalsOK /\ JobOK
  BY DEF Safe, Typed
<1>1. PICK x \in posts : x.step = "sent" /\ (Refuses(x) \/ \E c \in Convs : Commits(x, c))
  BY PostRuns
<1>2. /\ UNCHANGED <<upload, removal, row, blob, old, pressed, queue, outbox, hand, job, drop>>
      /\ plan'.picks = plan.picks /\ Rows' = Rows
  BY <1>1, RowsStay DEF Refuses, Commits, PostRest, store, cleanup
<1>3. PICK y : posts' = (posts \ {x}) \cup {y} /\ y.step # "sent"
  <2>1. x \in Post
    BY <1>0 DEF BrowserTyped
  <2>2. /\ [x EXCEPT !.step = "refused"].step # "sent"
        /\ \A c \in Convs : [x EXCEPT !.step = "committed", !.conv = c].step # "sent"
    BY <2>1 DEF Post
  <2> QED BY <1>1, <2>2 DEF Refuses, Commits
<1>4. OncePosted' /\ \A z \in posts' : z.step = "sent" => z \in posts \ {x}
  BY <1>0, <1>3 DEF OncePosted
<1>5. OncePicked' /\ HandsOK' /\ RemovalsOK' /\ JobOK'
  BY <1>0, <1>2 DEF OncePicked, HandsOK, RemovalsOK, JobOK
<1>6. CASE Refuses(x)
  <2>1. NothingNew /\ NoOtherDoom
    BY <1>2, <1>4, DoomStays DEF NothingNew
  <2> QED BY <1>2, <1>4, <1>5, <1>6, <2>1, SafeStays DEF Refuses
<1>7. ASSUME NEW c \in Convs, Commits(x, c)
      PROVE  Safe'
  <2>1. refs' = [refs EXCEPT ![c] = @ \cup x.files] /\ late' = late \cup (x.files \cap old)
    BY <1>7 DEF Commits
  <2>2. ASSUME NEW f \in Files
        PROVE  FileOK(f)'
    <3>1. /\ FileOK(f) /\ Doomed(f)' = Doomed(f) /\ Whole(f)' = Whole(f) /\ Picked(f)' = Picked(f)
          /\ Uploading(f)' = Uploading(f) /\ Shown(f)' = Shown(f) /\ Ready(f)' = Ready(f) /\ Settled(f)' = Settled(f)
      BY <1>0, <1>2 DEF FilesOK, Doomed, Whole, Picked, Uploading, Shown, Ready, Settled
    <3>2. Sent(f)' => Sent(f)
      BY <1>4 DEF Sent
    <3>3. CASE f \in x.files
      <4>1. Sent(f) /\ ~Sent(f)'
        BY <1>0, <1>1, <1>4, <3>3 DEF Sent, OncePosted
      <4>2. /\ ~Picked(f) /\ ~Uploading(f) /\ ~Shown(f) /\ ~Ready(f) /\ (f \in pressed \cup old \/ Whole(f))
            /\ (Doomed(f) => Spent(f)) /\ \A o \in Convs : ~(drop[o].step = "listed" /\ f \in drop[o].files)
        BY <3>1, <4>1 DEF FileOK, Ahead, Dead, Ready, Shown
      <4>3. ~Ahead(f)'
        BY <3>1, <4>1, <4>2 DEF Ahead
      <4>4. f \in old => f \in late'
        BY <2>1, <3>3
      <4>5. Spent(f) => Spent(f)'
        BY <1>2, <4>4 DEF Spent
      <4>6. upload'[f] # "confirm"
        BY <1>2, <4>2 DEF Uploading
      <4> QED BY <1>2, <3>1, <4>1, <4>2, <4>3, <4>4, <4>5, <4>6 DEF FileOK
    <3>4. CASE f \notin x.files
      <4>1. \A o \in Convs : f \in refs'[o] => f \in refs[o]
        BY <1>0, <2>1, <3>4 DEF ChatTyped
      <4>2. f \in late => f \in late'
        BY <2>1
      <4> QED BY <1>2, <3>1, <3>2, <4>1, <4>2, FileStays
    <3> QED BY <3>3, <3>4
  <2> QED BY <1>4, <1>5, <2>2 DEF Safe, FilesOK
<1> QED BY <1>1, <1>6, <1>7

LEMMA AnsweredSafe == ASSUME Safe, Typed', PostLands \/ PostIsLost PROVE Safe'
<1>0. Typed /\ BrowserTyped /\ OncePosted /\ HandsOK /\ RemovalsOK /\ JobOK
  BY DEF Safe, Typed
<1>1. PICK x \in posts, ok \in BOOLEAN : Answered(x, ok) /\ (UNCHANGED plan \/ Spend("lose"))
  BY DEF PostLands, PostIsLost
<1>2. plan'.picks = plan.picks
  BY <1>0, <1>1, SpendKeeps DEF BrowserTyped, Acts
<1>3. /\ posts' = posts \ {x} /\ page'.rows = page.rows
      /\ UNCHANGED <<upload, removal, refs, row, blob, old, pressed, late, queue, outbox, hand, job, drop>>
  BY <1>0, <1>1, AnsweredTyped DEF store, chat, cleanup, history
<1>4. NothingNew /\ NoOtherDoom
  BY <1>2, <1>3, RowsStay, DoomStays DEF NothingNew
<1>5. OncePosted' /\ HandsOK' /\ RemovalsOK' /\ JobOK'
  BY <1>0, <1>3, PostsStay DEF HandsOK, RemovalsOK, JobOK
<1> QED BY <1>3, <1>4, <1>5, SafeStays

LEMMA ListSafe == ASSUME Safe, Typed', executeDelete PROVE Safe'
<1>0. Typed /\ BrowserTyped /\ ChatTyped /\ FilesOK /\ OncePicked /\ OncePosted /\ HandsOK /\ RemovalsOK /\ JobOK
  BY DEF Safe, Typed
<1>1. PICK c \in Convs :
    /\ Spend("drop")
    /\ drop' = [drop EXCEPT ![c] = [step |-> "listed", files |-> list_orphan_file_ids_for_conversation(c)]]
    /\ UNCHANGED <<browser, store, conv, refs, outbox, told, cleanup, job, history>>
  BY DEF executeDelete
<1>2. /\ UNCHANGED <<page, upload, posts, removal, refs, row, blob, old, pressed, late, queue, outbox, hand, job>>
      /\ plan'.picks = plan.picks /\ Rows' = Rows
  BY <1>0, <1>1, SpendKeeps, RowsStay DEF browser, store, cleanup, history, BrowserTyped, Acts
<1>3. ASSUME NEW f \in Files
      PROVE  FileOK(f)'
  <2>1. /\ FileOK(f) /\ Sent(f)' = Sent(f) /\ Whole(f)' = Whole(f) /\ Picked(f)' = Picked(f) /\ Uploading(f)' = Uploading(f)
        /\ Shown(f)' = Shown(f) /\ Ready(f)' = Ready(f) /\ Settled(f)' = Settled(f)
    BY <1>0, <1>2 DEF FilesOK, Sent, Whole, Picked, Uploading, Shown, Ready, Settled
  <2>2. Doomed(f)' => Doomed(f)
    BY <1>0, <1>1, <1>2 DEF Doomed, ChatTyped
  <2>3. \A o \in Convs : drop'[o].step = "listed" /\ f \in drop'[o].files =>
              \/ drop[o].step = "listed" /\ f \in drop[o].files
              \/ ~Ahead(f)' /\ \A u \in Convs \ {o} : f \notin refs'[u]
    <3>1. f \in list_orphan_file_ids_for_conversation(c) => ~Ahead(f)' /\ \A u \in Convs \ {c} : f \notin refs'[u]
      <4>1. f \in list_orphan_file_ids_for_conversation(c) => Referenced(f) /\ \A u \in Convs \ {c} : f \notin refs[u]
        BY DEF list_orphan_file_ids_for_conversation, Referenced
      <4> QED BY <1>2, <2>1, <4>1 DEF FileOK, Ahead
    <3> QED BY <1>0, <1>1, <3>1 DEF ChatTyped
  <2> QED BY <1>2, <2>1, <2>2, <2>3, FileStays
<1>4. OncePicked' /\ OncePosted' /\ HandsOK' /\ RemovalsOK' /\ JobOK'
  BY <1>0, <1>2 DEF OncePicked, OncePosted, HandsOK, RemovalsOK, JobOK
<1> QED BY <1>3, <1>4 DEF Safe, FilesOK

LEMMA CommitSafe == ASSUME Safe, Typed', delete_conversation PROVE Safe'
<1>0. Typed /\ ChatTyped /\ FilesOK /\ OncePicked /\ OncePosted /\ HandsOK /\ RemovalsOK /\ JobOK
  BY DEF Safe, Typed
<1>1. PICK c \in Convs :
    /\ drop[c].step = "listed" /\ refs' = [refs EXCEPT ![c] = {}] /\ drop' = [drop EXCEPT ![c].step = "committed"]
    /\ UNCHANGED <<plan, browser, store, outbox, told, cleanup, job, history>>
  BY DEF delete_conversation
<1>2. /\ UNCHANGED <<plan, page, upload, posts, removal, row, blob, old, pressed, late, queue, outbox, hand, job>>
      /\ Rows' = Rows
  BY <1>1, RowsStay DEF browser, store, cleanup, history
<1>3. ASSUME NEW f \in Files
      PROVE  FileOK(f)'
  <2>1. /\ FileOK(f) /\ Sent(f)' = Sent(f) /\ Whole(f)' = Whole(f) /\ Picked(f)' = Picked(f) /\ Uploading(f)' = Uploading(f)
        /\ Shown(f)' = Shown(f) /\ Ready(f)' = Ready(f) /\ Settled(f)' = Settled(f)
    BY <1>0, <1>2 DEF FilesOK, Sent, Whole, Picked, Uploading, Shown, Ready, Settled
  <2>2. \A o \in Convs : f \in refs'[o] => f \in refs[o]
    BY <1>0, <1>1 DEF ChatTyped
  <2>3. /\ drop'[c].step = "committed" /\ drop'[c].files = drop[c].files
        /\ \A o \in Convs \ {c} : drop'[o] = drop[o]
    BY <1>0, <1>1 DEF ChatTyped, Drop
  <2>4. Doomed(f)' => Doomed(f) \/ f \in drop[c].files
    BY <1>2, <2>3 DEF Doomed
  <2>5. f \in drop[c].files => Dead(f)'
    <3>1. f \in drop[c].files => ~Ahead(f) /\ \A o \in Convs \ {c} : f \notin refs[o]
      BY <1>1, <2>1 DEF FileOK
    <3>2. f \notin refs'[c]
      BY <1>0, <1>1 DEF ChatTyped
    <3> QED BY <2>1, <2>2, <3>1, <3>2 DEF Dead, Ahead, Referenced
  <2>6. \A o \in Convs : drop'[o].step = "listed" /\ f \in drop'[o].files => drop[o].step = "listed" /\ f \in drop[o].files
    BY <2>3
  <2> QED BY <1>2, <2>1, <2>2, <2>4, <2>5, <2>6, FileStays
<1>4. OncePicked' /\ OncePosted' /\ HandsOK' /\ RemovalsOK' /\ JobOK'
  BY <1>0, <1>2 DEF OncePicked, OncePosted, HandsOK, RemovalsOK, JobOK
<1> QED BY <1>3, <1>4 DEF Safe, FilesOK

LEMMA AnnounceSafe ==
    ASSUME Safe, Typed', dispatch_event \/ AnnouncementIsLost \/ drain_outbox_batch
    PROVE  Safe'
<1>0. Typed /\ BrowserTyped /\ ChatTyped /\ OncePosted /\ HandsOK /\ RemovalsOK /\ JobOK
  BY DEF Safe, Typed
<1>1. /\ UNCHANGED <<page, upload, posts, removal, refs, row, blob, old, pressed, late, hand, job>>
      /\ plan'.picks = plan.picks
  <2>1. /\ UNCHANGED <<browser, store, conv, refs, hand, job, history>>
        /\ UNCHANGED plan \/ Spend("nats") \/ Spend("die")
    BY DEF dispatch_event, AnnouncementIsLost, drain_outbox_batch, cleanup
  <2> QED BY <1>0, <2>1, SpendKeeps DEF browser, store, history, BrowserTyped, Acts
<1>2. NoOtherDoom
  <2>1. CASE dispatch_event
    <3>1. PICK c \in Convs :
      /\ drop[c].step = "committed"
      /\ \/ queue' = queue \cup Event(drop[c].files) /\ UNCHANGED outbox
         \/ outbox' = outbox \cup ({drop[c].files} \ {{}}) /\ UNCHANGED queue
      /\ drop' = [drop EXCEPT ![c].step = "announced"]
      /\ UNCHANGED <<hand, job>>
      BY <2>1 DEF dispatch_event
    <3>2. drop'[c].step = "announced" /\ \A o \in Convs \ {c} : drop'[o] = drop[o]
      BY <1>0, <3>1 DEF ChatTyped, Drop
    <3>3. ASSUME NEW f \in Files, Doomed(f)'
          PROVE  Doomed(f)
      <4>1. \A m \in queue' : m \in queue \/ m.names = drop[c].files
        BY <3>1 DEF Event
      <4>2. \A names \in outbox' : names \in outbox \/ names = drop[c].files
        BY <3>1
      <4> QED BY <3>1, <3>2, <3>3, <4>1, <4>2 DEF Doomed
    <3> QED BY <3>2, <3>3 DEF NoOtherDoom
  <2>2. CASE AnnouncementIsLost
    <3>1. PICK c \in Convs :
      /\ drop' = [drop EXCEPT ![c] = [step |-> "announced", files |-> {}]]
      /\ UNCHANGED <<outbox, queue, hand, job>>
      BY <2>2 DEF AnnouncementIsLost, cleanup
    <3>2. drop'[c].step = "announced" /\ \A o \in Convs \ {c} : drop'[o] = drop[o]
      BY <1>0, <3>1 DEF ChatTyped
    <3> QED BY <3>1, <3>2 DEF NoOtherDoom, Doomed
  <2>3. CASE drain_outbox_batch
    <3>1. PICK names \in outbox :
      /\ queue' = queue \cup Event(names) /\ outbox' = outbox \ {names} /\ UNCHANGED <<drop, hand, job>>
      BY <2>3 DEF drain_outbox_batch
    <3>2. \A m \in queue' : m \in queue \/ m.names = names
      BY <3>1 DEF Event
    <3> QED BY <3>1, <3>2 DEF NoOtherDoom, Doomed
  <2> QED BY <2>1, <2>2, <2>3
<1>3. NothingNew
  BY <1>1, RowsStay DEF NothingNew
<1>4. OncePosted' /\ HandsOK' /\ RemovalsOK' /\ JobOK'
  BY <1>0, <1>1 DEF OncePosted, HandsOK, RemovalsOK, JobOK
<1> QED BY <1>1, <1>2, <1>3, <1>4, SafeStays

LEMMA DeletionLandsSafe == ASSUME Safe, Typed', DeletionLands PROVE Safe'
<1>0. Typed /\ BrowserTyped /\ ChatTyped /\ OncePosted /\ HandsOK /\ RemovalsOK /\ JobOK
  BY DEF Safe, Typed
<1>1. PICK c \in Convs :
    /\ drop[c].step = "announced" /\ drop' = [drop EXCEPT ![c].step = "answered"]
    /\ \/ page' = page \/ page' = Leaves(page, None)
    /\ \/ posts' = posts \/ posts' = Unawaited
    /\ UNCHANGED plan \/ Spend("lose")
    /\ UNCHANGED <<upload, removal, store, conv, refs, outbox, told, cleanup, job, history>>
  BY DEF DeletionLands
<1>2. /\ UNCHANGED <<upload, removal, refs, row, blob, old, pressed, late, queue, outbox, hand, job>>
      /\ plan'.picks = plan.picks
  BY <1>0, <1>1, SpendKeeps DEF store, cleanup, history, BrowserTyped, Acts
<1>3. Rows' \subseteq Rows
  <2>1. page'.rows = page.rows \/ page'.rows = <<>>
    BY <1>0, <1>1, EmptiedPage DEF BrowserTyped
  <2> QED BY <2>1, RowsStay, NoRows
<1>4. OncePosted' /\ \A x \in posts' : x.step = "sent" => \E y \in posts : y.step = "sent" /\ y.files = x.files
  <2>1. CASE UNCHANGED posts
    BY <1>0, <2>1 DEF OncePosted
  <2>2. CASE posts' = Unawaited
    BY <1>0, <2>2, PostsLeft DEF BrowserTyped
  <2> QED BY <1>1, <2>1, <2>2
<1>5. NothingNew
  BY <1>2, <1>3, <1>4 DEF NothingNew
<1>6. NoOtherDoom
  <2>1. drop'[c].step = "answered" /\ \A o \in Convs \ {c} : drop'[o] = drop[o]
    BY <1>0, <1>1 DEF ChatTyped, Drop
  <2> QED BY <1>2, <2>1 DEF NoOtherDoom, Doomed
<1>7. HandsOK' /\ RemovalsOK' /\ JobOK'
  BY <1>0, <1>2 DEF HandsOK, RemovalsOK, JobOK
<1> QED BY <1>2, <1>4, <1>5, <1>6, <1>7, SafeStays

-----------------------------------------------------------------------------
(* The steps of file-service's consumers and of the job.                    *)

LEMMA FetchSafe == ASSUME Safe, Typed', Fetch PROVE Safe'
<1>0. Typed /\ BrowserTyped /\ CleanupTyped /\ OncePosted /\ HandsOK /\ RemovalsOK /\ JobOK
  BY DEF Safe, Typed
<1>1. PICK w \in Workers, m \in queue :
    /\ queue' = queue \ {m}
    /\ hand' = [hand EXCEPT ![w] = NextFile([names |-> m.names, nth |-> m.nth, done |-> {}, file |-> None, step |-> "next"])]
    /\ UNCHANGED <<plan, browser, store, chat, job, history>>
  BY DEF Fetch
<1>2. UNCHANGED <<plan, page, upload, posts, removal, refs, row, blob, old, pressed, late, outbox, job, drop>>
  BY <1>1 DEF browser, store, chat, history
<1> DEFINE h == [names |-> m.names, nth |-> m.nth, done |-> {}, file |-> None, step |-> "next"]
<1>3. h \in Hand /\ h.names = m.names
  BY <1>0 DEF CleanupTyped, Hand
<1> HIDE DEF h
<1>4. hand' = [hand EXCEPT ![w] = NextFile(h)]
  BY <1>1 DEF h
<1>5. /\ hand'[w].names = m.names /\ (hand'[w].step \in Deleting => hand'[w].file \in hand'[w].names)
      /\ \A v \in Workers \ {w} : hand'[v] = hand[v]
  BY <1>0, <1>3, <1>4, NextFileTyped DEF CleanupTyped
<1>6. HandsOK'
  BY <1>0, <1>5 DEF HandsOK
<1>7. NoOtherDoom
  BY <1>1, <1>2, <1>5 DEF NoOtherDoom, Doomed
<1>8. NothingNew
  BY <1>2, RowsStay DEF NothingNew
<1>9. OncePosted' /\ RemovalsOK' /\ JobOK'
  BY <1>0, <1>2 DEF OncePosted, RemovalsOK, JobOK
<1> QED BY <1>2, <1>6, <1>7, <1>8, <1>9, SafeStays

LEMMA CleanupSafe == ASSUME Safe, Typed', processConversationDeleted PROVE Safe'
<1>0. Typed /\ CleanupTyped /\ FilesOK /\ HandsOK /\ RemovalsOK
  BY DEF Safe, Typed
<1>1. PICK w \in Workers, s1 \in Ends :
       /\ softDeleteFile(hand[w].file, hand[w].step, s1)
       /\ hand' = [hand EXCEPT ![w] = IF s1 \in {"ok", "gone"} THEN NextFile([hand[w] EXCEPT !.done = @ \cup {hand[w].file}])
                                      ELSE [hand[w] EXCEPT !.step = s1]]
       /\ UNCHANGED <<plan, browser, born, old, chat, queue, job, history>> /\ hand[w].step \in Deleting
  BY DEF processConversationDeleted
<1> DEFINE h == [hand[w] EXCEPT !.done = @ \cup {hand[w].file}]
           k == [hand[w] EXCEPT !.step = s1]
<1>2. h \in Hand /\ h.names = hand[w].names /\ k.names = hand[w].names /\ k.file = hand[w].file
  <2>1. hand[w] \in Hand
    BY <1>0 DEF CleanupTyped
  <2> QED BY <2>1 DEF Hand
<1>3. hand[w].file \in hand[w].names /\ hand[w].file \in Files
  BY <1>0, <1>1 DEF HandsOK, CleanupTyped, Hand
<1> HIDE DEF h, k
<1>4. /\ hand'[w] = NextFile(h) \/ hand'[w] = k
      /\ \A v \in Workers \ {w} : hand'[v] = hand[v]
  BY <1>0, <1>1 DEF CleanupTyped, h, k
<1>5. HandsOK' /\ \A v \in Workers : hand'[v].names = hand[v].names
  BY <1>0, <1>2, <1>3, <1>4, NextFileTyped DEF HandsOK
<1>6. RemovalsOK'
  BY <1>0, <1>1 DEF RemovalsOK, browser, history
<1>7. Doomed(hand[w].file) /\ FileOK(hand[w].file)
  BY <1>0, <1>3 DEF Doomed, FilesOK
<1>8. Expendable(hand[w].file)
  BY <1>7 DEF FileOK, Expendable
<1> QED BY <1>1, <1>3, <1>5, <1>6, <1>8, DeleteSafe

LEMMA DeliveryEndsSafe == ASSUME Safe, Typed', Acks \/ CleanupFails \/ AckWaitEnds PROVE Safe'
<1>0. Typed /\ BrowserTyped /\ CleanupTyped /\ OncePosted /\ HandsOK /\ RemovalsOK /\ JobOK
  BY DEF Safe, Typed
<1>1. PICK w \in Workers :
    /\ hand' = [hand EXCEPT ![w] = Free] \/ hand' = hand
    /\ Again(hand[w]) \/ UNCHANGED <<queue, history>>
    /\ UNCHANGED plan \/ Spend("fail") \/ Spend("slow")
    /\ UNCHANGED <<browser, store, chat, job>>
  BY DEF Acks, CleanupFails, AckWaitEnds
<1>2. hand[w] \in Hand
  BY <1>0 DEF CleanupTyped
<1>3. (\A m \in queue' : m \in queue \/ m.names = hand[w].names) /\ UNCHANGED <<pressed, late>>
  BY <1>0, <1>1, <1>2, AgainTyped DEF history
<1>4. /\ UNCHANGED <<page, upload, posts, removal, refs, row, blob, old, outbox, job, drop>>
      /\ plan'.picks = plan.picks
  BY <1>0, <1>1, SpendKeeps DEF browser, store, chat, BrowserTyped, Acts
<1>5. /\ \A v \in Workers : hand'[v] = hand[v] \/ (hand'[v].names = {} /\ hand'[v].step = "free")
  BY <1>0, <1>1 DEF CleanupTyped, Free
<1>6. HandsOK'
  BY <1>0, <1>5 DEF HandsOK, Deleting
<1>7. NoOtherDoom
  BY <1>3, <1>4, <1>5 DEF NoOtherDoom, Doomed
<1>8. NothingNew
  BY <1>4, RowsStay DEF NothingNew
<1>9. OncePosted' /\ RemovalsOK' /\ JobOK'
  BY <1>0, <1>3, <1>4 DEF OncePosted, RemovalsOK, JobOK
<1> QED BY <1>3, <1>4, <1>6, <1>7, <1>8, <1>9, SafeStays

LEMMA JobSafe ==
    ASSUME Safe, Typed',
           scan_orphan_files \/ list_files_for_owner \/ _is_file_referenced \/ JobPublishes \/ JobFails
    PROVE  Safe'
<1>0. Typed /\ BrowserTyped /\ StoreTyped /\ CleanupTyped /\ FilesOK /\ OncePicked /\ OncePosted /\ HandsOK
      /\ RemovalsOK /\ JobOK
  BY DEF Safe, Typed
<1>1. /\ UNCHANGED <<browser, store, chat, hand, history>> /\ (plan' = plan \/ Spend("die"))
      /\ queue' = queue \/ queue' = queue \cup Event(job.orphans)
  BY DEF scan_orphan_files, list_files_for_owner, _is_file_referenced, JobPublishes, JobFails, cleanup
<1>2. /\ UNCHANGED <<page, upload, posts, removal, refs, row, blob, old, pressed, late, outbox, hand, drop>>
      /\ plan'.picks = plan.picks /\ Rows' = Rows
  BY <1>0, <1>1, SpendKeeps, RowsStay DEF browser, store, chat, history, BrowserTyped, Acts
<1>3. /\ job'.cut \subseteq job.cut \cup old /\ job'.found \subseteq job.found \cup job.cut
      /\ \A f \in job'.orphans : f \in job.orphans \/ (f \in job.found /\ ~Referenced(f))
  BY <1>0, JobGoesOn DEF CleanupTyped
<1>4. ASSUME NEW f \in Files
      PROVE  FileOK(f)'
  <2>1. /\ FileOK(f) /\ Sent(f)' = Sent(f) /\ Whole(f)' = Whole(f) /\ Picked(f)' = Picked(f) /\ Uploading(f)' = Uploading(f)
        /\ Shown(f)' = Shown(f) /\ Ready(f)' = Ready(f) /\ Settled(f)' = Settled(f) /\ Referenced(f)' = Referenced(f)
    BY <1>0, <1>2 DEF FilesOK, Sent, Whole, Picked, Uploading, Shown, Ready, Settled, Referenced
  <2>2. \A m \in queue' : m \in queue \/ m.names = job.orphans
    BY <1>1 DEF Event
  <2>3. Doomed(f)' => Doomed(f) \/ (f \in job.found /\ ~Referenced(f))
    BY <1>2, <1>3, <2>2 DEF Doomed
  <2>4. Doomed(f)' => Doomed(f) \/ Dead(f)' \/ Spent(f)'
    BY <1>0, <1>2, <2>1, <2>3 DEF JobOK, Spent
  <2> QED BY <1>2, <2>1, <2>4, FileStays
<1>5. OncePicked' /\ OncePosted' /\ HandsOK' /\ RemovalsOK' /\ JobOK'
  BY <1>0, <1>2, <1>3 DEF OncePicked, OncePosted, HandsOK, RemovalsOK, JobOK
<1> QED BY <1>4, <1>5 DEF Safe, FilesOK

(* Where a file turns old nobody has yet decided anything by its age.        *)
LEMMA AgeSafe == ASSUME Safe, Typed', Age PROVE Safe'
<1>0. Typed /\ BrowserTyped /\ FilesOK /\ OncePicked /\ OncePosted /\ HandsOK /\ RemovalsOK /\ JobOK
  BY DEF Safe, Typed
<1>1. PICK f \in Files :
    /\ row[f] # "none" /\ f \notin old /\ upload[f] = "none" /\ Spend("age")
    /\ old' = old \cup {f}
    /\ UNCHANGED <<browser, row, blob, born, chat, cleanup, job, history>>
  BY DEF Age
<1>2. /\ UNCHANGED <<page, upload, posts, removal, refs, row, blob, pressed, late, queue, outbox, hand, job, drop>>
      /\ plan'.picks = plan.picks /\ Rows' = Rows
  BY <1>0, <1>1, SpendKeeps, RowsStay DEF browser, chat, cleanup, history, BrowserTyped, Acts
<1>3. ASSUME NEW g \in Files
      PROVE  FileOK(g)'
  <2>1. /\ FileOK(g) /\ Doomed(g)' = Doomed(g) /\ Sent(g)' = Sent(g) /\ Whole(g)' = Whole(g) /\ Picked(g)' = Picked(g)
        /\ Uploading(g)' = Uploading(g) /\ Shown(g)' = Shown(g) /\ Ready(g)' = Ready(g) /\ Settled(g)' = Settled(g)
        /\ Referenced(g)' = Referenced(g)
    BY <1>0, <1>2 DEF FilesOK, Doomed, Sent, Whole, Picked, Uploading, Shown, Ready, Settled, Referenced
  <2>2. CASE g = f
    <3>1. ~Picked(g) /\ ~Uploading(g) /\ upload[g] = "none" /\ g \notin old
      BY <1>1, <2>1, <2>2 DEF FileOK, Uploading
    <3>2. Doomed(g) => Dead(g)
      BY <2>1, <3>1 DEF FileOK, Spent
    <3>3. Ahead(g)' = Ahead(g) /\ Dead(g)' = Dead(g)
      BY <2>1 DEF Ahead, Dead
    <3> QED BY <1>1, <1>2, <2>1, <2>2, <3>1, <3>2, <3>3 DEF FileOK
  <2>3. CASE g # f
    <3>1. g \in old' <=> g \in old
      BY <1>1, <2>3
    <3> QED BY <1>2, <2>1, <3>1, FileStays
  <2> QED BY <2>2, <2>3
<1>4. OncePicked' /\ OncePosted' /\ HandsOK' /\ RemovalsOK' /\ JobOK'
  BY <1>0, <1>1, <1>2 DEF OncePicked, OncePosted, HandsOK, RemovalsOK, JobOK
<1> QED BY <1>3, <1>4 DEF Safe, FilesOK

-----------------------------------------------------------------------------
(* The first state, and the theorem.                                        *)

LEMMA SafeInit == Init => Safe
<1> SUFFICES ASSUME Init PROVE Safe
  OBVIOUS
<1> USE DEF Init
<1>1. /\ plan \in [left : [Acts -> Nat], picks : SUBSET Seq(Files), kept : SUBSET Files, old : SUBSET Files,
                   convs : SUBSET Convs, refs : [Convs -> SUBSET Files]]
      /\ plan.old \subseteq plan.kept /\ \A c \in Convs : plan.refs[c] \subseteq plan.kept
  BY PlansAreSound
<1>2. OncePicked /\ \A some \in plan.picks : ToSet(some) \cap plan.kept = {}
  BY PlansAreSound DEF OncePicked
<1>3. plan \in Plan
  BY <1>1 DEF Plan
<1>4. page \in Page /\ Rows = {}
  <2> DEFINE none == <<>>
  <2>1. none \in Seq(Row) /\ DOMAIN none = {}
    OBVIOUS
  <2> HIDE DEF none
  <2>2. page = [rows |-> none, conv |-> None, busy |-> FALSE, uploadBusy |-> FALSE, batches |-> {}]
    BY DEF none
  <2>3. page.rows = none /\ page \in Page
    BY <2>1, <2>2 DEF Page
  <2> QED BY <2>1, <2>3 DEF Rows
<1>5. Typed
  <2>1. BrowserTyped
    BY <1>3, <1>4 DEF BrowserTyped, Removal, Idle
  <2>2. StoreTyped
    BY <1>1 DEF StoreTyped
  <2>3. ChatTyped
    BY <1>1 DEF ChatTyped, NoDrop, Drop
  <2>4. hand \in [Workers -> Hand]
    BY DEF Free, Hand
  <2>5. JobTyped
    BY DEF JobTyped, Asleep
  <2> QED BY <2>1, <2>2, <2>3, <2>4, <2>5 DEF Typed, CleanupTyped
<1>6. ASSUME NEW f \in Files
      PROVE  FileOK(f)
  <2>1. ~Shown(f) /\ ~Ready(f) /\ ~Settled(f) /\ ~Sent(f) /\ ~Uploading(f)
    BY <1>4 DEF Shown, Ready, Settled, Sent, Uploading
  <2>2. ~Doomed(f)
    BY DEF Doomed, Free, Asleep, NoDrop
  <2>3. Picked(f) => f \notin plan.kept
    BY <1>2 DEF Picked
  <2>4. Referenced(f) => f \in plan.kept
    BY <1>1 DEF Referenced
  <2>5. row[f] = (IF f \in plan.kept THEN "uploaded" ELSE "none") /\ blob[f] = (f \in plan.kept)
    OBVIOUS
  <2>6. f \in old => f \in plan.kept
    BY <1>1
  <2>7. upload[f] = "none" /\ pressed = {} /\ \A c \in Convs : drop[c].step = "none"
    BY DEF NoDrop
  <2> HIDE DEF Init
  <2> QED BY <2>1, <2>2, <2>3, <2>4, <2>5, <2>6, <2>7 DEF FileOK, Ahead, Whole
<1>7. OncePosted /\ HandsOK /\ RemovalsOK /\ JobOK
  BY DEF OncePosted, HandsOK, RemovalsOK, JobOK, Free, Idle, Asleep, Deleting
<1> QED BY <1>2, <1>5, <1>6, <1>7 DEF Safe, FilesOK

LEMMA SafeNext == Safe /\ [Next]_vars => Safe'
<1> SUFFICES ASSUME Safe, [Next]_vars PROVE Safe'
  OBVIOUS
<1>0. Typed
  BY DEF Safe
<1>1. CASE onFileInputChange
  BY <1>0, <1>1, ComposerTyped, PickSafe
<1>2. CASE uploadOneLocalFile
  BY <1>0, <1>2, ComposerTyped, UploadSafe
<1>3. CASE UploadFails
  BY <1>0, <1>3, ComposerTyped, UploadFailsSafe
<1>4. CASE removeAttachment
  BY <1>0, <1>4, ComposerTyped, RemoveSafe
<1>5. CASE RemovalRuns
  BY <1>0, <1>5, ComposerTyped, RemovalRunsSafe
<1>6. CASE RemovalFails \/ RemovalLands
  BY <1>0, <1>6, ComposerTyped, RemovalEndsSafe
<1>7. CASE send
  BY <1>0, <1>7, ComposerTyped, SendSafe
<1>8. CASE SwitchThread
  BY <1>0, <1>8, ComposerTyped, SwitchSafe
<1>9. CASE post_message
  BY <1>0, <1>9, ChatServiceTyped, PostSafe
<1>10. CASE PostLands \/ PostIsLost
  BY <1>0, <1>10, ChatServiceTyped, AnsweredSafe
<1>11. CASE executeDelete
  BY <1>0, <1>11, ChatServiceTyped, ListSafe
<1>12. CASE delete_conversation
  BY <1>0, <1>12, ChatServiceTyped, CommitSafe
<1>13. CASE dispatch_event \/ AnnouncementIsLost \/ drain_outbox_batch
  BY <1>0, <1>13, ChatServiceTyped, AnnounceSafe
<1>14. CASE DeletionLands
  BY <1>0, <1>14, ChatServiceTyped, DeletionLandsSafe
<1>15. CASE Fetch
  BY <1>0, <1>15, CleanupServiceTyped, FetchSafe
<1>16. CASE processConversationDeleted
  BY <1>0, <1>16, CleanupServiceTyped, CleanupSafe
<1>17. CASE Acks \/ CleanupFails \/ AckWaitEnds
  BY <1>0, <1>17, CleanupServiceTyped, DeliveryEndsSafe
<1>18. CASE scan_orphan_files \/ list_files_for_owner \/ _is_file_referenced \/ JobPublishes \/ JobFails
  BY <1>0, <1>18, CleanupServiceTyped, JobSafe
<1>19. CASE Age
  BY <1>0, <1>19, CleanupServiceTyped, AgeSafe
<1>20. CASE UNCHANGED vars
  <2>1. UNCHANGED <<plan, page, upload, posts, removal, row, blob, old, refs, drop, outbox, queue, hand, job, pressed, late>>
    BY <1>20 DEF vars, browser, store, chat, cleanup, history
  <2>2. Typed'
    BY <1>0, <2>1 DEF Typed, BrowserTyped, StoreTyped, ChatTyped, CleanupTyped, JobTyped
  <2>3. NothingNew /\ NoOtherDoom
    BY <2>1, RowsStay, DoomStays DEF NothingNew
  <2>4. OncePosted' /\ HandsOK' /\ RemovalsOK' /\ JobOK'
    BY <2>1 DEF Safe, OncePosted, HandsOK, RemovalsOK, JobOK
  <2> QED BY <2>1, <2>2, <2>3, <2>4, SafeStays
<1> QED BY <1>1, <1>2, <1>3, <1>4, <1>5, <1>6, <1>7, <1>8, <1>9, <1>10, <1>11, <1>12, <1>13, <1>14, <1>15, <1>16,
           <1>17, <1>18, <1>19, <1>20 DEF Next

(* No file of a message that can be read is taken: not by the cleanup of     *)
(* another conversation, not by the daily job, for any files, conversations, *)
(* consumers, page and delivery limits and plans, save those the user        *)
(* removed in flight or kept in the composer for a day (processConversation- *)
(* Deleted, delete_conversation, _is_file_referenced, scan_orphan_files).    *)
THEOREM SentStayWhole == Spec => []SentFilesAreWhole
<1>1. Safe => SentFilesAreWhole
  BY DEF Safe, FilesOK, FileOK, SentFilesAreWhole, Whole
<1> QED BY <1>1, SafeInit, SafeNext, PTL DEF Spec
=============================================================================
