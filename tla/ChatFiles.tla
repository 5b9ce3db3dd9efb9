------------------------------ MODULE ChatFiles ------------------------------
(***************************************************************************)
(* The files of one person's chatbot conversations, from the composer to   *)
(* their deletion: the page that uploads, removes and sends them, the rows *)
(* and blobs of file-service, the references of chatbot-service, the event *)
(* that announces a deleted conversation's files, and the daily job that   *)
(* looks for files nobody refers to.                                       *)
(***************************************************************************)
EXTENDS Naturals, Sequences, FiniteSets, SequencesExt

CONSTANTS
  Files,       \* the local files a person picks, which are also the rows prepare makes of them
  Convs,
  Workers,     \* the cleanup consumers of file-service
  Removals,    \* requests of the composer to delete a file
  MaxDeliver,
  PageLimit,   \* limit of GET /internal/files
  Plans,       \* the bounded instances to look at
  None

ASSUME FilesAssumption == MaxDeliver \in Nat \ {0} /\ PageLimit \in Nat \ {0}

(* What a plan limits; what the program does by itself is not counted.     *)
Acts == {"lose", "remove", "send", "switch", "drop", "nats", "die", "fail", "slow", "age"}

(* A file is picked once and is none that was there before; only files that *)
(* are there are old or referred to.                                       *)
ASSUME PlansAreSound == \A p \in Plans :
  /\ p \in [left : [Acts -> Nat], picks : SUBSET Seq(Files), kept : SUBSET Files, old : SUBSET Files,
            convs : SUBSET Convs, refs : [Convs -> SUBSET Files]]
  /\ p.old \subseteq p.kept /\ \A c \in Convs : p.refs[c] \subseteq p.kept
  /\ \A some \in p.picks : ToSet(some) \cap p.kept = {}
  /\ \A some, more \in p.picks : ToSet(some) \cap ToSet(more) # {} => some = more

VARIABLES
  plan,        \* what is left of the instance's bounds
  page,        \* the composer and the conversation on screen
  upload,      \* per file: the request of its upload that comes next
  posts,       \* POSTs of messages under way
  removal,     \* deletions the composer asked for
  row, blob,   \* file-service's table and the blob container
  born,        \* the rows in the order prepare inserted them
  old,         \* files whose row is a day old
  conv, refs,  \* conversations, and the files their messages refer to
  drop,        \* deletions of conversations under way
  outbox,      \* events that wait in event_outbox
  told,        \* an event of a deleted conversation ever went through event_outbox
  queue,       \* deliveries of conversation.deleted that are due
  hand,        \* what each cleanup consumer is at work on
  job,         \* app.reconcile_orphans --execute, started by hand
  pressed,     \* history: files the user asked to remove
  late,        \* history: files sent when their row was a day old already
  gaveUp       \* history: files of events whose deliveries are used up

browser == <<page, upload, posts, removal>>
store == <<row, blob, born, old>>
chat == <<conv, refs, drop, outbox, told>>
cleanup == <<queue, hand>>
history == <<pressed, late, gaveUp>>
vars == <<plan, browser, store, chat, cleanup, job, history>>

Spend(act) == plan.left[act] > 0 /\ plan' = [plan EXCEPT !.left[act] = @ - 1]

Idle == [file |-> None, at |-> 0, step |-> "idle"]
NoDrop == [step |-> "none", files |-> {}]
Free == [names |-> {}, nth |-> 0, done |-> {}, file |-> None, step |-> "free"]
Asleep == [step |-> "asleep", cut |-> {}, off |-> 0, found |-> {}, orphans |-> {}]
Unfinished == {"prepare", "put", "confirm"}

Live(f) == row[f] \in {"pending", "uploaded"}
Referenced(f) == \E c \in Convs : f \in refs[c]

(* A conversation the plan names is there from the start.                  *)
Init ==
  /\ plan \in Plans
  /\ page = [rows |-> <<>>, conv |-> None, busy |-> FALSE, uploadBusy |-> FALSE, batches |-> {}]
  /\ upload = [f \in Files |-> "none"]
  /\ posts = {}
  /\ removal = [r \in Removals |-> Idle]
  /\ row = [f \in Files |-> IF f \in plan.kept THEN "uploaded" ELSE "none"]
  /\ blob = [f \in Files |-> f \in plan.kept]
  /\ born = SetToSeq(plan.kept)
  /\ old = plan.old
  /\ conv = [c \in Convs |-> IF c \in plan.convs THEN "alive" ELSE "unborn"]
  /\ refs = [c \in Convs |-> plan.refs[c]]
  /\ drop = [c \in Convs |-> NoDrop]
  /\ outbox = {} /\ told = FALSE
  /\ queue = {}
  /\ hand = [w \in Workers |-> Free]
  /\ job = Asleep
  /\ pressed = {} /\ late = {} /\ gaveUp = {}

-----------------------------------------------------------------------------
(* softDeleteFile: the row is read, the blob goes, then the row.  d1 is     *)
(* where it stands afterwards; a failure ends it at "error".               *)

SelectsRow(f, s1) == s1 = (IF Live(f) THEN "blob" ELSE "gone") /\ UNCHANGED <<row, blob>>
DeletesBlob(f, s1) == s1 = "row" /\ blob' = [blob EXCEPT ![f] = FALSE] /\ UNCHANGED row
UpdatesRow(f, s1) == s1 = "ok" /\ row' = [row EXCEPT ![f] = "deleted"] /\ UNCHANGED blob

(* A plausible slip: only a confirmed upload is looked for.                *)
uploadedOnly(f, s, s1) ==
  \/ s = "select" /\ s1 = (IF row[f] = "uploaded" THEN "blob" ELSE "gone") /\ UNCHANGED <<row, blob>>
  \/ s = "blob" /\ DeletesBlob(f, s1)
  \/ s = "row" /\ UpdatesRow(f, s1)

softDeleteFile(f, s, s1) ==
  \/ s = "select" /\ SelectsRow(f, s1)
  \/ s = "blob" /\ DeletesBlob(f, s1)
  \/ s = "row" /\ UpdatesRow(f, s1)

Deleting == {"select", "blob", "row"}
Ends == {"blob", "row", "ok", "gone"}

-----------------------------------------------------------------------------
(* The composer. *)

RowOf(f) == SelectInSeq(page.rows, LAMBDA x : x.file = f)
Marked(rows, f, st) == [i \in DOMAIN rows |-> IF rows[i].file = f THEN [rows[i] EXCEPT !.st = st] ELSE rows[i]]

(* Files of one pick, as many as the plan still has.                       *)
onFileInputChange ==
  \E some \in plan.picks :
    /\ plan' = [plan EXCEPT !.picks = @ \ {some}]
    /\ ~page.busy
    /\ page' = [page EXCEPT !.rows = @ \o [i \in DOMAIN some |-> [file |-> some[i], st |-> "uploading"]],
                            !.uploadBusy = TRUE, !.batches = @ \cup {ToSet(some)}]
    /\ upload' = [f \in Files |-> IF f \in ToSet(some) THEN "prepare" ELSE upload[f]]
    /\ UNCHANGED <<posts, removal, store, chat, cleanup, job, history>>

(* The upload of f is over; the last of its batch clears fileUploadBusy.   *)
UploadEnds(f, st) ==
  LET mine == {b \in page.batches : f \in b}
      rest == {b \ {f} : b \in mine} \ {{}}
  IN /\ upload' = [upload EXCEPT ![f] = "none"]
     /\ page' = [page EXCEPT !.rows = Marked(@, f, st), !.batches = (@ \ mine) \cup rest,
                             !.uploadBusy = IF rest = {} THEN FALSE ELSE @]

Prepared(f) == row' = [row EXCEPT ![f] = "pending"] /\ born' = Append(born, f) /\ UNCHANGED blob
Stored(f) == blob' = [blob EXCEPT ![f] = TRUE] /\ UNCHANGED <<row, born>>
Confirmed(f) == row' = [row EXCEPT ![f] = "uploaded"] /\ UNCHANGED <<blob, born>>

(* The server's part of the request that comes next.                       *)
Serves(f) ==
  \/ upload[f] = "prepare" /\ Prepared(f)
  \/ upload[f] = "put" /\ Stored(f)
  \/ upload[f] = "confirm" /\ row[f] = "pending" /\ Confirmed(f)

uploadOneLocalFile ==
  \E f \in Files :
    /\ Serves(f)
    /\ CASE upload[f] = "prepare" -> upload' = [upload EXCEPT ![f] = "put"] /\ UNCHANGED page
         [] upload[f] = "put" -> upload' = [upload EXCEPT ![f] = "confirm"] /\ UNCHANGED page
         [] upload[f] = "confirm" -> UploadEnds(f, "ready")
    /\ UNCHANGED <<plan, posts, removal, old, chat, cleanup, job, history>>

(* One of the three requests fails, in the server or on the way back.      *)
UploadFails ==
  \E f \in Files :
    /\ upload[f] \in Unfinished /\ Spend("lose")
    /\ UploadEnds(f, "failed")
    /\ Serves(f) \/ UNCHANGED <<row, blob, born>>
    /\ UNCHANGED <<posts, removal, old, chat, cleanup, job, history>>

Dropped(rows, i) == IF i \in DOMAIN rows THEN RemoveAt(rows, i) ELSE rows

(* A row without a file goes at once, one with a file when its deletion is  *)
(* answered; both by the index it had when the button was pressed.         *)
removeAttachment ==
  \E i \in DOMAIN page.rows :
    LET f == page.rows[i].file
    IN /\ ~page.busy /\ page.rows[i].st # "uploading"
       /\ Spend("remove")
       /\ IF page.rows[i].st = "failed"
          THEN page' = [page EXCEPT !.rows = Dropped(@, i)] /\ UNCHANGED <<removal, pressed>>
          ELSE /\ \E r \in Removals : /\ removal[r] = Idle
                                      /\ removal' = [removal EXCEPT ![r] = [file |-> f, at |-> i, step |-> "select"]]
               /\ pressed' = pressed \cup {f}
               /\ UNCHANGED page
       /\ UNCHANGED <<upload, posts, store, chat, cleanup, job, late, gaveUp>>

RemovalRuns ==
  \E r \in Removals, s1 \in Ends :
    /\ softDeleteFile(removal[r].file, removal[r].step, s1)
    /\ removal' = [removal EXCEPT ![r].step = s1]
    /\ UNCHANGED <<plan, page, upload, posts, born, old, chat, cleanup, job, history>>

RemovalFails ==
  \E r \in Removals :
    /\ removal[r].step \in Deleting \cup {"ok"} /\ Spend("lose")
    /\ removal' = [removal EXCEPT ![r].step = "error"]
    /\ UNCHANGED <<page, upload, posts, store, chat, cleanup, job, history>>

RemovalLands ==
  \E r \in Removals :
    /\ removal[r].step \in {"ok", "gone", "error"}
    /\ page' = IF removal[r].step = "ok" THEN [page EXCEPT !.rows = Dropped(@, removal[r].at)] ELSE page
    /\ removal' = [removal EXCEPT ![r] = Idle]
    /\ UNCHANGED <<plan, upload, posts, store, chat, cleanup, job, history>>

Snapshot(rows) == {rows[i].file : i \in DOMAIN rows}

(* The rows leave the composer with the message, whatever becomes of it.   *)
send ==
  /\ ~page.busy /\ ~page.uploadBusy
  /\ \A i \in DOMAIN page.rows : page.rows[i].st = "ready"
  /\ Spend("send")
  /\ posts' = posts \cup {[conv |-> page.conv, files |-> Snapshot(page.rows), step |-> "sent", awaited |-> TRUE]}
  /\ page' = [page EXCEPT !.rows = <<>>, !.busy = TRUE]
  /\ UNCHANGED <<upload, removal, store, chat, cleanup, job, history>>

(* newChat and selectConversation: another thread, an empty composer; the  *)
(* thread on screen picked again empties the composer as well.             *)
Leaves(p, c) == [p EXCEPT !.rows = <<>>, !.conv = c, !.busy = FALSE]
Unawaited == {[x EXCEPT !.awaited = FALSE] : x \in posts}

SwitchThread ==
  \E c \in {x \in Convs : conv[x] = "alive"} \cup {None} :
    /\ Spend("switch")
    /\ IF c = page.conv /\ c # None
       THEN page' = [page EXCEPT !.rows = <<>>] /\ UNCHANGED posts
       ELSE page' = Leaves(page, c) /\ posts' = Unawaited
    /\ UNCHANGED <<upload, removal, store, chat, cleanup, job, history>>

-----------------------------------------------------------------------------
(* chatbot-service. *)

(* post_message commits the message and its references, in a conversation  *)
(* that is there or a new one, or refuses it.                              *)
Target(x) == IF x.conv = None THEN {c \in Convs : conv[c] = "unborn"} ELSE {c \in Convs : c = x.conv /\ conv[c] = "alive"}

post_message ==
  \E x \in posts :
    /\ x.step = "sent"
    /\ IF Target(x) = {}
       THEN /\ posts' = (posts \ {x}) \cup {[x EXCEPT !.step = "refused"]}
            /\ UNCHANGED <<conv, refs, late>>
       ELSE LET c == CHOOSE y \in Target(x) : TRUE
            IN /\ posts' = (posts \ {x}) \cup {[x EXCEPT !.step = "committed", !.conv = c]}
               /\ conv' = [conv EXCEPT ![c] = "alive"]
               /\ refs' = [refs EXCEPT ![c] = @ \cup x.files]
               /\ late' = late \cup (x.files \cap old)
    /\ UNCHANGED <<plan, page, upload, removal, store, drop, outbox, told, cleanup, job, pressed, gaveUp>>

(* The answer and the reply it leads to; or the request is lost.           *)
Answered(x, ok) ==
  /\ page' = IF ~x.awaited THEN page
             ELSE IF ok THEN [page EXCEPT !.busy = FALSE, !.conv = x.conv] ELSE [page EXCEPT !.busy = FALSE]
  /\ posts' = posts \ {x}
  /\ UNCHANGED <<upload, removal, store, chat, cleanup, job, history>>

PostLands == \E x \in posts : x.step # "sent" /\ Answered(x, x.step = "committed") /\ UNCHANGED plan
PostIsLost == \E x \in posts : Spend("lose") /\ Answered(x, FALSE)

(* delete_conversation: the files only this conversation refers to, the     *)
(* commit, then the event.                                                 *)
list_orphan_file_ids_for_conversation(c) == {f \in refs[c] : \A o \in Convs \ {c} : f \notin refs[o]}

executeDelete ==
  \E c \in Convs :
    /\ conv[c] = "alive" /\ Spend("drop")
    /\ \A o \in Convs : drop[o].step \in {"none", "answered"}
    /\ drop' = [drop EXCEPT ![c] = [step |-> "listed", files |-> list_orphan_file_ids_for_conversation(c)]]
    /\ UNCHANGED <<browser, store, conv, refs, outbox, told, cleanup, job, history>>

delete_conversation ==
  \E c \in Convs :
    /\ drop[c].step = "listed"
    /\ conv' = [conv EXCEPT ![c] = "deleted"]
    /\ refs' = [refs EXCEPT ![c] = {}]
    /\ drop' = [drop EXCEPT ![c].step = "committed"]
    /\ UNCHANGED <<plan, browser, store, outbox, told, cleanup, job, history>>

Event(names) == IF names = {} THEN {} ELSE {[names |-> names, nth |-> 1]}

(* dispatch_event: to NATS, or to the outbox when that fails.              *)
dispatch_event ==
  \E c \in Convs :
    /\ drop[c].step = "committed"
    /\ \/ queue' = queue \cup Event(drop[c].files) /\ UNCHANGED <<plan, outbox, told>>
       \/ /\ Spend("nats")
          /\ outbox' = outbox \cup ({drop[c].files} \ {{}}) /\ told' = TRUE
          /\ UNCHANGED queue
    /\ drop' = [drop EXCEPT ![c].step = "announced"]
    /\ UNCHANGED <<browser, store, conv, refs, hand, job, history>>

(* The process dies first, or the insert into the outbox fails as well.    *)
AnnouncementIsLost ==
  \E c \in Convs :
    /\ drop[c].step = "committed" /\ Spend("die")
    /\ drop' = [drop EXCEPT ![c] = [step |-> "announced", files |-> {}]]
    /\ UNCHANGED <<browser, store, conv, refs, outbox, told, cleanup, job, history>>

(* The page leaves a conversation that is gone, unless the answer got lost. *)
DeletionLands ==
  \E c \in Convs :
    /\ drop[c].step = "announced"
    /\ drop' = [drop EXCEPT ![c].step = "answered"]
    /\ \/ /\ page' = IF page.conv = c THEN Leaves(page, None) ELSE page
          /\ posts' = IF page.conv = c THEN Unawaited ELSE posts
          /\ UNCHANGED plan
       \/ Spend("lose") /\ UNCHANGED <<page, posts>>
    /\ UNCHANGED <<upload, removal, store, conv, refs, outbox, told, cleanup, job, history>>

(* One row of a batch; what cannot be published stays.                     *)
drain_outbox_batch ==
  \E names \in outbox :
    /\ queue' = queue \cup Event(names)
    /\ outbox' = outbox \ {names}
    /\ UNCHANGED <<plan, browser, store, conv, refs, drop, told, hand, job, history>>

-----------------------------------------------------------------------------
(* file-service's cleanup consumer.  An event that is due twice in the same *)
(* words is one: the second does what the first left.                      *)

Again(h) ==
  /\ queue' = queue \cup (IF h.nth < MaxDeliver THEN {[names |-> h.names, nth |-> h.nth + 1]} ELSE {})
  /\ gaveUp' = IF h.nth < MaxDeliver THEN gaveUp ELSE gaveUp \cup h.names
  /\ UNCHANGED <<pressed, late>>

NextFile(h) ==
  IF h.names \ h.done = {} THEN [h EXCEPT !.step = "done"]
  ELSE [h EXCEPT !.step = "select", !.file = CHOOSE f \in h.names \ h.done : TRUE]

Fetch ==
  \E w \in Workers, m \in queue :
    /\ hand[w] = Free
    /\ queue' = queue \ {m}
    /\ hand' = [hand EXCEPT ![w] = NextFile([names |-> m.names, nth |-> m.nth, done |-> {}, file |-> None, step |-> "next"])]
    /\ UNCHANGED <<plan, browser, store, chat, job, history>>

processConversationDeleted ==
  \E w \in Workers, s1 \in Ends :
    LET h == hand[w]
    IN /\ h.step \in Deleting
       /\ softDeleteFile(h.file, h.step, s1)
       /\ hand' = [hand EXCEPT ![w] = IF s1 \in {"ok", "gone"} THEN NextFile([h EXCEPT !.done = @ \cup {h.file}])
                                      ELSE [h EXCEPT !.step = s1]]
       /\ UNCHANGED <<plan, browser, born, old, chat, queue, job, history>>

Acks ==
  \E w \in Workers :
    /\ hand[w].step = "done"
    /\ hand' = [hand EXCEPT ![w] = Free]
    /\ UNCHANGED <<plan, browser, store, chat, queue, job, history>>

(* A plausible slip: a failure is logged and the event acknowledged.       *)
ackAnyway ==
  \E w \in Workers :
    /\ hand[w].step \in Deleting /\ Spend("fail")
    /\ hand' = [hand EXCEPT ![w] = Free]
    /\ UNCHANGED <<browser, store, chat, queue, job, history>>

(* Storage or database fails: nak, or on the last delivery the DLQ; an      *)
(* exception there and the death of the process leave it to the ack wait.  *)
CleanupFails ==
  \E w \in Workers :
    /\ hand[w].step \in Deleting /\ Spend("fail")
    /\ Again(hand[w])
    /\ hand' = [hand EXCEPT ![w] = Free]
    /\ UNCHANGED <<browser, store, chat, job>>

(* The ack wait ends while the consumer is still at work.                  *)
AckWaitEnds ==
  \E w \in Workers :
    /\ hand[w] # Free /\ Spend("slow")
    /\ Again(hand[w])
    /\ UNCHANGED <<browser, store, chat, hand, job>>

-----------------------------------------------------------------------------
(* run_reconcile, which somebody starts about daily.  It sees the owner if *)
(* a conversation is left or an event of a deleted one passed through the  *)
(* outbox.                                                                 *)

ScansOwner == told \/ \E c \in Convs : conv[c] = "alive"
Listed == Reverse(SelectSeq(born, Live))
Smaller(m, n) == IF m < n THEN m ELSE n

(* A plausible slip: the age of a file is not looked at.                   *)
startWithAll ==
  /\ job = Asleep /\ ScansOwner
  /\ job' = [Asleep EXCEPT !.step = "list", !.cut = Files]
  /\ UNCHANGED <<plan, browser, store, chat, cleanup, history>>

scan_orphan_files ==
  /\ job = Asleep /\ ScansOwner
  /\ job' = [Asleep EXCEPT !.step = "list", !.cut = old]
  /\ UNCHANGED <<plan, browser, store, chat, cleanup, history>>

list_files_for_owner ==
  /\ job.step = "list"
  /\ LET upTo == Smaller(job.off + PageLimit, Len(Listed))
         got == {Listed[i] : i \in job.off + 1 .. upTo}
         over == upTo >= Len(Listed) \/ got = {}
     IN job' = [job EXCEPT !.off = @ + Cardinality(got), !.found = @ \cup (got \cap job.cut),
                           !.step = IF over THEN "check" ELSE "list"]
  /\ UNCHANGED <<plan, browser, store, chat, cleanup, history>>

_is_file_referenced ==
  /\ job.step = "check"
  /\ \E f \in job.found :
       job' = [job EXCEPT !.found = @ \ {f}, !.orphans = IF Referenced(f) THEN @ ELSE @ \cup {f}]
  /\ UNCHANGED <<plan, browser, store, chat, cleanup, history>>

JobPublishes ==
  /\ job.step = "check" /\ job.found = {}
  /\ queue' = queue \cup Event(job.orphans)
  /\ job' = Asleep
  /\ UNCHANGED <<plan, browser, store, chat, hand, history>>

(* A list or a publish that fails, or the end of the process.              *)
JobFails ==
  /\ job # Asleep /\ Spend("die")
  /\ job' = Asleep
  /\ UNCHANGED <<browser, store, chat, cleanup, history>>

-----------------------------------------------------------------------------
(* A day passes over a file.  An upload does not take that long: what the   *)
(* SAS URL allows are minutes.                                             *)
Age ==
  \E f \in Files :
    /\ row[f] # "none" /\ f \notin old /\ upload[f] = "none" /\ Spend("age")
    /\ old' = old \cup {f}
    /\ UNCHANGED <<browser, row, blob, born, chat, cleanup, job, history>>

Next ==
  \/ onFileInputChange \/ uploadOneLocalFile \/ UploadFails
  \/ removeAttachment \/ RemovalRuns \/ RemovalFails \/ RemovalLands
  \/ send \/ SwitchThread \/ post_message \/ PostLands \/ PostIsLost
  \/ executeDelete \/ delete_conversation \/ dispatch_event \/ AnnouncementIsLost \/ DeletionLands \/ drain_outbox_batch
  \/ Fetch \/ processConversationDeleted \/ Acks \/ CleanupFails \/ AckWaitEnds
  \/ scan_orphan_files \/ list_files_for_owner \/ _is_file_referenced \/ JobPublishes \/ JobFails
  \/ Age

Spec == Init /\ [][Next]_vars

(* The consumers run, the API's outbox loop polls, and the job is started  *)
(* again and again, about daily as chatbot-service's README.md:152 has it. *)
(* Nothing makes a person send or remove, and nothing makes a request fail. *)
FairSpec ==
  /\ Spec
  /\ WF_vars(Fetch) /\ WF_vars(processConversationDeleted) /\ WF_vars(Acks)
  /\ WF_vars(drain_outbox_batch) /\ WF_vars(dispatch_event)
  /\ WF_vars(scan_orphan_files) /\ WF_vars(list_files_for_owner)
  /\ WF_vars(_is_file_referenced) /\ WF_vars(JobPublishes)

-----------------------------------------------------------------------------
(* What a message refers to can be opened: neither the cleanup of another  *)
(* conversation nor the daily job took it - unless the user removed it      *)
(* while it was on its way, or kept it in the composer for a day           *)
(* (scan_orphan_files' minimum age, _is_file_referenced).                  *)
SentFilesAreWhole ==
  \A f \in Files : Referenced(f) /\ f \notin pressed \cup late => row[f] = "uploaded" /\ blob[f]

(* What nobody refers to is gone in the end, row and blob: uploads that     *)
(* failed, files never sent, those of a conversation whose event was lost,  *)
(* deletions that stopped half-way, where the row must be left to find the *)
(* blob by - as long as the job sees their owner at all (softDeleteFile,   *)
(* scan_orphan_files, _owner_ids_to_scan).                                 *)
Orphaned(f) == (Live(f) \/ blob[f]) /\ f \in old /\ ~Referenced(f)
OrphansGo == \A f \in Files : Orphaned(f) ~> ~Orphaned(f) \/ ~ScansOwner

(* The files of a deleted conversation go without waiting for the job, once *)
(* its event is published or in the outbox and while its deliveries last    *)
(* (dispatch_event, drain_outbox_batch, handleMessage).                    *)
Announced(f) == \E c \in Convs : drop[c].step \in {"announced", "answered"} /\ f \in drop[c].files
AnnouncedFilesGo == \A f \in Files : Announced(f) ~> ~Live(f) \/ f \in gaveUp

-----------------------------------------------------------------------------
(* Not so in the code: the row that leaves the composer is the one whose     *)
(* button was pressed (removeAttachment filters by an index taken before    *)
(* the answer).                                                            *)
RemovalTakesItsRow ==
  [][\A r \in Removals : removal[r].step = "ok" /\ removal'[r] = Idle /\ RowOf(removal[r].file) # 0
        => page'.rows = RemoveAt(page.rows, RowOf(removal[r].file))]_vars
=============================================================================
