----------------------------- MODULE EventList ------------------------------
(***************************************************************************)
(* The events page over the event store: its filter, order and page size,  *)
(* the numbered pages, the walk past the count's cap by cursor, and the    *)
(* one list request in flight.                                             *)
(***************************************************************************)
EXTENDS EventStore, Sequences

CONSTANTS Filters, PageSizes, CountCap

ASSUME ListSizes == PageSizes \subseteq Nat \ {0} /\ PageSizes # {} /\ CountCap \in Nat

VARIABLES list,   \* the signals of the page
          url,    \* the filter, order and offset of the address bar
          req     \* the list request in flight, as far as the service got

vars == <<store, list, url, req>>
asc == "asc"
desc == "desc"

(***************************************************************************)
(* The query (queryEvents).  after is None or a cursor [at, id]: the time  *)
(* of a row cut to the millisecond, and its id.                            *)
(***************************************************************************)
Precedes(a, b) == \/ a.at < b.at
                  \/ a.at = b.at /\ a.us < b.us
                  \/ a.at = b.at /\ a.us = b.us /\ a.id < b.id
InOrder(order, a, b) == IF order = asc THEN Precedes(a, b) ELSE Precedes(b, a)
encodeCursor(e) == [at |-> e.at, id |-> e.id]
ASSUME NoneIsNoCursor == \A e \in Events : encodeCursor(e) # None
Position(c) == [at |-> c.at, us |-> 0, id |-> c.id]

Matching(q) == {e \in rows : q.filter \in {None, e.type}}
countCapped(q) == [total |-> Min({Cardinality(Matching(q)), CountCap}),
                   capped |-> Cardinality(Matching(q)) > CountCap]

Candidates(q) == IF q.after = None THEN Matching(q)
                 ELSE {e \in Matching(q) : InOrder(q.order, Position(q.after), e)}
Rank(e, S, order) == Cardinality({x \in S : InOrder(order, x, e)})
Slice(q, n) == LET S == Candidates(q)
                   skip == IF q.after = None THEN q.offset ELSE 0
               IN {e \in S : Rank(e, S, q.order) \in skip .. skip + n - 1}
LastOf(S, order) == CHOOSE e \in S : \A x \in S : x = e \/ InOrder(order, x, e)
(* Mutant: the cursor is taken from the extra row that tells of more.      *)
cursorOfExtra(q) == IF Slice(q, q.size + 1) = Slice(q, q.size) THEN None
                    ELSE encodeCursor(LastOf(Slice(q, q.size + 1), q.order))
nextCursor(q) == IF Slice(q, q.size + 1) = Slice(q, q.size) THEN None
                 ELSE encodeCursor(LastOf(Slice(q, q.size), q.order))

(***************************************************************************)
(* The page.                                                               *)
(***************************************************************************)
Top(stack) == IF stack = <<>> THEN None ELSE stack[Len(stack)]
Query(l) == [filter |-> l.filter, order |-> l.order, offset |-> l.offset, size |-> l.size, after |-> Top(l.stack)]
cursorMode == list.stack # <<>>
pageCount == Max({1, (list.total + list.size - 1) \div list.size})
currentPage == Min({pageCount, list.offset \div list.size + 1})

(* edited: a filter input was changed since the address was last written;  *)
(* answered: the query the rows answer; over: the table it was read from;  *)
(* behind: the rows Next was pressed on.                                   *)
Page(u) == [filter |-> u.filter, order |-> u.order, offset |-> u.offset, size |-> Min(PageSizes),
            rows |-> {}, total |-> 0, capped |-> FALSE, stack |-> <<>>, next |-> None,
            loading |-> FALSE, error |-> FALSE, edited |-> FALSE, answered |-> None, over |-> {}, behind |-> {}]
NoRequest == [pc |-> "none", q |-> None, count |-> None, rows |-> {}, next |-> None]

(* Loading: the trigger raises the flag, then drops the request before,    *)
(* whose end lowers it.  Only the last request's answer is heard.          *)
loadList(l) ==
  /\ list' = [l EXCEPT !.loading = (req.pc = "none"), !.error = FALSE]
  /\ req' = [NoRequest EXCEPT !.pc = "asked", !.q = Query(l)]
(* Mutant: the page's number is left out of the address.                   *)
UrlWithoutPage(l) == url' = [filter |-> l.filter, order |-> l.order, offset |-> url.offset]
syncUrl(l) == url' = [filter |-> l.filter, order |-> l.order, offset |-> l.offset]
Reload(l) == loadList([l EXCEPT !.edited = FALSE, !.behind = {}]) /\ syncUrl(l)
Moves == May("move") /\ left' = Drift("move", 1) /\ UNCHANGED <<now, parts, rows, stream, letters, dlq, up, job, replay, upkept, gone, seq>>

(* The inputs write the signals the next request reads.                    *)
Edit(f) ==
  /\ Moves /\ f # list.filter
  /\ list' = [list EXCEPT !.filter = f, !.edited = TRUE]
  /\ UNCHANGED <<url, req>>

FirstPage(l) == [l EXCEPT !.stack = <<>>, !.offset = 0]
search == Moves /\ ~list.loading /\ Reload(FirstPage(list))
clearFilters == Moves /\ ~list.loading /\ Reload([FirstPage(list) EXCEPT !.filter = None])
removeActiveFilter == Moves /\ list.filter # None /\ Reload([FirstPage(list) EXCEPT !.filter = None])
onTableSort == Moves /\ Reload([FirstPage(list) EXCEPT !.order = IF @ = asc THEN desc ELSE asc])

(* The paginator: a number or an arrow, and the size, which keeps the      *)
(* first visible record.                                                   *)
onPageChange(offset, size) ==
  Moves /\ ~list.loading /\ Reload([list EXCEPT !.stack = <<>>, !.offset = offset, !.size = size])
goToPage(p) == ~cursorMode /\ p \in 1 .. pageCount \ {currentPage} /\ onPageChange((p - 1) * list.size, list.size)
onSizeChange(s) == s # list.size /\ onPageChange((list.offset \div s) * s, s)

isCrossingTheCap == list.capped /\ list.next # None /\ currentPage >= pageCount
CursorNext ==
  /\ Moves /\ ~list.loading
  /\ list.next # None /\ (cursorMode \/ isCrossingTheCap)
  /\ loadList([list EXCEPT !.stack = Append(@, list.next), !.behind = list.rows])
  /\ UNCHANGED url
CursorPrev ==
  /\ Moves /\ ~list.loading /\ cursorMode
  /\ loadList([list EXCEPT !.stack = SubSeq(@, 1, Len(@) - 1), !.behind = {}])
  /\ UNCHANGED url
CursorFirst == Moves /\ ~list.loading /\ cursorMode /\ Reload(FirstPage(list))
onCursorMove == CursorNext \/ CursorPrev \/ CursorFirst

(* A reload of the tab: the page is made anew from the address.            *)
ngOnInit ==
  /\ Moves
  /\ list' = [Page(url) EXCEPT !.loading = TRUE]
  /\ req' = [NoRequest EXCEPT !.pc = "asked", !.q = Query(Page(url))]
  /\ UNCHANGED url

(***************************************************************************)
(* The request: the count, then the rows, two reads of the table.          *)
(***************************************************************************)
Counts ==
  /\ up /\ req.pc = "asked"
  /\ req' = [req EXCEPT !.pc = "counted", !.count = countCapped(req.q)]
  /\ UNCHANGED <<store, list, url>>
Lists ==
  /\ up /\ req.pc = "counted"
  /\ req' = [req EXCEPT !.pc = "answered", !.rows = Slice(req.q, req.q.size), !.next = nextCursor(req.q)]
  /\ list' = [list EXCEPT !.over = rows]
  /\ UNCHANGED <<store, url>>
queryEvents == Counts \/ Lists

AnswerLands ==
  /\ req.pc = "answered"
  /\ list' = [list EXCEPT !.rows = req.rows, !.total = req.count.total, !.capped = req.count.capped,
                          !.next = req.next, !.loading = FALSE, !.answered = req.q]
  /\ req' = NoRequest
  /\ UNCHANGED <<store, url>>

RequestFails ==
  /\ req.pc # "none" /\ May("fault")
  /\ left' = Drift("fault", 1)
  /\ list' = [list EXCEPT !.loading = FALSE, !.error = TRUE]
  /\ req' = NoRequest
  /\ UNCHANGED <<now, parts, rows, stream, letters, dlq, up, job, replay, upkept, gone, seq, url>>

-----------------------------------------------------------------------------
Address == [filter |-> None, order |-> desc, offset |-> 0]
Init ==
  /\ StoreInit
  /\ url = Address
  /\ IF May("move") THEN /\ list = [Page(Address) EXCEPT !.loading = TRUE]
                         /\ req = [NoRequest EXCEPT !.pc = "asked", !.q = Query(Page(Address))]
     ELSE list = Page(Address) /\ req = NoRequest     \* nobody has the page open

PageNext ==
  \/ \E f \in Filters : Edit(f)
  \/ search \/ clearFilters \/ removeActiveFilter \/ onTableSort
  \/ \E p \in 1 .. CountCap : goToPage(p)
  \/ \E s \in PageSizes : onSizeChange(s)
  \/ onCursorMove \/ ngOnInit
  \/ queryEvents \/ AnswerLands \/ RequestFails

Next == (StoreNext /\ UNCHANGED <<list, url, req>>) \/ PageNext
Spec == Init /\ [][Next]_vars

-----------------------------------------------------------------------------
AtRest == req.pc = "none" /\ ~list.error /\ list.answered # None

(* At rest the page is of one mind: nothing is disabled, the rows answer   *)
(* the filter, order, page and cursor on screen, and the address leads     *)
(* back to them, whatever requests overlapped; unless a filter is being    *)
(* edited (loadListTrigger$, syncUrl).                                     *)
ListAgrees ==
  AtRest => /\ ~list.loading
            /\ ~list.edited => /\ list.answered = Query(list)
                               /\ url = [filter |-> list.filter, order |-> list.order, offset |-> list.offset]

Beyond(c, q) == {e \in list.over : q.filter \in {None, e.type} /\ InOrder(q.order, c, e)}
UpTo(S, l, q) == IF l = {} THEN S ELSE {e \in S : ~InOrder(q.order, LastOf(l, q.order), e)}

(* The walk past the cap skips nothing: once Next has answered, each row   *)
(* between the last one of the page it was pressed on and the last one on  *)
(* screen is on screen, be the table changing the while; and a page that   *)
(* promises no next is the last.  Rows of the millisecond the page before  *)
(* ended in are excepted (MillisecondIsWalked).                            *)
WalkMissesNothing ==
  AtRest /\ list.behind # {} =>
    LET q == list.answered
        c == LastOf(list.behind, q.order)
        end == IF list.next = None THEN {} ELSE list.rows
    IN \A e \in UpTo(Beyond(c, q), end, q) : e.at = c.at \/ e \in list.rows

(* query.ts: the cursor returns "the rows strictly after this one in the   *)
(* sort order".                                                            *)
MillisecondIsWalked ==
  AtRest /\ list.behind # {} =>
    LET q == list.answered
    IN UpTo(Beyond(LastOf(list.behind, q.order), q), list.rows, q) \subseteq list.rows

(* search: "A cursor is a position in one result set; changing the filter  *)
(* makes a different one, and carrying it over would page into nothing."   *)
CursorFitsFilter == cursorMode /\ AtRest => list.answered.filter = url.filter
=============================================================================
