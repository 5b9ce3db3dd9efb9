------------------------------- MODULE MCChat -------------------------------
(* Two conversations, what this tab and the others send, and what each      *)
(* exploration dwells on.                                                   *)
EXTENDS ChatStore, TLC

CONSTANTS c1, c2, mine1, theirs1, theirs2

MCHome == [m \in Msgs |-> IF m = theirs2 THEN c2 ELSE c1]

Still == [msgs |-> {}, loads |-> 1, opens |-> 0, lists |-> 0, faults |-> 0, cuts |-> 0,
          blurs |-> FALSE]

\* a message of this tab among screens that open and close
Sending == [Still EXCEPT !.msgs = {mine1}, !.opens = 2]
Failing == [Still EXCEPT !.msgs = {mine1}, !.opens = 1, !.faults = 1]
\* frames against pages on a screen
Reading == [Still EXCEPT !.msgs = {mine1, theirs1}, !.opens = 1]
\* messages in two conversations, one of them open
TwoTalks == [Still EXCEPT !.msgs = {theirs1, theirs2}, !.opens = 1]
\* lists and opens while requests fail
Listing == [Still EXCEPT !.msgs = {theirs1}, !.opens = 1, !.lists = 1, !.faults = 1]
\* two screens load one thread
Marking == [Still EXCEPT !.msgs = {theirs1}, !.loads = 2, !.opens = 2]
\* screens swapped across a reconnect
Swapping == [Still EXCEPT !.opens = 3, !.cuts = 1]
\* a person who comes and goes, with the connection or while a request fails
Restless == [Still EXCEPT !.msgs = {theirs1}, !.opens = 1, !.cuts = 1, !.blurs = TRUE]
Distracted == [Restless EXCEPT !.cuts = 0, !.faults = 1]
\* requests that fail across a reconnect
Absent == [Restless EXCEPT !.faults = 1, !.blurs = FALSE]

\* a mark that fails, and the thread opened again
MCReopening == {[Listing EXCEPT !.opens = 2, !.lists = 0]}

MCBudgets == {Sending, Failing, Reading, TwoTalks, Listing, Marking, Swapping, Restless, Distracted, Absent}
=============================================================================
