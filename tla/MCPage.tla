------------------------------- MODULE MCPage -------------------------------
(* Small instances of ChatPage: one per question, checked in one run.      *)
EXTENDS ChatPage, TLC

CONSTANTS c1, c2, c3

User(n) == [role |-> "user", n |-> n, failed |-> FALSE]
Reply(n) == [role |-> "reply", n |-> n, failed |-> FALSE]
Failure(n) == [role |-> "reply", n |-> n, failed |-> TRUE]
Idle == [x \in Acts |-> 0]
Do(some) == some @@ Idle
Empty == [c \in Convs |-> <<>>]

Plan(left, history, queued, url) == [left |-> Do(left), history |-> history @@ Empty, queued |-> queued, url |-> url]

(* A new chat, and another one; the address follows.                       *)
Begin == {Plan(("send" :> 2) @@ ("new" :> 1) @@ ("lose" :> 1), Empty, FALSE, None),
          Plan(("send" :> 1) @@ ("select" :> 1) @@ ("browse" :> 2), c2 :> <<User(2), Reply(2)>>, FALSE, None)}

(* A reply is under way in c1: it is seen, left, seen again.               *)
Underway == (c1 :> <<User(1)>>) @@ (c2 :> <<User(2), Reply(2)>>)
Leave == {Plan(("select" :> 2) @@ ("send" :> 1) @@ x, Underway, TRUE, c1)
            : x \in {"lose" :> 1, "crash" :> 1, "provider" :> 1}}
Back == {Plan(("browse" :> 2) @@ ("provider" :> 1) @@ ("select" :> 1), Underway, TRUE, c1)}

(* The last reply failed, or the next one does: try again.                 *)
Retries == {Plan(("retry" :> 2) @@ ("provider" :> 1) @@ x, c1 :> <<User(1), Failure(1)>>, FALSE, c1)
              : x \in {"lose" :> 1, "crash" :> 1, "redis" :> 1, ("select" :> 0) @@ ("new" :> 1) @@ ("browse" :> 1)}}

(* A long thread, read back while its end moves.                           *)
Long == {Plan(("older" :> 2) @@ ("send" :> 1) @@ ("lose" :> 1),
              c1 :> <<User(1), Reply(1), User(2), Reply(2), User(3)>>, TRUE, c1),
         Plan(("older" :> 2) @@ ("retry" :> 1) @@ ("select" :> 1),
              (c1 :> <<User(1), Reply(1), User(2), Failure(2)>>) @@ (c2 :> <<User(3)>>), FALSE, c1)}

(* The thread is deleted under all this.                                   *)
Deletes == {Plan(("delete" :> 1) @@ ("send" :> 1) @@ ("select" :> 1) @@ ("lose" :> 1), Underway, TRUE, c1)}

(* What the README's section on the code's promises refers to: a failed     *)
(* reply put back while an older page comes, and one tried again in a       *)
(* thread whose newest message the page has not seen.                      *)
MCPutBack == {Plan(("older" :> 1) @@ ("retry" :> 1) @@ ("lose" :> 1),
                   c1 :> <<User(1), Reply(1), User(2), Failure(2)>>, FALSE, c1)}
MCUnseen == {Plan(("send" :> 1) @@ ("select" :> 2) @@ ("retry" :> 1),
                  (c1 :> <<User(1), Failure(1)>>) @@ (c2 :> <<User(2), Reply(2)>>), FALSE, c1)}

MCPlans == Begin \cup Leave \cup Back \cup Retries \cup Long \cup Deletes
=============================================================================
