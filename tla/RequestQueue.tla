---------------------------- MODULE RequestQueue ---------------------------
(***************************************************************************)
(* What a session promises the callers of push_request, with no transport, *)
(* strand or timer: a queue that answers its requests one by one from the  *)
(* front.  While it accepts, the front request is served; one that fails   *)
(* closes the queue.  A closed queue refuses new requests and aborts the   *)
(* ones it holds, and reopens only when it is empty.                       *)
(***************************************************************************)
EXTENDS Sequences, Naturals

CONSTANT Requests

VARIABLES
    accepting,  \* are new requests taken?
    queue,      \* accepted and not yet answered, oldest first
    refused,    \* requests refused on submission
    replies     \* answers given to accepted requests, oldest first

vars == <<accepting, queue, refused, replies>>

Reply(r, ec) == [req |-> r, ec |-> ec]

Known == {queue[i] : i \in DOMAIN queue} \cup refused
         \cup {replies[i].req : i \in DOMAIN replies}

Init ==
    /\ accepting = TRUE
    /\ queue = <<>>
    /\ refused = {}
    /\ replies = <<>>

Submit(r) ==
    /\ accepting
    /\ r \notin Known
    /\ queue' = Append(queue, r)
    /\ UNCHANGED <<accepting, refused, replies>>

Refuse(r) ==
    /\ ~accepting
    /\ r \notin Known
    /\ refused' = refused \cup {r}
    /\ UNCHANGED <<accepting, queue, replies>>

\* The front request is answered with ec and leaves the queue.
AnswerFront(ec) ==
    /\ queue # <<>>
    /\ replies' = Append(replies, Reply(Head(queue), ec))
    /\ queue' = Tail(queue)
    /\ UNCHANGED refused

Serve == accepting /\ AnswerFront("ok") /\ UNCHANGED accepting
Fail == accepting /\ AnswerFront("error") /\ accepting' = FALSE
AbortFront == ~accepting /\ AnswerFront("aborted") /\ UNCHANGED accepting

AbortAll ==
    /\ ~accepting
    /\ queue # <<>>
    /\ replies' = replies \o [i \in 1 .. Len(queue) |-> Reply(queue[i], "aborted")]
    /\ queue' = <<>>
    /\ UNCHANGED <<accepting, refused>>

Close ==
    /\ accepting' = FALSE
    /\ UNCHANGED <<queue, refused, replies>>

Reopen ==
    /\ queue = <<>>
    /\ accepting' = TRUE
    /\ UNCHANGED <<queue, refused, replies>>

Answer == Serve \/ Fail \/ AbortFront \/ AbortAll

Next ==
    \/ \E r \in Requests : Submit(r) \/ Refuse(r)
    \/ Answer
    \/ Close
    \/ Reopen

Spec == Init /\ [][Next]_vars

\* A queue that holds a request keeps answering.
Fairness == WF_vars(Answer)

=============================================================================
