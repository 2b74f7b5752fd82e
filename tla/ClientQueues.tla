---------------------------- MODULE ClientQueues ----------------------------
(***************************************************************************)
(* The sessions of a Client, each seen as the RequestQueue that module     *)
(* Session is proved to implement.  Client keeps no record of which        *)
(* session answered what: the history variable past adds it, and restricts *)
(* nothing.                                                                *)
(***************************************************************************)
EXTENDS Client

VARIABLE past    \* what each session refused, and what it replied, in order

pastVars == <<vars, past>>

Nothing == [refused |-> {}, replies |-> <<>>]
Past(i) == IF i \in DOMAIN past THEN past[i] ELSE Nothing

\* Before it is made a session is a queue that nothing was pushed to.
Accepting(i) == i \in DOMAIN sessions => sessions[i].running

\* The tasks of a session without an answered head.
Unanswered(s) == IF s.answered THEN Tail(s.tasks) ELSE s.tasks

Waiting(i) == IF i \in DOMAIN sessions THEN Unanswered(sessions[i]) ELSE <<>>

-----------------------------------------------------------------------------
\* The code a step calls the handler of f with.
Told(f) == answers'[f][Len(answers'[f])]

\* A fetch answered as it comes out of the inbox never was a task.
RefusedNow(i) ==
    {f \in Fetches : /\ i \in DOMAIN sessions /\ sessions[i].inbox # <<>>
                     /\ f = Head(sessions[i].inbox)
                     /\ answers'[f] # answers[f]}

\* The tasks that a step takes from the front are answered by it.
RepliedNow(i) ==
    [k \in 1 .. Len(Waiting(i)) - Len(Waiting(i)') |->
        [req |-> Waiting(i)[k], ec |-> Told(Waiting(i)[k])]]

Remember ==
    past' = [i \in DOMAIN sessions' |->
               [refused |-> Past(i).refused \cup RefusedNow(i),
                replies |-> Past(i).replies \o RepliedNow(i)]]

PastInit == Init /\ past = <<>>
PastNext == Next /\ Remember
PastSpec == PastInit /\ [][PastNext]_pastVars

FairPastSpec == PastSpec /\ Fairness

Queue(i) == INSTANCE RequestQueue
            WITH Requests <- Fetches, accepting <- Accepting(i), queue <- Waiting(i),
                 refused <- Past(i).refused, replies <- Past(i).replies

(***************************************************************************)
(* Every session of the pool behaves as RequestQueue, whatever the client  *)
(* sends it and however many sessions there are: what Session is shown to  *)
(* implement is what the client stands on.                                 *)
(***************************************************************************)
SessionsAreQueues ==
    [][\A i \in DOMAIN sessions' : [Queue(i)!Next]_(Queue(i)!vars)]_pastVars

=============================================================================
