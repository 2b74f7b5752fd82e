------------------------------ MODULE Session ------------------------------
(***************************************************************************)
(* fetchpp::session: a FIFO of requests sent one at a time over one        *)
(* transport, connected on demand, retried once after an I/O error, and    *)
(* stopped by async_stop.  Every handler below runs on the session's       *)
(* strand, so each action is one uninterrupted handler; what interleaves   *)
(* is the order in which posted jobs, I/O completions, timers and the      *)
(* callers' push / start / stop reach the strand.                          *)
(*                                                                         *)
(* The transport is seen through TransportContract: what its operations    *)
(* may answer, and how they leave it.                                      *)
(***************************************************************************)
EXTENDS Naturals, Sequences, TransportContract

CONSTANTS
    Requests,        \* the calls of push_request, each made at most once
    Starts,          \* the calls of async_start
    Stops,           \* the calls of async_stop
    OverlappingStops \* may a caller stop a session that is being stopped?

ASSUME OverlapAssumption == OverlappingStops \in BOOLEAN

VARIABLES
    running,     \* session_base::is_running_
    tasks,       \* session_base::tasks_, the head being the one worked on
    posted,      \* process_task / advance_task jobs posted to the strand
    opPc,        \* where the process_queue_op of each task stands
    firstRound,  \* process_queue_op::first_round_
    lastEc,      \* process_queue_op::last_ec_
    tr,          \* the transport, as the session sees it
    startPc,     \* where each start_op stands
    stopPc,      \* where each stop_op stands
    stopEc,      \* the code each stop_op gave its handler
    accepted,    \* history: requests pushed while running, in push order
    rejected,    \* history: requests push_op aborted at once
    replies,     \* history: handler calls of accepted requests, in order
    attempts,    \* history: how often each request was put on the wire
    served       \* history: requests whose response was read to the end

opVars      == <<opPc, firstRound, lastEc>>
callerVars  == <<startPc, stopPc, stopEc>>
historyVars == <<accepted, rejected, replies, attempts, served>>
vars == <<running, tasks, posted, opVars, tr, callerVars, historyVars>>

-----------------------------------------------------------------------------
StrandJob == {"process_task", "advance_task"}

OpState == {"idle", "connect", "process", "closing", "close_posted", "retry"}
StartState == {"idle", "connect", "done"}
StopState == {"idle", "closing", "close_posted",
              "waiting", "cancelled", "expired", "done"}

-----------------------------------------------------------------------------
Init ==
    /\ running = TRUE
    /\ tasks = <<>>
    /\ posted = <<>>
    /\ opPc = [r \in Requests |-> "idle"]
    /\ firstRound = [r \in Requests |-> TRUE]
    /\ lastEc = [r \in Requests |-> "ok"]
    /\ tr \in {NewTransport(p) : p \in BOOLEAN}
    /\ startPc = [s \in Starts |-> "idle"]
    /\ stopPc = [s \in Stops |-> "idle"]
    /\ stopEc = [s \in Stops |-> "none"]
    /\ accepted = <<>>
    /\ rejected = {}
    /\ replies = <<>>
    /\ attempts = [r \in Requests |-> 0]
    /\ served = {}

Pushed == {accepted[i] : i \in DOMAIN accepted} \cup rejected
Starting == \E s \in Starts : startPc[s] = "connect"
Stopping == \E s \in Stops : stopPc[s] \notin {"idle", "done"}
Reply(r, ec) == [req |-> r, ec |-> ec]

(***************************************************************************)
(* push_op.  Callers wait for async_start to answer before they push: a    *)
(* push during it would put a second operation on a connecting socket.     *)
(***************************************************************************)
Push(r) ==
    /\ r \notin Pushed
    /\ ~Starting
    /\ \/ /\ ~running
          /\ rejected' = rejected \cup {r}
          /\ UNCHANGED <<tasks, posted, accepted>>
       \/ /\ running
          /\ tasks' = Append(tasks, r)
          /\ accepted' = Append(accepted, r)
          /\ posted' = IF Len(tasks') = 1 THEN Append(posted, "process_task")
                                          ELSE posted
          /\ UNCHANGED rejected
    /\ UNCHANGED <<running, opVars, tr, callerVars, replies, attempts, served>>

\* Faulty variant: the handler is posted, the queue is not advanced.
FaultyComplete(r, ec, rest) ==
    /\ replies' = Append(replies, Reply(r, ec))
    /\ posted' = rest
    /\ opPc' = [opPc EXCEPT ![r] = "idle"]

(***************************************************************************)
(* process_queue_op::complete: the handler is posted, then advance_task.   *)
(* rest is what the strand still holds when the op runs.                   *)
(***************************************************************************)
Complete(r, ec, rest) ==
    /\ replies' = Append(replies, Reply(r, ec))
    /\ posted' = Append(rest, "advance_task")
    /\ opPc' = [opPc EXCEPT ![r] = "idle"]

(***************************************************************************)
(* process_queue_op::operator() entered at its top: connect if the socket  *)
(* is not open, else send the request.                                     *)
(***************************************************************************)
RunOp(r, rest) ==
    \/ /\ ~running
       /\ Complete(r, "aborted", rest)
       /\ UNCHANGED <<tr, attempts>>
    \/ /\ running
       /\ ~tr.open
       /\ tr' = ConnectCall(tr)
       /\ opPc' = [opPc EXCEPT ![r] = "connect"]
       /\ posted' = rest
       /\ UNCHANGED <<replies, attempts>>
    \/ /\ running
       /\ tr.open
       /\ opPc' = [opPc EXCEPT ![r] = "process"]
       /\ attempts' = [attempts EXCEPT ![r] = @ + 1]
       /\ posted' = rest
       /\ UNCHANGED <<tr, replies>>

\* Faulty variant: the job of the strand ends without running the front task.
FaultyRunFront(q, rest) ==
    /\ posted' = rest
    /\ UNCHANGED <<opPc, tr, replies, attempts>>

(***************************************************************************)
(* session_base::process_task on the queue q: run the front task, if any.  *)
(***************************************************************************)
RunFront(q, rest) ==
    \/ /\ q = <<>>
       /\ posted' = rest
       /\ UNCHANGED <<opPc, tr, replies, attempts>>
    \/ /\ q # <<>>
       /\ RunOp(Head(q), rest)

\* process_task as the job push_op posted.
ProcessTask ==
    /\ posted # <<>>
    /\ Head(posted) = "process_task"
    /\ RunFront(tasks, Tail(posted))
    /\ UNCHANGED <<running, tasks, firstRound, lastEc, callerVars,
                   accepted, rejected, served>>

\* timer_.cancel(): every stop_op waiting on the timer is told "aborted".
CancelTimer ==
    stopPc' = [s \in Stops |-> IF stopPc[s] = "waiting" THEN "cancelled"
                                                        ELSE stopPc[s]]

\* Faulty variants: the tasks are dropped, or cancelled with a success code.
FaultyCancelDrops(q) ==
    /\ UNCHANGED replies
    /\ tasks' = <<>>
    /\ CancelTimer

FaultyCancelSucceeds(q) ==
    /\ replies' = replies \o [i \in 1 .. Len(q) |-> Reply(q[i], "ok")]
    /\ tasks' = <<>>
    /\ CancelTimer

\* session_base::cancel_all_tasks over the queue q left by pop_task.
CancelAllTasks(q) ==
    /\ replies' = replies \o [i \in 1 .. Len(q) |-> Reply(q[i], "aborted")]
    /\ tasks' = <<>>
    /\ CancelTimer

(***************************************************************************)
(* session_base::advance_task: pop the answered task, then go on with the  *)
(* next one or, when the session no longer runs, cancel them all.          *)
(***************************************************************************)
AdvanceTask ==
    /\ posted # <<>>
    /\ Head(posted) = "advance_task"
    /\ \/ /\ running
          /\ tasks' = Tail(tasks)
          /\ RunFront(Tail(tasks), Tail(posted))
          /\ UNCHANGED stopPc
       \/ /\ ~running
          /\ CancelAllTasks(Tail(tasks))
          /\ posted' = Tail(posted)
          /\ UNCHANGED <<opPc, tr, attempts>>
    /\ UNCHANGED <<running, firstRound, lastEc, startPc, stopEc,
                   accepted, rejected, served>>

\* The resolver answered: the connecting socket is now open.
Resolved ==
    /\ tr.conn = "resolving"
    /\ tr' = Opened(tr)
    /\ UNCHANGED <<running, tasks, posted, opVars, callerVars, historyVars>>

\* An operation of the transport uses its stream, or shuts it down.
InUse == tr.conn = "connecting" \/ \E r \in Requests : opPc[r] = "process"
ShuttingDown == \/ \E r \in Requests : opPc[r] = "closing"
                \/ \E s \in Stops : stopPc[s] = "closing"

\* A timer of the stream fires: the operations that use it will fail.
LoseSocket ==
    /\ InUse \/ ShuttingDown
    /\ tr.open
    /\ tr' = Dropped(tr)
    /\ UNCHANGED <<running, tasks, posted, opVars, callerVars, historyVars>>

\* Faulty variant: a failed connection leaves the session running.
FaultyConnectDone(r) ==
    /\ opPc[r] = "connect"
    /\ \E res \in ConnectResults(tr) :
        /\ tr' = res.tr
        /\ \/ res.ec # "ok" /\ Complete(r, res.ec, posted) /\ UNCHANGED attempts
           \/ /\ res.ec = "ok"
              /\ opPc' = [opPc EXCEPT ![r] = "process"]
              /\ attempts' = [attempts EXCEPT ![r] = @ + 1]
              /\ UNCHANGED <<posted, replies>>
    /\ UNCHANGED <<running, tasks, firstRound, lastEc, callerVars,
                   accepted, rejected, served>>

(***************************************************************************)
(* process_queue_op resumed by async_transport_connect.                    *)
(***************************************************************************)
ConnectDone(r) ==
    /\ opPc[r] = "connect"
    /\ \E res \in ConnectResults(tr) :
        /\ tr' = res.tr
        /\ \/ /\ ~running \/ res.ec = "aborted"
              /\ Complete(r, "aborted", posted)
              /\ UNCHANGED <<running, attempts>>
           \/ /\ running /\ res.ec = "error"
              /\ running' = FALSE
              /\ Complete(r, res.ec, posted)
              /\ UNCHANGED attempts
           \/ /\ running /\ res.ec = "ok"
              /\ opPc' = [opPc EXCEPT ![r] = "process"]
              /\ attempts' = [attempts EXCEPT ![r] = @ + 1]
              /\ UNCHANGED <<running, posted, replies>>
    /\ UNCHANGED <<tasks, firstRound, lastEc, callerVars,
                   accepted, rejected, served>>

(***************************************************************************)
(* process_queue_op resumed by async_process_one: an error closes the      *)
(* transport before anything else.                                         *)
(***************************************************************************)
ProcessDone(r) ==
    /\ opPc[r] = "process"
    /\ \E res \in ProcessResults(tr) :
        /\ served' = IF res.ec = "ok" THEN served \cup {r} ELSE served
        /\ \/ /\ ~running \/ res.ec = "aborted"
              /\ Complete(r, "aborted", posted)
              /\ tr' = res.tr
              /\ UNCHANGED lastEc
           \/ /\ running /\ res.ec = "ok"
              /\ Complete(r, "ok", posted)
              /\ tr' = res.tr
              /\ UNCHANGED lastEc
           \/ /\ running /\ res.ec = "error"
              /\ lastEc' = [lastEc EXCEPT ![r] = res.ec]
              /\ opPc' = [opPc EXCEPT ![r] = CloseState(res.tr)]
              /\ tr' = CloseCall(res.tr)
              /\ UNCHANGED <<posted, replies>>
    /\ UNCHANGED <<running, tasks, firstRound, callerVars,
                   accepted, rejected, attempts>>

\* Faulty variant: first_round_ is not cleared, every error is retried.
FaultyOpCloseDone(r) ==
    /\ opPc[r] \in {"closing", "close_posted"}
    /\ tr' = CloseEnd(tr, opPc[r])
    /\ \/ ~running /\ Complete(r, "aborted", posted)
       \/ /\ running
          /\ opPc' = [opPc EXCEPT ![r] = "retry"]
          /\ UNCHANGED <<posted, replies>>
    /\ UNCHANGED <<running, tasks, firstRound, lastEc, callerVars,
                   accepted, rejected, attempts, served>>

(***************************************************************************)
(* process_queue_op resumed by async_close: the first round is retried,    *)
(* the second ends the session.                                            *)
(***************************************************************************)
OpCloseDone(r) ==
    /\ opPc[r] \in {"closing", "close_posted"}
    /\ tr' = CloseEnd(tr, opPc[r])
    /\ \/ /\ ~running
          /\ Complete(r, "aborted", posted)
          /\ UNCHANGED <<running, firstRound>>
       \/ /\ running
          /\ firstRound[r]
          /\ firstRound' = [firstRound EXCEPT ![r] = FALSE]
          /\ opPc' = [opPc EXCEPT ![r] = "retry"]
          /\ UNCHANGED <<running, posted, replies>>
       \/ /\ running
          /\ ~firstRound[r]
          /\ running' = FALSE
          /\ Complete(r, lastEc[r], posted)
          /\ UNCHANGED firstRound
    /\ UNCHANGED <<tasks, lastEc, callerVars,
                   accepted, rejected, attempts, served>>

\* the op posted itself for its second round.
Retry(r) ==
    /\ opPc[r] = "retry"
    /\ RunOp(r, posted)
    /\ UNCHANGED <<running, tasks, firstRound, lastEc, callerVars,
                   accepted, rejected, served>>

-----------------------------------------------------------------------------
(***************************************************************************)
(* start_op: running is set, then the transport connects unconditionally.  *)
(* It is called on a session at rest: no task, no stop or start under way, *)
(* and no established connection.                                          *)
(***************************************************************************)
Start(s) ==
    /\ startPc[s] = "idle"
    /\ tasks = <<>> /\ ~Starting /\ ~Stopping
    /\ ~(tr.running /\ tr.conn = "linked")
    /\ running' = TRUE
    /\ tr' = ConnectCall(tr)
    /\ startPc' = [startPc EXCEPT ![s] = "connect"]
    /\ UNCHANGED <<tasks, posted, opVars, stopPc, stopEc, historyVars>>

\* start_op hands the result to its caller and leaves is_running_ alone.
StartDone(s) ==
    /\ startPc[s] = "connect"
    /\ \E res \in ConnectResults(tr) : tr' = res.tr
    /\ startPc' = [startPc EXCEPT ![s] = "done"]
    /\ UNCHANGED <<running, tasks, posted, opVars, stopPc, stopEc, historyVars>>

\* Faulty variant: stop answers as soon as its close has ended.
FaultyAfterClose(s, ec) ==
    /\ stopPc' = [stopPc EXCEPT ![s] = "done"]
    /\ stopEc' = [stopEc EXCEPT ![s] = ec]

(***************************************************************************)
(* stop_op once its close has ended with ec: wait for the tasks to be      *)
(* cancelled, re-arming the timer (which aborts an earlier wait), or       *)
(* answer at once.                                                         *)
(***************************************************************************)
AfterClose(s, ec) ==
    \/ /\ tasks # <<>>
       /\ stopPc' = [x \in Stops |->
                        IF x = s THEN "waiting"
                        ELSE IF stopPc[x] = "waiting" THEN "cancelled"
                        ELSE stopPc[x]]
       /\ UNCHANGED stopEc
    \/ /\ tasks = <<>>
       /\ stopPc' = [stopPc EXCEPT ![s] = "done"]
       /\ stopEc' = [stopEc EXCEPT ![s] = ec]

(***************************************************************************)
(* A close that ends replaces a tunnel's stream: it must not do so under   *)
(* another operation of the TLS layer.  Callers avoid an ungraceful stop   *)
(* of a tunnel in use, and a stop during another shutdown of it.           *)
(***************************************************************************)
StopAllowed(graceful) ==
    tr.proxied => ~ShuttingDown /\ (graceful \/ ~InUse)

(***************************************************************************)
(* stop_op: an ungraceful close of an open socket ends without a wait and  *)
(* leaves the socket open, every other close comes back later.             *)
(***************************************************************************)
Stop(s, graceful) ==
    /\ stopPc[s] = "idle"
    /\ OverlappingStops \/ ~Stopping
    /\ StopAllowed(graceful)
    /\ running' = FALSE
    /\ \/ /\ tr.open /\ ~graceful
          /\ tr' = CloseEnd(CloseCall(tr), "close_posted")
          /\ AfterClose(s, "ok")
       \/ /\ graceful \/ ~tr.open
          /\ tr' = CloseCall(tr)
          /\ stopPc' = [stopPc EXCEPT ![s] = CloseState(tr)]
          /\ UNCHANGED stopEc
    /\ UNCHANGED <<tasks, posted, opVars, startPc, historyVars>>

\* Faulty variant: async_close of a socket that is not open forgets its handler.
FaultyStopCloseDone(s) ==
    /\ stopPc[s] = "closing"
    /\ tr' = CloseEnd(tr, stopPc[s])
    /\ \E ec \in {"ok", "error"} : AfterClose(s, ec)
    /\ UNCHANGED <<running, tasks, posted, opVars, startPc, historyVars>>

(***************************************************************************)
(* Only a TLS shutdown can fail; the bare post and the TCP close cannot.   *)
(* The strand is FIFO: the operations of a tunnel that a stop cancelled,   *)
(* or a timer before it, are called back before the close is.  Only a      *)
(* connect that was still resolving may outlast it.                        *)
(***************************************************************************)
StopCloseDone(s) ==
    /\ stopPc[s] \in {"closing", "close_posted"}
    /\ tr.proxied /\ InUse => stopPc[s] = "close_posted" /\ tr.conn = "connecting"
    /\ tr' = CloseEnd(tr, stopPc[s])
    /\ \E ec \in IF stopPc[s] = "closing" THEN {"ok", "error"} ELSE {"ok"} :
        AfterClose(s, ec)
    /\ UNCHANGED <<running, tasks, posted, opVars, startPc, historyVars>>

\* the 500 ms of async_wait_for_tasks_cancellation have passed.
TimerExpires ==
    /\ \E s \in Stops : stopPc[s] = "waiting"
    /\ stopPc' = [s \in Stops |-> IF stopPc[s] = "waiting" THEN "expired"
                                                           ELSE stopPc[s]]
    /\ UNCHANGED <<running, tasks, posted, opVars, tr, startPc, stopEc,
                   historyVars>>

\* Faulty variant: the code of the cancelled wait is passed on.
FaultyStopWaitDone(s) ==
    /\ stopPc[s] \in {"cancelled", "expired"}
    /\ stopEc' = [stopEc EXCEPT ![s] = IF stopPc[s] = "cancelled"
                                       THEN "aborted" ELSE "timed_out"]
    /\ stopPc' = [stopPc EXCEPT ![s] = "done"]
    /\ UNCHANGED <<running, tasks, posted, opVars, tr, startPc, historyVars>>

\* stop_op resumed by its timer: a cancelled wait is success.
StopWaitDone(s) ==
    /\ stopPc[s] \in {"cancelled", "expired"}
    /\ stopEc' = [stopEc EXCEPT ![s] = IF stopPc[s] = "cancelled"
                                       THEN "ok" ELSE "timed_out"]
    /\ stopPc' = [stopPc EXCEPT ![s] = "done"]
    /\ UNCHANGED <<running, tasks, posted, opVars, tr, startPc, historyVars>>

-----------------------------------------------------------------------------
OpStep(r) == ConnectDone(r) \/ ProcessDone(r) \/ OpCloseDone(r) \/ Retry(r)

Next ==
    \/ \E r \in Requests : Push(r) \/ OpStep(r)
    \/ ProcessTask
    \/ AdvanceTask
    \/ Resolved
    \/ LoseSocket
    \/ \E s \in Starts : Start(s) \/ StartDone(s)
    \/ \E s \in Stops : \/ \E graceful \in BOOLEAN : Stop(s, graceful)
                        \/ StopCloseDone(s)
                        \/ StopWaitDone(s)
    \/ TimerExpires

Spec == Init /\ [][Next]_vars

(***************************************************************************)
(* A close that found the socket not open yet, and came too late to cancel *)
(* the resolver, or an ungraceful one between two steps of a connect, ends *)
(* and takes the timer of the stream away: the connect that goes on may    *)
(* wait for the peer for ever (module Transport, PatientlyAnswered).       *)
(***************************************************************************)
Orphaned == tr.conn = "connecting" /\ tr.open /\ ~tr.running /\ ~ShuttingDown

(***************************************************************************)
(* Fairness.  The strand runs what is posted to it, and every other        *)
(* transport operation a task waits for ends: the peer answers or the      *)
(* Beast timer armed by setup_timer fires.  Nothing makes a caller push or *)
(* stop.                                                                   *)
(***************************************************************************)
TaskFairness ==
    /\ WF_vars(ProcessTask)
    /\ WF_vars(AdvanceTask)
    /\ \A r \in Requests : WF_vars(OpStep(r) /\ ~Orphaned)

\* The caller's own operations end too: a close started by stop_op ends as
\* long as the transport's shutdown does (module Transport says when).
CallerFairness ==
    /\ WF_vars(TimerExpires)
    /\ \A s \in Stops : WF_vars(StopCloseDone(s) \/ StopWaitDone(s))
    /\ \A s \in Starts : WF_vars(StartDone(s))

FairSpec == Spec /\ TaskFairness

-----------------------------------------------------------------------------
TypeOK ==
    /\ running \in BOOLEAN
    /\ tasks \in Seq(Requests)
    /\ posted \in Seq(StrandJob)
    /\ opPc \in [Requests -> OpState]
    /\ firstRound \in [Requests -> BOOLEAN]
    /\ lastEc \in [Requests -> ErrorCode]
    /\ tr \in Transport
    /\ startPc \in [Starts -> StartState]
    /\ stopPc \in [Stops -> StopState]
    /\ stopEc \in [Stops -> {"none", "ok", "error", "timed_out"}]
    /\ accepted \in Seq(Requests)
    /\ rejected \in SUBSET Requests
    /\ replies \in Seq([req : Requests, ec : ErrorCode])
    /\ attempts \in [Requests -> Nat]
    /\ served \in SUBSET Requests

Active == {r \in Requests : opPc[r] # "idle"}
Answered == posted # <<>> /\ Head(posted) = "advance_task"

(***************************************************************************)
(* Whatever the order of pushes, stops, retries and I/O completions, an    *)
(* idle session has neither a posted job nor a running op, and a session   *)
(* with tasks has exactly one of them: one job, or the op of the head.     *)
(* Hence two ops never share the transport, a non-empty queue is never     *)
(* forgotten, and pop_task's assertion holds.                              *)
(***************************************************************************)
SingleRunner ==
    \/ tasks = <<>> /\ posted = <<>> /\ Active = {}
    \/ tasks # <<>> /\ Len(posted) = 1 /\ Active = {}
    \/ tasks # <<>> /\ posted = <<>> /\ Active = {Head(tasks)}

(***************************************************************************)
(* Handlers are called once each and in the order of push_request: the     *)
(* replies are a prefix of the accepted requests, and tasks_ is the rest,  *)
(* save that an answered head stays queued until advance_task pops it.     *)
(***************************************************************************)
InOrder ==
    /\ \A i \in 1 .. Len(replies) :
          i <= Len(accepted) /\ replies[i].req = accepted[i]
    /\ Len(tasks) <= Len(accepted)
    /\ \A i \in 1 .. Len(tasks) :
          tasks[i] = accepted[Len(accepted) - Len(tasks) + i]
    /\ Len(replies) = Len(accepted) - Len(tasks) + (IF Answered THEN 1 ELSE 0)

\* The retry of process_queue_op happens once: no request is put on the
\* wire a third time.
AtMostTwoAttempts == \A r \in Requests : attempts[r] <= 2

\* A handler told "success" has a response: an error saved in last_ec_
\* across the close, or an abort, never turns into success.
OkMeansServed ==
    \A i \in 1 .. Len(replies) : replies[i].ec = "ok" => replies[i].req \in served

(***************************************************************************)
(* Whatever failed, was stopped or started again, no response is read over *)
(* the rest of one whose request failed, and the first response of a       *)
(* direct connection over nothing an earlier connection left: the buffer   *)
(* is cleared in between.  (It is not cleared between two responses of a   *)
(* connection, nor between the reply to a tunnel's CONNECT and the first   *)
(* response: bytes that came behind the one are read as the other's.)      *)
(***************************************************************************)
NoStaleBytes ==
    [][served' # served => ~tr.dirty /\ (tr.extra => tr.proxied \/ tr.used)]_vars

(***************************************************************************)
(* "we cancel the timer when all tasks have been cancelled": an            *)
(* async_stop that answers success leaves no task in the session.          *)
(***************************************************************************)
StopOkMeansDrained ==
    [][\A s \in Stops :
         stopEc[s] = "none" /\ stopEc'[s] = "ok" => tasks' = <<>>]_vars

(***************************************************************************)
(* "If an error occurred and this is a reused connection, silence the      *)
(* error and try again": only a reused connection is retried.              *)
(***************************************************************************)
RetryOnlyOnReused ==
    [][\A r \in Requests :
         opPc[r] # "retry" /\ opPc'[r] = "retry" => tr.used]_vars

(***************************************************************************)
(* Every accepted request is eventually answered, even if a stop hangs in  *)
(* its close, unless a stop orphans its connect: no retry, failure or stop *)
(* loses a task.                                                           *)
(***************************************************************************)
RequestsAnswered ==
    \A r \in Requests :
        (\E i \in DOMAIN accepted : accepted[i] = r)
            ~> (Orphaned \/ \E i \in DOMAIN replies : replies[i].req = r)

\* Every async_stop eventually calls its handler, if the closes end that it
\* waits for: overlapping stops share one timer and lose no handler by it.
StopsAnswered ==
    CallerFairness =>
        \A s \in Stops : (stopPc[s] # "idle") ~> (stopPc[s] = "done")

-----------------------------------------------------------------------------
(***************************************************************************)
(* The session implements RequestQueue: its queue is tasks_ without the    *)
(* head that was answered and not popped yet.                              *)
(***************************************************************************)
Waiting == IF Answered THEN Tail(tasks) ELSE tasks

Queue == INSTANCE RequestQueue
            WITH accepting <- running, queue <- Waiting, refused <- rejected

\* Seen from push_request the session is a RequestQueue: a request that
\* fails for good or a stop aborts exactly the ones behind it.
ImplementsQueue == Queue!Spec

\* And it keeps answering: a queue that holds a request answers its front,
\* or aborts them all, as long as no stop orphans a connect.
KeepsAnswering == []~Orphaned => Queue!Fairness

=============================================================================
