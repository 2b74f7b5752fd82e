------------------------- MODULE SessionRefinement -------------------------
(***************************************************************************)
(* Proof that Session implements RequestQueue: what push_request's callers *)
(* see is a queue that answers from its front, whatever the transport, the *)
(* strand and the stops do.  The queue is Waiting: tasks_ without a head   *)
(* that was answered and not popped yet.                                   *)
(***************************************************************************)
EXTENDS SessionSafetyProofs

\* What the queue knows of was pushed, so push_request offers it new requests.
LEMMA KnownPushed ==
    ASSUME TypeOK, SingleRunner, InOrder
    PROVE  Queue!Known \subseteq Pushed
<1>1. ASSUME NEW i \in DOMAIN Waiting PROVE Waiting[i] \in Pushed
  <2>1. CASE ~Answered
    <3>1. Waiting = tasks /\ i \in 1 .. Len(tasks)
      BY <1>1, <2>1 DEF Waiting, TypeOK
    <3> QED BY <3>1, TasksPushed
  <2>2. CASE Answered
    <3>1. Waiting = Tail(tasks) /\ tasks # <<>>
      BY <2>2 DEF Waiting, Answered, SingleRunner
    <3>2. i + 1 \in 1 .. Len(tasks) /\ Waiting[i] = tasks[i + 1]
      BY <1>1, <3>1 DEF TypeOK
    <3> QED BY <3>2, TasksPushed
  <2> QED BY <2>1, <2>2
<1>2. ASSUME NEW i \in DOMAIN replies PROVE replies[i].req \in Pushed
  <2>1. i \in 1 .. Len(replies) /\ Len(accepted) \in Nat /\ DOMAIN accepted = 1 .. Len(accepted)
    BY <1>2 DEF TypeOK
  <2>2. i \in 1 .. Len(accepted) /\ replies[i].req = accepted[i]
    BY <2>1 DEF InOrder
  <2> QED BY <2>1, <2>2 DEF Pushed
<1> QED BY <1>1, <1>2 DEF Queue!Known, Pushed

\* The answered head leaves the queue before advance_task pops it.
LEMMA CompleteAnswers ==
    ASSUME TypeOK, tasks # <<>>, ~Answered, UNCHANGED <<tasks, rejected>>, NEW ec,
           Complete(Head(tasks), ec, <<>>)
    PROVE  Waiting = tasks /\ Queue!AnswerFront(ec)
<1>1. Answered'
  BY DEF Complete, Answered
<1>2. Waiting = tasks /\ Waiting' = Tail(tasks)
  BY <1>1 DEF Waiting
<1> QED BY <1>2 DEF Complete, Reply, Queue!Reply, Queue!AnswerFront

\* The op of the front q[1] is entered: it aborts the front or changes nothing.
LEMMA RunOpImplements ==
    ASSUME TypeOK, NEW q \in Seq(Requests), q # <<>>, Waiting = q, tasks' = q,
           RunOp(Head(q), <<>>), UNCHANGED <<running, rejected>>
    PROVE  [Queue!Next]_Queue!vars
<1>1. CASE ~running
  <2>1. Complete(Head(q), "aborted", <<>>)
    BY <1>1 DEF RunOp
  <2>2. Answered'
    BY <2>1 DEF Complete, Answered
  <2>3. Waiting' = Tail(q)
    BY <2>2 DEF Waiting
  <2>4. Queue!AbortFront
    BY <1>1, <2>1, <2>3 DEF Complete, Reply, Queue!Reply, Queue!AnswerFront,
                            Queue!AbortFront
  <2> QED BY <2>4 DEF Queue!Next, Queue!Answer
<1>2. CASE running
  <2>1. posted' = <<>> /\ UNCHANGED replies
    BY <1>2 DEF RunOp
  <2>2. Waiting' = q
    BY <2>1 DEF Waiting, Answered
  <2> QED BY <2>1, <2>2 DEF Queue!vars
<1> QED BY <1>1, <1>2

\* A push is a submission or a refusal; it never concerns an answered head.
LEMMA PushImplements ==
    ASSUME TypeOK, SingleRunner, InOrder, NEW r \in Requests, Push(r)
    PROVE  Queue!Next
<1>1. r \notin Queue!Known
  BY KnownPushed DEF Push
<1>2. CASE ~running
  <2>1. UNCHANGED <<running, tasks, posted, replies>> /\ rejected' = rejected \cup {r}
    BY <1>2 DEF Push
  <2>2. Waiting' = Waiting
    BY <2>1 DEF Waiting, Answered
  <2> QED BY <1>1, <1>2, <2>1, <2>2 DEF Queue!Next, Queue!Refuse
<1>3. CASE running
  <2>1. /\ tasks' = Append(tasks, r)
        /\ posted' = IF Len(tasks') = 1 THEN Append(posted, "process_task")
                                        ELSE posted
        /\ UNCHANGED <<running, replies, rejected>>
    BY <1>3 DEF Push
  <2>2. Waiting' = Append(Waiting, r)
    <3>1. CASE tasks = <<>>
      <4>1. posted = <<>> /\ Waiting = tasks
        BY <3>1 DEF SingleRunner, Waiting, Answered
      <4>2. posted' = <<>> \/ posted' = Append(<<>>, "process_task")
        BY <2>1, <4>1
      <4>3. ~Answered'
        BY <4>2 DEF Answered
      <4> QED BY <2>1, <4>1, <4>3 DEF Waiting
    <3>2. CASE tasks # <<>>
      <4>1. Len(tasks') # 1
        BY <2>1, <3>2 DEF TypeOK
      <4>2. Answered' = Answered
        BY <2>1, <4>1 DEF Answered
      <4>3. Tail(tasks') = Append(Tail(tasks), r)
        <5>1. tasks \in Seq(Requests)
          BY DEF TypeOK
        <5>2. Tail(Append(tasks, r)) = Append(Tail(tasks), r)
          BY <3>2, <5>1
        <5> QED BY <2>1, <5>2
      <4> QED BY <2>1, <4>2, <4>3 DEF Waiting
    <3> QED BY <3>1, <3>2
  <2> QED BY <1>1, <1>3, <2>1, <2>2 DEF Queue!Next, Queue!Submit
<1> QED BY <1>2, <1>3

\* process_queue_op goes on unseen, or answers the front as the queue would:
\* success and failure while it accepts, an abort once it does not.
LEMMA OpImplements ==
    ASSUME TypeOK, SingleRunner, Connection, Honest, NEW r \in Requests, OpStep(r)
    PROVE  [Queue!Next]_Queue!vars
<1>1. /\ tasks # <<>> /\ r = Head(tasks) /\ posted = <<>> /\ Active = {r}
      /\ UNCHANGED <<tasks, rejected>> /\ ~Answered
  BY OpAlone DEF Answered
<1>2. Waiting = tasks /\ tasks \in Seq(Requests) /\ tr \in Transport
  BY <1>1 DEF Waiting, TypeOK
<1>3. \A ec : Complete(r, ec, posted) => Queue!AnswerFront(ec)
  BY <1>1, CompleteAnswers
<1>4. CASE UNCHANGED <<running, posted, replies>>
  <2>1. Waiting' = Waiting
    BY <1>1, <1>4 DEF Waiting, Answered
  <2> QED BY <1>1, <1>4, <2>1 DEF Queue!vars
<1>5. CASE ~running /\ Complete(r, "aborted", posted) /\ UNCHANGED running
  BY <1>3, <1>5 DEF Queue!Next, Queue!Answer, Queue!AbortFront
<1>6. CASE running /\ Complete(r, "error", posted) /\ running' = FALSE
  BY <1>3, <1>6 DEF Queue!Next, Queue!Answer, Queue!Fail
<1>7. CASE running /\ Complete(r, "ok", posted) /\ UNCHANGED running
  BY <1>3, <1>7 DEF Queue!Next, Queue!Answer, Queue!Serve
<1>8. opPc[r] \in {"connect", "process"} /\ running => tr.running
  <2>1. \A q \in Requests \ {r} : opPc[q] = "idle"
    BY <1>1 DEF Active
  <2> QED BY <2>1 DEF Connection, UpWhileRunning
<1>9. CASE ConnectDone(r)
  <2>1. PICK res \in ConnectResults(tr) : ConnectDone(r)!2!(res)
    BY <1>9 DEF ConnectDone
  <2>2. opPc[r] = "connect" /\ (res.ec = "aborted" => ~tr.running)
    BY <1>2, <1>9, ConnectShape DEF ConnectDone
  <2> QED BY <1>4, <1>5, <1>6, <1>8, <2>1, <2>2
<1>10. CASE ProcessDone(r)
  <2>1. PICK res \in ProcessResults(tr) : ProcessDone(r)!2!(res)
    BY <1>10 DEF ProcessDone
  <2>2. /\ opPc[r] = "process" /\ UNCHANGED running
        /\ res.ec = "aborted" => ~tr.running
    BY <1>2, <1>10, <2>1, ProcessShape DEF ProcessDone
  <2> QED BY <1>4, <1>5, <1>7, <1>8, <2>1, <2>2
<1>11. CASE OpCloseDone(r)
  <2>1. lastEc[r] = "error"
    BY <1>11 DEF OpCloseDone, Honest
  <2> QED BY <1>4, <1>5, <1>6, <1>11, <2>1 DEF OpCloseDone
<1>12. CASE Retry(r)
  BY <1>1, <1>2, <1>12, RunOpImplements DEF Retry
<1> QED BY <1>9, <1>10, <1>11, <1>12 DEF OpStep

\* advance_task pops what was answered; on a closed queue it aborts the rest.
LEMMA AdvanceImplements ==
    ASSUME TypeOK, SingleRunner, AdvanceTask
    PROVE  [Queue!Next]_Queue!vars
<1> DEFINE q == Tail(tasks)
<1>1. Waiting = q /\ q \in Seq(Requests) /\ UNCHANGED <<running, rejected>>
  BY AdvanceTaskRuns DEF AdvanceTask, Waiting, Answered
<1>2. CASE running /\ q # <<>>
  BY <1>1, <1>2, AdvanceTaskRuns, RunOpImplements
<1>3. CASE running /\ q = <<>>
  <2>1. tasks' = <<>> /\ posted' = <<>> /\ UNCHANGED replies
    BY <1>3, AdvanceTaskRuns
  <2>2. Waiting' = <<>>
    BY <2>1 DEF Waiting, Answered
  <2> QED BY <1>1, <1>3, <2>1, <2>2 DEF Queue!vars
<1>4. CASE ~running
  <2>1. /\ replies' = replies \o [i \in 1 .. Len(q) |-> Reply(q[i], "aborted")]
        /\ tasks' = <<>> /\ posted' = <<>>
    BY <1>4, AdvanceTaskRuns DEF CancelAllTasks
  <2>2. Waiting' = <<>>
    BY <2>1 DEF Waiting, Answered
  <2>3. CASE q # <<>>
    <3>1. Queue!AbortAll
      BY <1>1, <1>4, <2>1, <2>2, <2>3 DEF Queue!AbortAll, Reply, Queue!Reply
    <3> QED BY <3>1 DEF Queue!Next, Queue!Answer
  <2>4. CASE q = <<>>
    <3>1. [i \in 1 .. Len(q) |-> Reply(q[i], "aborted")] = <<>>
      BY <2>4
    <3>2. replies' = replies \o <<>>
      BY <2>1, <3>1
    <3>3. replies \in Seq([req : Requests, ec : ErrorCode])
      BY DEF TypeOK
    <3>4. replies' = replies
      BY <3>2, <3>3, ConcatEmptySeq
    <3> QED BY <1>1, <2>2, <2>4, <3>4 DEF Queue!vars
  <2> QED BY <2>3, <2>4
<1> QED BY <1>2, <1>3, <1>4

\* Every step of the session is a step of the queue, or none.
LEMMA StepImplements ==
    ASSUME TypeOK, SingleRunner, InOrder, Connection, Honest, [Next]_vars
    PROVE  [Queue!Next]_Queue!vars
<1> USE DEF opVars, callerVars, historyVars
<1>1. CASE UNCHANGED <<running, tasks, posted, rejected, replies>>
  <2>1. Waiting' = Waiting
    BY <1>1 DEF Waiting, Answered
  <2> QED BY <1>1, <2>1 DEF Queue!vars
<1>2. ASSUME NEW r \in Requests, Push(r) PROVE [Queue!Next]_Queue!vars
  BY <1>2, PushImplements
<1>3. ASSUME NEW r \in Requests, OpStep(r) PROVE [Queue!Next]_Queue!vars
  BY <1>3, OpImplements
<1>4. CASE ProcessTask
  <2>1. UNCHANGED <<running, tasks, rejected>> /\ Waiting = tasks /\ tasks \in Seq(Requests)
    BY <1>4 DEF ProcessTask, Waiting, Answered, TypeOK
  <2> QED BY <1>4, <2>1, ProcessTaskRuns, RunOpImplements
<1>5. CASE AdvanceTask
  BY <1>5, AdvanceImplements
<1>6. ASSUME NEW s \in Starts, Start(s) PROVE [Queue!Next]_Queue!vars
  <2>1. /\ tasks = <<>> /\ running' = TRUE
        /\ UNCHANGED <<tasks, posted, rejected, replies>>
    BY <1>6 DEF Start
  <2>2. Waiting = <<>> /\ Waiting' = Waiting
    BY <2>1 DEF Waiting, Answered, SingleRunner
  <2> QED BY <2>1, <2>2 DEF Queue!Next, Queue!Reopen
<1>7. ASSUME NEW s \in Stops, NEW graceful \in BOOLEAN, Stop(s, graceful)
      PROVE  [Queue!Next]_Queue!vars
  <2>1. running' = FALSE /\ UNCHANGED <<tasks, posted, rejected, replies>>
    BY <1>7 DEF Stop
  <2>2. Waiting' = Waiting
    BY <2>1 DEF Waiting, Answered
  <2> QED BY <2>1, <2>2 DEF Queue!Next, Queue!Close
<1> QED
  BY <1>1, <1>2, <1>3, <1>4, <1>5, <1>6, <1>7
     DEF Next, Resolved, LoseSocket, StartDone, StopCloseDone, StopWaitDone,
         TimerExpires, vars

(***************************************************************************)
(* Seen from push_request the session is the queue of RequestQueue: it     *)
(* refuses or accepts, answers from the front, a request that fails for    *)
(* good or a stop closes it, and a closed queue aborts what it holds.      *)
(***************************************************************************)
THEOREM SessionIsQueue == Spec => ImplementsQueue
<1>1. Init => Queue!Init
  BY DEF Init, Queue!Init, Waiting, Answered
<1>2. Init => Honest
  BY DEF Init, Honest
<1>3. TypeOK /\ SingleRunner /\ Honest /\ OkMeansServed /\ [Next]_vars => Honest'
  BY AnswersStep
<1>4. TypeOK /\ SingleRunner /\ InOrder /\ Connection /\ Honest /\ [Next]_vars
        => [Queue!Next]_Queue!vars
  BY StepImplements
<1> QED
  BY <1>1, <1>2, <1>3, <1>4, ConnectionInvariant, HandlersInOrder,
     SuccessIsServed, PTL DEF Spec, Queue!Spec, ImplementsQueue

=============================================================================
