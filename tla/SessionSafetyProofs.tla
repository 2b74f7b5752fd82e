------------------------ MODULE SessionSafetyProofs ------------------------
(***************************************************************************)
(* More proofs about Session: how often a request is sent, what a success  *)
(* means, what is in the transport's buffer, and what a stop leaves.  All  *)
(* of them stand on SessionProofs: the one runner, and answers in order.   *)
(***************************************************************************)
EXTENDS SessionProofs

-----------------------------------------------------------------------------
(***************************************************************************)
(* The jobs of the strand, seen from the one runner.                       *)
(***************************************************************************)

\* A posted process_task finds the task it was posted for.
LEMMA ProcessTaskRuns ==
    ASSUME TypeOK, SingleRunner, ProcessTask
    PROVE  /\ tasks # <<>> /\ Active = {}
           /\ Head(tasks) \in Requests
           /\ Len(posted) = 1
           /\ RunOp(Head(tasks), <<>>)
<1>1. tasks # <<>> /\ Len(posted) = 1 /\ Active = {}
  BY DEF ProcessTask, SingleRunner
<1>2. Tail(posted) = <<>> /\ Head(tasks) \in Requests
  BY <1>1, LastJob DEF TypeOK
<1> QED BY <1>1, <1>2 DEF ProcessTask, RunFront

\* A posted advance_task finds an answered task: the next one is run, or none
\* is left, or the session has ended and the rest is cancelled.
LEMMA AdvanceTaskRuns ==
    ASSUME TypeOK, SingleRunner, AdvanceTask
    PROVE  /\ tasks # <<>> /\ Active = {}
           /\ Tail(tasks) \in Seq(Requests)
           /\ Len(posted) = 1
           /\ \/ /\ running /\ Tail(tasks) # <<>>
                 /\ Head(Tail(tasks)) \in Requests
                 /\ RunOp(Head(Tail(tasks)), <<>>)
                 /\ tasks' = Tail(tasks)
                 /\ UNCHANGED stopPc
              \/ /\ running /\ Tail(tasks) = <<>>
                 /\ tasks' = <<>> /\ posted' = <<>>
                 /\ UNCHANGED <<opPc, tr, attempts, replies, stopPc>>
              \/ /\ ~running
                 /\ CancelAllTasks(Tail(tasks))
                 /\ tasks' = <<>> /\ posted' = <<>>
                 /\ UNCHANGED <<opPc, tr, attempts>>
<1>1. tasks # <<>> /\ Len(posted) = 1 /\ Active = {}
  BY DEF AdvanceTask, SingleRunner
<1>2. Tail(posted) = <<>> /\ Tail(tasks) \in Seq(Requests)
  BY <1>1, LastJob DEF TypeOK
<1>3. CASE running /\ Tail(tasks) # <<>>
  <2>1. RunOp(Head(Tail(tasks)), <<>>) /\ tasks' = Tail(tasks) /\ UNCHANGED stopPc
    BY <1>2, <1>3 DEF AdvanceTask, RunFront
  <2>2. Head(Tail(tasks)) \in Requests
    BY <1>2, <1>3
  <2> QED BY <1>1, <1>2, <1>3, <2>1, <2>2
<1>4. CASE running /\ Tail(tasks) = <<>>
  BY <1>1, <1>2, <1>4 DEF AdvanceTask, RunFront
<1>5. CASE ~running
  BY <1>1, <1>2, <1>5 DEF AdvanceTask, CancelAllTasks
<1> QED BY <1>3, <1>4, <1>5

\* The steps that work on a request; all others leave queue and ops alone.
LEMMA WorkOrNot ==
    ASSUME [Next]_vars
    PROVE  \/ \E r \in Requests : Push(r) \/ OpStep(r)
           \/ ProcessTask
           \/ AdvanceTask
           \/ UNCHANGED <<tasks, posted, opVars, historyVars>>
BY DEF Next, Resolved, LoseSocket, Start, StartDone, Stop, StopCloseDone,
       StopWaitDone, TimerExpires, vars

\* What is in the queue was pushed, and the queue is the end of accepted.
LEMMA TasksPushed ==
    ASSUME TypeOK, InOrder, NEW i \in 1 .. Len(tasks)
    PROVE  /\ tasks[i] \in Requests
           /\ Len(accepted) - Len(tasks) + i \in 1 .. Len(accepted)
           /\ tasks[i] = accepted[Len(accepted) - Len(tasks) + i]
           /\ tasks[i] \in Pushed
<1>1. Len(tasks) \in Nat /\ Len(accepted) \in Nat /\ DOMAIN accepted = 1 .. Len(accepted)
  BY DEF TypeOK
<1>2. tasks[i] \in Requests
  BY DEF TypeOK
<1>3. Len(accepted) - Len(tasks) + i \in 1 .. Len(accepted)
  BY <1>1 DEF InOrder
<1>4. tasks[i] = accepted[Len(accepted) - Len(tasks) + i]
  BY DEF InOrder
<1> QED BY <1>1, <1>2, <1>3, <1>4 DEF Pushed

-----------------------------------------------------------------------------
(***************************************************************************)
(* How often a request is sent.  A request is fresh until the op of it     *)
(* runs: that op runs for the head of the queue only, and once, since no   *)
(* request is in the queue twice.                                          *)
(***************************************************************************)
Fresh(r) == attempts[r] = 0 /\ firstRound[r]

\* No request was pushed twice.
Distinct ==
    \A i, j \in 1 .. Len(accepted) : accepted[i] = accepted[j] => i = j

\* Requests whose op has not run yet are fresh.
Untouched ==
    /\ \A r \in Requests : r \notin Pushed => Fresh(r)
    /\ \A i \in 1 .. Len(tasks) :
          i > 1 \/ (posted # <<>> /\ Head(posted) = "process_task")
             => Fresh(tasks[i])

\* Where an op stands says how often its request was sent.
Rounds ==
    \A r \in Requests :
        /\ opPc[r] = "connect" => attempts[r] <= IF firstRound[r] THEN 0 ELSE 1
        /\ opPc[r] \in {"process", "closing", "close_posted"} =>
              attempts[r] <= IF firstRound[r] THEN 1 ELSE 2
        /\ opPc[r] = "retry" => ~firstRound[r] /\ attempts[r] <= 1
        /\ attempts[r] <= 2

Accounts == TypeOK /\ SingleRunner /\ InOrder /\ Distinct /\ Untouched /\ Rounds

\* push_request is called once for each request.
LEMMA DistinctStep ==
    ASSUME TypeOK, Distinct, [Next]_vars
    PROVE  Distinct'
<1>1. CASE UNCHANGED accepted
  BY <1>1 DEF Distinct
<1>2. ASSUME NEW r \in Requests, r \notin Pushed, accepted' = Append(accepted, r)
      PROVE  Distinct'
  <2>1. /\ Len(accepted) \in Nat
        /\ Len(accepted') = Len(accepted) + 1
        /\ \A i \in 1 .. Len(accepted) : accepted'[i] = accepted[i]
        /\ accepted'[Len(accepted) + 1] = r
        /\ DOMAIN accepted = 1 .. Len(accepted)
    BY <1>2 DEF TypeOK
  <2>2. \A i \in 1 .. Len(accepted) : accepted[i] # r
    BY <1>2, <2>1 DEF Pushed
  <2> QED BY <2>1, <2>2 DEF Distinct
<1>3. UNCHANGED accepted \/ \E r \in Requests :
          r \notin Pushed /\ accepted' = Append(accepted, r)
  BY DEF Next, Push, OpStep, ProcessTask, AdvanceTask, Resolved, LoseSocket,
         ConnectDone, ProcessDone, OpCloseDone, Retry, Start, StartDone, Stop,
         StopCloseDone, StopWaitDone, TimerExpires, vars, historyVars
<1> QED BY <1>1, <1>2, <1>3

\* Steps that neither start an op nor count anything.
LEMMA UntouchedFrame ==
    ASSUME Untouched,
           UNCHANGED <<attempts, firstRound, accepted, rejected, tasks>>,
           posted' = posted \/ ~(posted' # <<>> /\ Head(posted') = "process_task")
    PROVE  Untouched'
BY DEF Untouched, Fresh, Pushed

\* Only the head is worked on, and the head was pushed.
LEMMA UntouchedOp ==
    ASSUME TypeOK, InOrder, Distinct, Untouched, tasks # <<>>,
           UNCHANGED <<tasks, accepted, rejected>>,
           \A q \in Requests \ {Head(tasks)} :
              attempts'[q] = attempts[q] /\ firstRound'[q] = firstRound[q],
           ~(posted' # <<>> /\ Head(posted') = "process_task")
    PROVE  Untouched'
<1>1. 1 \in 1 .. Len(tasks) /\ Head(tasks) = tasks[1] /\ Len(tasks) \in Nat /\ Len(accepted) \in Nat
  BY DEF TypeOK
<1>2. Pushed' = Pushed /\ tasks[1] \in Pushed
  BY <1>1, TasksPushed DEF Pushed
<1>3. ASSUME NEW i \in 1 .. Len(tasks), i > 1
      PROVE  tasks[i] # tasks[1] /\ tasks[i] \in Requests
  <2>1. /\ tasks[i] = accepted[Len(accepted) - Len(tasks) + i]
        /\ tasks[1] = accepted[Len(accepted) - Len(tasks) + 1]
        /\ Len(accepted) - Len(tasks) + i \in 1 .. Len(accepted)
        /\ Len(accepted) - Len(tasks) + 1 \in 1 .. Len(accepted)
        /\ tasks[i] \in Requests
    BY <1>1, TasksPushed
  <2>2. Len(accepted) - Len(tasks) + i # Len(accepted) - Len(tasks) + 1
    BY <1>1, <1>3
  <2> QED BY <2>1, <2>2 DEF Distinct
<1> QED BY <1>1, <1>2, <1>3 DEF Untouched, Fresh

\* The op of r runs, and all that moves is its own account.
LEMMA RunOpAlone ==
    ASSUME TypeOK, NEW r \in Requests, NEW rest \in Seq(StrandJob), rest = <<>>,
           RunOp(r, rest)
    PROVE  /\ \A q \in Requests \ {r} :
                attempts'[q] = attempts[q] /\ opPc'[q] = opPc[q]
           /\ ~(posted' # <<>> /\ Head(posted') = "process_task")
<1>1. CASE Complete(r, "aborted", rest) /\ UNCHANGED attempts
  BY <1>1 DEF TypeOK, Complete
<1>2. CASE opPc' = [opPc EXCEPT ![r] = "connect"] /\ posted' = rest /\ UNCHANGED attempts
  BY <1>2 DEF TypeOK
<1>3. CASE /\ opPc' = [opPc EXCEPT ![r] = "process"] /\ posted' = rest
           /\ attempts' = [attempts EXCEPT ![r] = @ + 1]
  BY <1>3 DEF TypeOK
<1> QED BY <1>1, <1>2, <1>3 DEF RunOp

\* An op that goes on or ends moves its own account only.
LEMMA OpAlone ==
    ASSUME TypeOK, SingleRunner, NEW r \in Requests, OpStep(r)
    PROVE  /\ tasks # <<>> /\ r = Head(tasks) /\ posted = <<>> /\ Active = {r}
           /\ UNCHANGED <<tasks, accepted, rejected, callerVars>>
           /\ \A q \in Requests \ {r} :
                /\ attempts'[q] = attempts[q] /\ firstRound'[q] = firstRound[q]
                /\ opPc'[q] = opPc[q] /\ lastEc'[q] = lastEc[q]
           /\ ~(posted' # <<>> /\ Head(posted') = "process_task")
<1>1. opPc[r] # "idle" /\ UNCHANGED <<tasks, accepted, rejected, callerVars>>
  BY DEF OpStep, ConnectDone, ProcessDone, OpCloseDone, Retry
<1>2. tasks # <<>> /\ r = Head(tasks) /\ posted = <<>> /\ Active = {r}
  BY <1>1, ActiveOp
<1>3. \A ec : Complete(r, ec, posted) =>
                /\ \A q \in Requests \ {r} : opPc'[q] = opPc[q]
                /\ ~(posted' # <<>> /\ Head(posted') = "process_task")
  BY <1>2 DEF Complete, TypeOK
<1>4. ASSUME ConnectDone(r)
      PROVE  /\ \A q \in Requests \ {r} :
                /\ attempts'[q] = attempts[q] /\ firstRound'[q] = firstRound[q]
                /\ opPc'[q] = opPc[q] /\ lastEc'[q] = lastEc[q]
             /\ ~(posted' # <<>> /\ Head(posted') = "process_task")
  <2>1. \/ (\E ec : Complete(r, ec, posted)) /\ UNCHANGED attempts
        \/ /\ opPc' = [opPc EXCEPT ![r] = "process"]
           /\ attempts' = [attempts EXCEPT ![r] = @ + 1]
           /\ UNCHANGED posted
    BY <1>4 DEF ConnectDone
  <2>2. UNCHANGED <<firstRound, lastEc>>
    BY <1>4 DEF ConnectDone
  <2> QED BY <1>2, <1>3, <2>1, <2>2 DEF TypeOK
<1>5. ASSUME ProcessDone(r)
      PROVE  /\ \A q \in Requests \ {r} :
                /\ attempts'[q] = attempts[q] /\ firstRound'[q] = firstRound[q]
                /\ opPc'[q] = opPc[q] /\ lastEc'[q] = lastEc[q]
             /\ ~(posted' # <<>> /\ Head(posted') = "process_task")
  <2>1. \/ (\E ec : Complete(r, ec, posted)) /\ UNCHANGED lastEc
        \/ /\ \E pc : opPc' = [opPc EXCEPT ![r] = pc]
           /\ \E ec : lastEc' = [lastEc EXCEPT ![r] = ec]
           /\ UNCHANGED posted
    BY <1>5 DEF ProcessDone
  <2>2. UNCHANGED <<firstRound, attempts>>
    BY <1>5 DEF ProcessDone
  <2> QED BY <1>2, <1>3, <2>1, <2>2 DEF TypeOK
<1>6. ASSUME OpCloseDone(r)
      PROVE  /\ \A q \in Requests \ {r} :
                /\ attempts'[q] = attempts[q] /\ firstRound'[q] = firstRound[q]
                /\ opPc'[q] = opPc[q] /\ lastEc'[q] = lastEc[q]
             /\ ~(posted' # <<>> /\ Head(posted') = "process_task")
  <2>1. \/ (\E ec : Complete(r, ec, posted)) /\ UNCHANGED firstRound
        \/ /\ opPc' = [opPc EXCEPT ![r] = "retry"]
           /\ firstRound' = [firstRound EXCEPT ![r] = FALSE]
           /\ UNCHANGED posted
    BY <1>6 DEF OpCloseDone
  <2>2. UNCHANGED <<lastEc, attempts>>
    BY <1>6 DEF OpCloseDone
  <2> QED BY <1>2, <1>3, <2>1, <2>2 DEF TypeOK
<1>7. ASSUME Retry(r)
      PROVE  /\ \A q \in Requests \ {r} :
                /\ attempts'[q] = attempts[q] /\ firstRound'[q] = firstRound[q]
                /\ opPc'[q] = opPc[q] /\ lastEc'[q] = lastEc[q]
             /\ ~(posted' # <<>> /\ Head(posted') = "process_task")
  <2>1. RunOp(r, posted) /\ posted \in Seq(StrandJob) /\ UNCHANGED <<firstRound, lastEc>>
    BY <1>7 DEF Retry, TypeOK
  <2> QED BY <1>2, <2>1, RunOpAlone
<1> QED BY <1>1, <1>2, <1>4, <1>5, <1>6, <1>7 DEF OpStep

\* A request loses its freshness only when its op runs, at the head.
LEMMA UntouchedStep == Accounts /\ [Next]_vars => Untouched'
<1> SUFFICES ASSUME Accounts, [Next]_vars PROVE Untouched'
  OBVIOUS
<1> USE DEF Accounts
<1>1. ASSUME NEW r \in Requests, Push(r) PROVE Untouched'
  <2>1. r \notin Pushed /\ UNCHANGED <<attempts, firstRound>> /\ Fresh(r)
    BY <1>1 DEF Push, opVars, Untouched
  <2>2. CASE ~running
    <3>1. UNCHANGED <<tasks, posted, accepted>> /\ rejected' = rejected \cup {r}
      BY <1>1, <2>2 DEF Push
    <3>2. Pushed \subseteq Pushed'
      BY <3>1 DEF Pushed
    <3> QED BY <2>1, <3>1, <3>2 DEF Untouched, Fresh
  <2>3. CASE running
    <3>1. /\ tasks' = Append(tasks, r) /\ accepted' = Append(accepted, r)
          /\ posted' = IF Len(tasks') = 1 THEN Append(posted, "process_task")
                                          ELSE posted
          /\ UNCHANGED rejected
      BY <1>1, <2>3 DEF Push
    <3>2. /\ Len(tasks) \in Nat /\ Len(tasks') = Len(tasks) + 1
          /\ \A i \in 1 .. Len(tasks) : tasks'[i] = tasks[i]
          /\ tasks'[Len(tasks) + 1] = r
      BY <3>1 DEF TypeOK
    <3>3. Pushed \subseteq Pushed'
      <4>1. \A i \in DOMAIN accepted : i \in DOMAIN accepted' /\ accepted'[i] = accepted[i]
        <5>1. /\ Len(accepted) \in Nat /\ Len(accepted') = Len(accepted) + 1
              /\ DOMAIN accepted = 1 .. Len(accepted)
              /\ DOMAIN accepted' = 1 .. Len(accepted')
              /\ \A i \in 1 .. Len(accepted) : accepted'[i] = accepted[i]
          BY <3>1 DEF TypeOK
        <5> QED BY <5>1
      <4> QED BY <3>1, <4>1 DEF Pushed
    <3>4. \A i \in 1 .. Len(tasks') :
             i > 1 \/ (posted' # <<>> /\ Head(posted') = "process_task")
               => Fresh(tasks'[i])
      <4> TAKE i \in 1 .. Len(tasks')
      <4> HAVE i > 1 \/ (posted' # <<>> /\ Head(posted') = "process_task")
      <4>1. CASE i = Len(tasks) + 1
        BY <2>1, <3>2, <4>1
      <4>2. CASE i \in 1 .. Len(tasks)
        <5>1. UNCHANGED posted
          BY <3>1, <3>2, <4>2
        <5> QED BY <3>2, <4>2, <5>1 DEF Untouched
      <4> QED BY <3>2, <4>1, <4>2
    <3> QED BY <2>1, <3>3, <3>4 DEF Untouched, Fresh
  <2> QED BY <2>2, <2>3
<1>2. ASSUME NEW r \in Requests, OpStep(r) PROVE Untouched'
  BY <1>2, OpAlone, UntouchedOp
<1>3. CASE ProcessTask
  <2>1. UNCHANGED <<tasks, accepted, rejected, firstRound>>
    BY <1>3 DEF ProcessTask
  <2>2. <<>> \in Seq(StrandJob)
    OBVIOUS
  <2> QED BY <1>3, <2>1, <2>2, ProcessTaskRuns, RunOpAlone, UntouchedOp
<1>4. CASE AdvanceTask
  <2>1. UNCHANGED <<accepted, rejected, firstRound>> /\ Pushed' = Pushed
    BY <1>4 DEF AdvanceTask, Pushed
  <2>2. CASE tasks' = <<>> /\ posted' = <<>> /\ UNCHANGED attempts
    BY <2>1, <2>2 DEF Untouched, Fresh
  <2>3. ASSUME Tail(tasks) # <<>>, RunOp(Head(Tail(tasks)), <<>>),
               tasks' = Tail(tasks), Head(Tail(tasks)) \in Requests
        PROVE  Untouched'
    <3> DEFINE r == tasks[2]
    <3>1. /\ Len(tasks) \in Nat /\ Len(accepted) \in Nat /\ Len(tasks) >= 2
          /\ Len(Tail(tasks)) = Len(tasks) - 1
          /\ \A i \in 1 .. Len(tasks) - 1 : Tail(tasks)[i] = tasks[i + 1]
          /\ Head(Tail(tasks)) = r
      <4>1. tasks # <<>> /\ tasks \in Seq(Requests) /\ accepted \in Seq(Requests)
        BY <1>4, AdvanceTaskRuns DEF TypeOK
      <4>2. Len(tasks) \in Nat /\ Len(accepted) \in Nat
        BY <4>1
      <4>3. /\ Tail(tasks) \in Seq(Requests)
            /\ Len(Tail(tasks)) = Len(tasks) - 1
            /\ \A i \in 1 .. Len(tasks) - 1 : Tail(tasks)[i] = tasks[i + 1]
        BY <4>1
      <4>4. Len(tasks) >= 2
        BY <2>3, <4>2, <4>3
      <4>5. Head(Tail(tasks)) = Tail(tasks)[1]
        BY <2>3, <4>3
      <4>6. Tail(tasks)[1] = r
        BY <4>2, <4>3, <4>4
      <4> QED BY <4>2, <4>3, <4>4, <4>5, <4>6
    <3>2. /\ \A q \in Requests \ {r} : attempts'[q] = attempts[q]
          /\ ~(posted' # <<>> /\ Head(posted') = "process_task")
      <4>1. <<>> \in Seq(StrandJob) /\ r \in Requests /\ RunOp(r, <<>>)
        BY <2>3, <3>1
      <4> QED BY <4>1, RunOpAlone
    <3>3. r \in Pushed
      BY <3>1, TasksPushed
    <3>4. ASSUME NEW i \in 1 .. Len(tasks), i > 2
          PROVE  tasks[i] # r /\ tasks[i] \in Requests /\ Fresh(tasks[i])
      <4>1. /\ tasks[i] = accepted[Len(accepted) - Len(tasks) + i]
            /\ tasks[2] = accepted[Len(accepted) - Len(tasks) + 2]
            /\ Len(accepted) - Len(tasks) + i \in 1 .. Len(accepted)
            /\ Len(accepted) - Len(tasks) + 2 \in 1 .. Len(accepted)
            /\ tasks[i] \in Requests
        BY <3>1, TasksPushed
      <4>2. Len(accepted) - Len(tasks) + i # Len(accepted) - Len(tasks) + 2
        BY <3>1, <3>4
      <4> QED BY <3>4, <4>1, <4>2 DEF Distinct, Untouched
    <3>5. ASSUME NEW i \in 1 .. Len(tasks'), i > 1
          PROVE  attempts'[tasks'[i]] = 0 /\ firstRound'[tasks'[i]]
      <4>1. i + 1 \in 1 .. Len(tasks) /\ i + 1 > 2 /\ tasks'[i] = tasks[i + 1]
        BY <2>3, <3>1, <3>5
      <4> QED BY <2>1, <3>2, <3>4, <4>1 DEF Fresh
    <3> QED BY <2>1, <3>2, <3>3, <3>5 DEF Untouched, Fresh
  <2> QED BY <1>4, <2>2, <2>3, AdvanceTaskRuns
<1>5. CASE UNCHANGED <<tasks, posted, opVars, historyVars>>
  BY <1>5, UntouchedFrame DEF opVars, historyVars
<1> QED BY <1>1, <1>2, <1>3, <1>4, <1>5, WorkOrNot

\* The accounts of all requests but r are as they were.
LEMMA RoundsAlone ==
    ASSUME Rounds, NEW r \in Requests,
           \A q \in Requests \ {r} :
              attempts'[q] = attempts[q] /\ firstRound'[q] = firstRound[q]
              /\ opPc'[q] = opPc[q],
           /\ opPc'[r] = "connect" => attempts'[r] <= IF firstRound'[r] THEN 0 ELSE 1
           /\ opPc'[r] \in {"process", "closing", "close_posted"} =>
                 attempts'[r] <= IF firstRound'[r] THEN 1 ELSE 2
           /\ opPc'[r] = "retry" => ~firstRound'[r] /\ attempts'[r] <= 1
           /\ attempts'[r] <= 2
    PROVE  Rounds'
<1> SUFFICES ASSUME NEW q \in Requests
             PROVE  /\ opPc'[q] = "connect" =>
                          attempts'[q] <= IF firstRound'[q] THEN 0 ELSE 1
                    /\ opPc'[q] \in {"process", "closing", "close_posted"} =>
                          attempts'[q] <= IF firstRound'[q] THEN 1 ELSE 2
                    /\ opPc'[q] = "retry" => ~firstRound'[q] /\ attempts'[q] <= 1
                    /\ attempts'[q] <= 2
  BY DEF Rounds
<1>1. CASE q = r
  BY <1>1
<1>2. CASE q # r
  BY <1>2 DEF Rounds
<1> QED BY <1>1, <1>2

\* An op that enters its round connects, or sends its request once.
LEMMA RoundsRun ==
    ASSUME TypeOK, Rounds, NEW r \in Requests, RunOp(r, <<>>), UNCHANGED firstRound,
           attempts[r] <= IF firstRound[r] THEN 0 ELSE 1
    PROVE  Rounds'
<1>1. \A q \in Requests \ {r} :
         attempts'[q] = attempts[q] /\ firstRound'[q] = firstRound[q]
         /\ opPc'[q] = opPc[q]
  <2>1. <<>> \in Seq(StrandJob)
    OBVIOUS
  <2> QED BY <2>1, RunOpAlone
<1>2. attempts[r] \in Nat /\ firstRound[r] \in BOOLEAN /\ firstRound'[r] = firstRound[r]
  BY DEF TypeOK
<1>3. \/ opPc'[r] \in {"idle", "connect"} /\ attempts'[r] = attempts[r]
      \/ opPc'[r] = "process" /\ attempts'[r] = attempts[r] + 1
  BY DEF RunOp, Complete, TypeOK
<1> QED BY <1>1, <1>2, <1>3, RoundsAlone

\* Each entry of process_queue_op keeps to its round.
LEMMA RoundsStep == Accounts /\ [Next]_vars => Rounds'
<1> SUFFICES ASSUME Accounts, [Next]_vars PROVE Rounds'
  OBVIOUS
<1> USE DEF Accounts
<1>1. ASSUME NEW r \in Requests, Push(r) PROVE Rounds'
  BY <1>1 DEF Push, opVars, Rounds
<1>2. ASSUME NEW r \in Requests, OpStep(r) PROVE Rounds'
  <2>1. attempts[r] \in Nat /\ firstRound[r] \in BOOLEAN /\ posted = <<>>
    BY <1>2, OpAlone DEF TypeOK
  <2>2. \A q \in Requests \ {r} :
           attempts'[q] = attempts[q] /\ firstRound'[q] = firstRound[q]
           /\ opPc'[q] = opPc[q]
    BY <1>2, OpAlone
  <2>3. CASE ConnectDone(r)
    <3>1. /\ opPc[r] = "connect" /\ firstRound'[r] = firstRound[r]
          /\ \/ opPc'[r] = "idle" /\ attempts'[r] = attempts[r]
             \/ opPc'[r] = "process" /\ attempts'[r] = attempts[r] + 1
      BY <2>3 DEF ConnectDone, Complete, TypeOK
    <3> QED BY <2>1, <2>2, <3>1, RoundsAlone DEF Rounds
  <2>4. CASE ProcessDone(r)
    <3>1. /\ opPc[r] = "process" /\ firstRound'[r] = firstRound[r]
          /\ attempts'[r] = attempts[r]
          /\ opPc'[r] \in {"idle", "closing", "close_posted"}
      BY <2>4 DEF ProcessDone, Complete, CloseState, TypeOK
    <3> QED BY <2>1, <2>2, <3>1, RoundsAlone DEF Rounds
  <2>5. CASE OpCloseDone(r)
    <3>1. /\ opPc[r] \in {"closing", "close_posted"}
          /\ attempts'[r] = attempts[r]
          /\ \/ opPc'[r] = "idle"
             \/ opPc'[r] = "retry" /\ firstRound[r] /\ ~firstRound'[r]
      BY <2>5 DEF OpCloseDone, Complete, TypeOK
    <3> QED BY <2>1, <2>2, <3>1, RoundsAlone DEF Rounds
  <2>6. CASE Retry(r)
    <3>1. RunOp(r, <<>>) /\ UNCHANGED firstRound /\ opPc[r] = "retry"
      BY <2>1, <2>6 DEF Retry
    <3> QED BY <3>1, RoundsRun DEF Rounds
  <2> QED BY <1>2, <2>3, <2>4, <2>5, <2>6 DEF OpStep
<1>3. CASE ProcessTask
  <2>1. Fresh(Head(tasks)) /\ Head(tasks) \in Requests
    <3>1. tasks # <<>> /\ posted # <<>> /\ Head(posted) = "process_task"
      BY <1>3, ProcessTaskRuns DEF ProcessTask
    <3>2. 1 \in 1 .. Len(tasks) /\ Head(tasks) = tasks[1] /\ tasks[1] \in Requests
      BY <3>1 DEF TypeOK
    <3> QED BY <3>1, <3>2 DEF Untouched
  <2>2. UNCHANGED firstRound
    BY <1>3 DEF ProcessTask
  <2> QED BY <1>3, <2>1, <2>2, ProcessTaskRuns, RoundsRun DEF Fresh
<1>4. CASE AdvanceTask
  <2>1. UNCHANGED firstRound
    BY <1>4 DEF AdvanceTask
  <2>2. CASE UNCHANGED <<opPc, attempts>>
    BY <2>1, <2>2 DEF Rounds
  <2>3. ASSUME Tail(tasks) # <<>>, RunOp(Head(Tail(tasks)), <<>>),
               Head(Tail(tasks)) \in Requests
        PROVE  Rounds'
    <3>1. 2 \in 1 .. Len(tasks) /\ Head(Tail(tasks)) = tasks[2]
      BY <1>4, <2>3, AdvanceTaskRuns DEF TypeOK
    <3>2. Fresh(tasks[2])
      BY <3>1 DEF Untouched
    <3> QED BY <2>1, <2>3, <3>1, <3>2, RoundsRun DEF Fresh
  <2> QED BY <1>4, <2>2, <2>3, AdvanceTaskRuns
<1>5. CASE UNCHANGED <<tasks, posted, opVars, historyVars>>
  BY <1>5 DEF opVars, historyVars, Rounds
<1> QED BY <1>1, <1>2, <1>3, <1>4, <1>5, WorkOrNot

\* The inductive invariant that bounds the retries.
LEMMA AccountsInvariant == Spec => []Accounts
<1>1. Init => Accounts
  <2> SUFFICES ASSUME Init PROVE Accounts
    OBVIOUS
  <2>1. TypeOK /\ SingleRunner /\ InOrder
    BY InitEstablishes
  <2>2. Distinct /\ Untouched /\ Rounds
    BY DEF Init, Distinct, Untouched, Fresh, Rounds
  <2> QED BY <2>1, <2>2 DEF Accounts
<1>2. Accounts /\ [Next]_vars => Accounts'
  BY TypeStep, RunnerStep, OrderStep, DistinctStep, UntouchedStep, RoundsStep
     DEF Accounts
<1> QED BY <1>1, <1>2, PTL DEF Spec

(***************************************************************************)
(* process_queue_op retries once: whatever fails, is stopped or started    *)
(* again, no request is put on the wire a third time.                      *)
(***************************************************************************)
THEOREM RetriedOnce == Spec => []AtMostTwoAttempts
<1>1. Accounts => AtMostTwoAttempts
  BY DEF Accounts, Rounds, AtMostTwoAttempts
<1> QED BY <1>1, AccountsInvariant, PTL

-----------------------------------------------------------------------------

(***************************************************************************)
(* What the operations of the transport leave of it.                       *)
(***************************************************************************)

\* The calls and the events of the socket.
LEMMA CallShapes ==
    ASSUME NEW t \in Transport
    PROVE  /\ ConnectCall(t).running /\ ConnectCall(t).conn = "resolving"
           /\ ConnectCall(t).proxied = t.proxied
           /\ ConnectCall(t).dirty => t.dirty /\ (t.running \/ t.proxied)
           /\ ConnectCall(t).extra => t.extra /\ (t.running \/ t.proxied)
           /\ ~CloseCall(t).running /\ CloseCall(t).proxied = t.proxied
           /\ CloseCall(t).open = t.open /\ CloseCall(t).conn = t.conn
           /\ Opened(t).running = t.running /\ Opened(t).proxied = t.proxied
           /\ Opened(t).conn = "connecting" /\ Opened(t).dirty = t.dirty
           /\ Opened(t).extra = t.extra
           /\ Dropped(t).running = t.running /\ Dropped(t).proxied = t.proxied
           /\ Dropped(t).conn = t.conn /\ Dropped(t).dirty = t.dirty
           /\ Dropped(t).extra = t.extra /\ Dropped(t).used = t.used
           /\ ~Dropped(t).open
<1>1. /\ Reset(t) \in Transport /\ Reset(t).proxied = t.proxied
      /\ ~Reset(t).dirty /\ ~Reset(t).extra
  BY DEF Reset, NewStream, Transport
<1>2. CASE t.running \/ t.proxied
  BY <1>2 DEF ConnectCall, CloseCall, Opened, Dropped, Transport
<1>3. CASE ~(t.running \/ t.proxied)
  <2>1. ConnectCall(t) = [Reset(t) EXCEPT !.running = TRUE, !.conn = "resolving"]
    BY <1>3 DEF ConnectCall
  <2> QED BY <1>1, <2>1 DEF CloseCall, Opened, Dropped, Transport
<1> QED BY <1>2, <1>3

\* The end of a close: a tunnel's buffer is cleared, and a connection that is
\* still there was not touched.
LEMMA CloseShape ==
    ASSUME NEW t \in Transport, NEW pc
    PROVE  LET u == CloseEnd(t, pc) IN
           /\ u.running = t.running /\ u.proxied = t.proxied
           /\ u.dirty => t.dirty /\ ~t.proxied
           /\ u.extra => t.extra
           /\ u.conn = t.conn \/ (u.conn = "none" /\ t.conn = "linked")
           /\ u.open => t.open /\ pc # "closing"
<1>1. /\ Closed(t, pc) \in Transport
      /\ Closed(t, pc).running = t.running /\ Closed(t, pc).proxied = t.proxied
      /\ Closed(t, pc).dirty = t.dirty /\ Closed(t, pc).extra = t.extra
      /\ \/ Closed(t, pc).conn = t.conn
         \/ Closed(t, pc).conn = "none" /\ t.conn = "linked"
      /\ Closed(t, pc).open => t.open /\ pc # "closing"
  BY DEF Closed, Transport
<1>2. ASSUME NEW u \in Transport
      PROVE  /\ Reset(u).running = u.running /\ Reset(u).proxied = u.proxied
             /\ ~Reset(u).dirty /\ ~Reset(u).extra /\ ~Reset(u).open
             /\ Reset(u).conn = u.conn \/ (Reset(u).conn = "none" /\ u.conn = "linked")
  BY DEF Reset, NewStream, Transport
<1>3. CASE t.proxied
  <2> DEFINE v == Closed(t, pc)
             u == Reset(v)
  <2>1. CloseEnd(t, pc) = u
    BY <1>3 DEF CloseEnd
  <2>2. /\ u.running = v.running /\ u.proxied = v.proxied
        /\ ~u.dirty /\ ~u.extra /\ ~u.open
        /\ u.conn = v.conn \/ (u.conn = "none" /\ v.conn = "linked")
    BY <1>1, <1>2
  <2> HIDE DEF u
  <2>3. /\ u.running = t.running /\ u.proxied = t.proxied
        /\ ~u.dirty /\ ~u.extra /\ ~u.open
        /\ u.conn = t.conn \/ (u.conn = "none" /\ t.conn = "linked")
    BY <1>1, <2>2
  <2> QED BY <2>1, <2>3
<1>4. CASE ~t.proxied
  <2>1. CloseEnd(t, pc) = Closed(t, pc)
    BY <1>4 DEF CloseEnd
  <2> QED BY <1>1, <1>4, <2>1
<1> QED BY <1>3, <1>4

\* A connect reads into the buffer only if it tunnels, and leaves an open
\* connection or none; only a close aborts it.
LEMMA ConnectShape ==
    ASSUME NEW t \in Transport, NEW res \in ConnectResults(t)
    PROVE  /\ res.tr.running = t.running /\ res.tr.proxied = t.proxied
           /\ res.tr.dirty = t.dirty
           /\ ~t.proxied => res.tr.extra = t.extra
           /\ res.tr.conn \in {"linked", "none"}
           /\ res.tr.conn = "linked" => res.tr.open
           /\ res.ec \in ErrorCode
           /\ res.ec = "aborted" => ~t.running
<1>1. PICK u \in {t, Surplus(t)} :
        /\ ~t.proxied => u = t
        /\ \/ /\ t.conn = "connecting" /\ t.open
              /\ res = Result("ok", [u EXCEPT !.conn = "linked", !.used = FALSE])
           \/ \E ec \in Failures(t) : res = Result(ec, [u EXCEPT !.conn = "none"])
  BY ConnectForms
<1>2. /\ u \in Transport /\ u.running = t.running /\ u.proxied = t.proxied
      /\ u.dirty = t.dirty /\ u.open = t.open
  BY DEF Surplus, Transport
<1>3. CASE /\ t.open
           /\ res = Result("ok", [u EXCEPT !.conn = "linked", !.used = FALSE])
  BY <1>1, <1>2, <1>3 DEF Result, Transport, ErrorCode
<1>4. ASSUME NEW ec \in Failures(t), res = Result(ec, [u EXCEPT !.conn = "none"])
      PROVE  /\ res.ec \in ErrorCode /\ (res.ec = "aborted" => ~t.running)
             /\ res.tr.running = t.running /\ res.tr.proxied = t.proxied
             /\ res.tr.dirty = t.dirty /\ (~t.proxied => res.tr.extra = t.extra)
             /\ res.tr.conn = "none"
  <2>1. ec \in ErrorCode /\ (ec = "aborted" => ~t.running)
    BY DEF Failures, ErrorCode
  <2> QED BY <1>1, <1>2, <1>4, <2>1 DEF Result, Transport
<1> QED BY <1>1, <1>3, <1>4

\* A response is read over a running transport; only a close aborts a request.
LEMMA ProcessShape ==
    ASSUME NEW t \in Transport, NEW res \in ProcessResults(t)
    PROVE  /\ res.tr \in Transport
           /\ res.tr.running = t.running /\ res.tr.proxied = t.proxied
           /\ res.tr.conn = t.conn /\ res.tr.open = t.open
           /\ res.ec \in ErrorCode
           /\ res.ec = "ok" => /\ t.running /\ t.open /\ t.conn = "linked"
                               /\ res.tr.dirty = t.dirty /\ res.tr.used
           /\ res.ec = "aborted" => ~t.running
<1>1. CASE /\ t.running /\ t.open /\ t.conn = "linked"
           /\ res = Result("ok", [Surplus(t) EXCEPT !.used = TRUE])
  <2>1. /\ Surplus(t) \in Transport /\ Surplus(t).running = t.running
        /\ Surplus(t).proxied = t.proxied /\ Surplus(t).conn = t.conn
        /\ Surplus(t).open = t.open /\ Surplus(t).dirty = t.dirty
    BY DEF Surplus, Transport
  <2> QED BY <1>1, <2>1 DEF Result, Transport, ErrorCode
<1>2. ASSUME NEW ec \in Failures(t), NEW u \in {t, Soiled(t)}, res = Result(ec, u)
      PROVE  /\ res.tr \in Transport
             /\ res.tr.running = t.running /\ res.tr.proxied = t.proxied
             /\ res.tr.conn = t.conn /\ res.tr.open = t.open
             /\ res.ec \in ErrorCode /\ res.ec # "ok"
             /\ res.ec = "aborted" => ~t.running
  <2>1. /\ u \in Transport /\ u.running = t.running /\ u.proxied = t.proxied
        /\ u.conn = t.conn /\ u.open = t.open
    BY DEF Soiled, Transport
  <2>2. ec \in ErrorCode /\ ec # "ok" /\ (ec = "aborted" => ~t.running)
    BY DEF Failures, ErrorCode
  <2> QED BY <1>2, <2>1, <2>2 DEF Result
<1> QED BY <1>1, <1>2, ProcessForms

-----------------------------------------------------------------------------

(***************************************************************************)
(* The session and its connection.                                         *)
(***************************************************************************)

\* A session that is being stopped does not run.
StoppedNotRunning == Stopping => ~running

\* Nothing is queued while async_start connects.
StartsAlone == Starting => tasks = <<>>

\* A connection is made for an async_start or for an op.
ConnectOwned ==
    tr.conn \in {"resolving", "connecting"} =>
        Starting \/ \E r \in Requests : opPc[r] = "connect"

\* The transport of a running session runs, but for the close and the second
\* round of an op.
UpWhileRunning ==
    running => tr.running \/ \E r \in Requests :
                                opPc[r] \in {"closing", "close_posted", "retry"}

\* An op on its way to its second round finds the socket closed.
RetryReconnects ==
    \A r \in Requests :
        running /\ opPc[r] \in {"close_posted", "retry"} => ~tr.open

\* A session stopped under a request has closed its transport.
StoppedUnder ==
    \A r \in Requests : opPc[r] = "process" /\ ~running => ~tr.running

Connection ==
    /\ StoppedNotRunning /\ StartsAlone /\ ConnectOwned /\ UpWhileRunning
    /\ RetryReconnects /\ StoppedUnder

\* While an op runs no other one does, and no start is under way.
LEMMA OpsAlone ==
    ASSUME SingleRunner, StartsAlone, NEW r \in Requests, opPc[r] # "idle"
    PROVE  ~Starting /\ \A q \in Requests \ {r} : opPc[q] = "idle"
<1>1. tasks # <<>> /\ Active = {r}
  BY ActiveOp
<1> QED BY <1>1 DEF StartsAlone, Active

\* An op entered at its top: it connects, or finds the transport up.
LEMMA ConnectionRun ==
    ASSUME TypeOK, Connection, NEW r \in Requests, RunOp(r, <<>>), ~Starting,
           opPc[r] \in {"idle", "retry"},
           \A q \in Requests \ {r} : opPc[q] = "idle",
           UNCHANGED <<running, startPc>>, Stopping' => Stopping
    PROVE  Connection'
<1>1. \A q \in Requests \ {r} : opPc'[q] = "idle"
  <2>1. <<>> \in Seq(StrandJob)
    OBVIOUS
  <2> QED BY <2>1, RunOpAlone
<1>2. ~Starting' /\ tr \in Transport /\ (Stopping' => ~running')
  BY DEF Starting, TypeOK, Connection, StoppedNotRunning
<1>3. CASE ~running
  <2>1. opPc'[r] = "idle" /\ tr' = tr
    BY <1>3 DEF RunOp, Complete, TypeOK
  <2>2. ~(tr.conn \in {"resolving", "connecting"})
    BY DEF Connection, ConnectOwned
  <2> QED BY <1>1, <1>2, <1>3, <2>1, <2>2
          DEF Connection, StoppedNotRunning, StartsAlone, ConnectOwned,
              UpWhileRunning, RetryReconnects, StoppedUnder
<1>4. CASE running /\ ~tr.open
  <2>1. opPc'[r] = "connect" /\ tr' = ConnectCall(tr)
    BY <1>4 DEF RunOp, TypeOK
  <2>2. tr'.running /\ tr'.conn = "resolving"
    BY <1>2, <2>1, CallShapes
  <2> QED BY <1>1, <1>2, <1>4, <2>1, <2>2
          DEF Connection, StoppedNotRunning, StartsAlone, ConnectOwned,
              UpWhileRunning, RetryReconnects, StoppedUnder
<1>5. CASE running /\ tr.open
  <2>1. opPc'[r] = "process" /\ tr' = tr
    BY <1>5 DEF RunOp, TypeOK
  <2>2. opPc[r] = "idle"
    BY <1>5 DEF Connection, RetryReconnects
  <2>3. tr.running
    BY <1>5, <2>2 DEF Connection, UpWhileRunning
  <2>4. ~(tr.conn \in {"resolving", "connecting"})
    BY <2>2 DEF Connection, ConnectOwned
  <2> QED BY <1>1, <1>2, <1>5, <2>1, <2>3, <2>4
          DEF Connection, StoppedNotRunning, StartsAlone, ConnectOwned,
              UpWhileRunning, RetryReconnects, StoppedUnder
<1> QED BY <1>3, <1>4, <1>5

\* process_queue_op goes on or ends.
LEMMA ConnectionOp ==
    ASSUME TypeOK, SingleRunner, Connection, NEW r \in Requests, OpStep(r)
    PROVE  Connection'
<1>1. /\ posted = <<>> /\ UNCHANGED <<tasks, startPc, stopPc>> /\ opPc[r] # "idle"
      /\ \A q \in Requests \ {r} : opPc'[q] = opPc[q]
  BY OpAlone DEF callerVars, OpStep, ConnectDone, ProcessDone, OpCloseDone, Retry
<1>2. ~Starting /\ \A q \in Requests \ {r} : opPc[q] = "idle"
  BY <1>1, OpsAlone DEF Connection
<1>3. tr \in Transport /\ ~Starting' /\ Stopping' = Stopping
  BY <1>1, <1>2 DEF TypeOK, Starting, Stopping
<1> USE DEF Connection, StoppedNotRunning, StartsAlone, ConnectOwned,
            UpWhileRunning, RetryReconnects, StoppedUnder
<1>4. CASE ConnectDone(r)
  <2>1. PICK res \in ConnectResults(tr) : ConnectDone(r)!2!(res)
    BY <1>4 DEF ConnectDone
  <2>2. tr'.running = tr.running /\ tr'.conn \in {"linked", "none"}
    BY <1>3, <2>1, ConnectShape
  <2>3. opPc[r] = "connect" /\ (running => tr.running)
    BY <1>2, <1>4 DEF ConnectDone
  <2>4. \/ opPc'[r] = "idle" /\ (running' => running)
        \/ opPc'[r] = "process" /\ running /\ running'
    BY <2>1 DEF Complete, TypeOK
  <2> QED BY <1>1, <1>2, <1>3, <2>2, <2>3, <2>4
<1>5. CASE ProcessDone(r)
  <2>1. PICK res \in ProcessResults(tr) : ProcessDone(r)!2!(res)
    BY <1>5 DEF ProcessDone
  <2>2. /\ res.tr \in Transport
        /\ res.tr.running = tr.running
        /\ res.tr.conn = tr.conn /\ res.tr.open = tr.open
        /\ res.ec \in ErrorCode
        /\ res.ec = "aborted" => ~tr.running
    BY <1>3, <2>1, ProcessShape
  <2>3. /\ opPc[r] = "process" /\ (running => tr.running) /\ running' = running
        /\ ~running => ~tr.running
    BY <1>2, <1>5 DEF ProcessDone
  <2>4. ~(tr.conn \in {"resolving", "connecting"})
    BY <1>2, <2>3
  <2>5. CASE opPc'[r] = "idle" /\ tr' = res.tr /\ (res.ec = "ok" \/ ~tr.running)
    BY <1>1, <1>2, <1>3, <2>2, <2>3, <2>4, <2>5
  <2>6. CASE opPc'[r] = CloseState(res.tr) /\ tr' = CloseCall(res.tr)
    <3>1. /\ ~tr'.running /\ tr'.conn = tr.conn /\ tr'.open = tr.open
      BY <2>2, <2>6, CallShapes
    <3>2. opPc'[r] = "closing" \/ (opPc'[r] = "close_posted" /\ ~tr'.open)
      BY <2>2, <2>6, <3>1 DEF CloseState
    <3> QED BY <1>1, <1>2, <1>3, <2>3, <2>4, <3>1, <3>2
  <2>7. \/ /\ opPc'[r] = "idle" /\ tr' = res.tr
           /\ res.ec = "ok" \/ res.ec = "aborted" \/ ~running
        \/ opPc'[r] = CloseState(res.tr) /\ tr' = CloseCall(res.tr)
    BY <2>1 DEF Complete, TypeOK
  <2> QED BY <2>2, <2>3, <2>5, <2>6, <2>7
<1>6. CASE OpCloseDone(r)
  <2>1. /\ tr'.running = tr.running /\ tr'.conn \in {tr.conn, "none"}
        /\ tr'.open => tr.open /\ opPc[r] # "closing"
    BY <1>3, <1>6, CloseShape DEF OpCloseDone
  <2>2. opPc[r] \in {"closing", "close_posted"}
    BY <1>6 DEF OpCloseDone
  <2>3. ~(tr.conn \in {"resolving", "connecting"})
    BY <1>2, <2>2
  <2>4. \/ opPc'[r] = "idle" /\ ~running'
        \/ opPc'[r] = "retry" /\ running /\ running'
    BY <1>6 DEF OpCloseDone, Complete, TypeOK
  <2> QED BY <1>1, <1>2, <1>3, <2>1, <2>2, <2>3, <2>4
<1>7. CASE Retry(r)
  <2>1. RunOp(r, <<>>) /\ opPc[r] = "retry" /\ UNCHANGED <<running, startPc>>
    BY <1>1, <1>7 DEF Retry
  <2> QED BY <1>2, <1>3, <2>1, ConnectionRun
<1> QED BY <1>4, <1>5, <1>6, <1>7 DEF OpStep

\* No step breaks the connection: stops and starts reach it only as told.
LEMMA ConnectionStep ==
    ASSUME TypeOK, SingleRunner, Connection, [Next]_vars
    PROVE  Connection'
<1>1. tr \in Transport
  BY DEF TypeOK
<1> USE DEF opVars, callerVars, historyVars
<1>2. CASE UNCHANGED vars
  BY <1>2 DEF vars, Connection, StoppedNotRunning, StartsAlone, ConnectOwned,
              UpWhileRunning, RetryReconnects, StoppedUnder,
              Starting, Stopping
<1>3. ASSUME NEW r \in Requests, Push(r) PROVE Connection'
  BY <1>3 DEF Push, Connection, StoppedNotRunning, StartsAlone, ConnectOwned,
              UpWhileRunning, RetryReconnects, StoppedUnder,
              Starting, Stopping
<1>4. ASSUME NEW r \in Requests, OpStep(r) PROVE Connection'
  BY <1>4, ConnectionOp
<1>5. CASE ProcessTask
  <2>1. /\ tasks # <<>> /\ Head(tasks) \in Requests /\ RunOp(Head(tasks), <<>>)
        /\ \A q \in Requests : opPc[q] = "idle"
        /\ UNCHANGED <<running, startPc, stopPc>>
    BY <1>5, ProcessTaskRuns DEF ProcessTask, Active
  <2>2. ~Starting /\ (Stopping' => Stopping)
    BY <2>1 DEF Connection, StartsAlone, Stopping
  <2> QED BY <2>1, <2>2, ConnectionRun
<1>6. CASE AdvanceTask
  <2>1. /\ tasks # <<>> /\ \A q \in Requests : opPc[q] = "idle"
        /\ UNCHANGED <<running, startPc>>
    BY <1>6, AdvanceTaskRuns DEF AdvanceTask, Active
  <2>2. Stopping' => Stopping
    <3>1. \/ UNCHANGED stopPc
          \/ stopPc' = [s \in Stops |-> IF stopPc[s] = "waiting" THEN "cancelled"
                                                             ELSE stopPc[s]]
      BY <1>6, AdvanceTaskRuns DEF CancelAllTasks, CancelTimer
    <3> QED BY <3>1 DEF Stopping
  <2>3. ~Starting /\ ~Starting'
    BY <2>1 DEF Connection, StartsAlone, Starting
  <2>4. CASE UNCHANGED <<opPc, tr>>
    BY <2>1, <2>2, <2>3, <2>4
       DEF Connection, StoppedNotRunning, StartsAlone, ConnectOwned,
           UpWhileRunning, RetryReconnects, StoppedUnder
  <2>5. ASSUME RunOp(Head(Tail(tasks)), <<>>), Head(Tail(tasks)) \in Requests
        PROVE  Connection'
    BY <2>1, <2>2, <2>3, <2>5, ConnectionRun
  <2> QED BY <1>6, <2>4, <2>5, AdvanceTaskRuns
<1>7. CASE Resolved
  <2>1. /\ tr.conn = "resolving" /\ UNCHANGED <<running, tasks, opPc, startPc, stopPc>>
        /\ tr'.running = tr.running /\ tr'.conn = "connecting"
    BY <1>1, <1>7, CallShapes DEF Resolved
  <2>2. ASSUME NEW r \in Requests, opPc[r] \in {"close_posted", "retry"}
        PROVE  FALSE
    <3>1. ~Starting /\ \A q \in Requests \ {r} : opPc[q] = "idle"
      BY <2>2, OpsAlone DEF Connection
    <3> QED BY <2>1, <2>2, <3>1 DEF Connection, ConnectOwned
  <2> QED BY <2>1, <2>2
          DEF Connection, StoppedNotRunning, StartsAlone, ConnectOwned,
              UpWhileRunning, RetryReconnects, StoppedUnder,
              Starting, Stopping
<1>8. CASE LoseSocket
  <2>1. /\ UNCHANGED <<running, tasks, opPc, startPc, stopPc>>
        /\ tr'.running = tr.running /\ tr'.conn = tr.conn /\ ~tr'.open
    BY <1>1, <1>8, CallShapes DEF LoseSocket
  <2> QED BY <2>1
          DEF Connection, StoppedNotRunning, StartsAlone, ConnectOwned,
              UpWhileRunning, RetryReconnects, StoppedUnder,
              Starting, Stopping
<1>9. ASSUME NEW s \in Starts, Start(s) PROVE Connection'
  <2>1. /\ tasks = <<>> /\ tasks' = <<>> /\ running' = TRUE
        /\ ~Stopping /\ UNCHANGED <<stopPc, opPc>>
        /\ startPc' = [startPc EXCEPT ![s] = "connect"]
        /\ tr'.running /\ tr'.conn = "resolving"
    BY <1>1, <1>9, CallShapes DEF Start
  <2>2. \A q \in Requests : opPc[q] = "idle"
    BY <2>1 DEF SingleRunner, Active
  <2>3. Starting' /\ ~Stopping'
    BY <2>1 DEF Starting, Stopping, TypeOK
  <2> QED BY <2>1, <2>2, <2>3
          DEF Connection, StoppedNotRunning, StartsAlone, ConnectOwned,
              UpWhileRunning, RetryReconnects, StoppedUnder
<1>10. ASSUME NEW s \in Starts, StartDone(s) PROVE Connection'
  <2>1. /\ startPc[s] = "connect" /\ UNCHANGED <<running, tasks, opPc, stopPc>>
        /\ startPc' = [startPc EXCEPT ![s] = "done"]
        /\ tr'.running = tr.running /\ tr'.conn \in {"linked", "none"}
    BY <1>1, <1>10, ConnectShape DEF StartDone
  <2>2. tasks = <<>>
    BY <2>1 DEF Connection, StartsAlone, Starting
  <2>3. \A q \in Requests : opPc[q] = "idle"
    BY <2>2 DEF SingleRunner, Active
  <2> QED BY <2>1, <2>2, <2>3
          DEF Connection, StoppedNotRunning, StartsAlone, ConnectOwned,
              UpWhileRunning, RetryReconnects, StoppedUnder,
              Stopping
<1>11. ASSUME NEW s \in Stops, NEW graceful \in BOOLEAN, Stop(s, graceful)
       PROVE  Connection'
  <2>1. ~running' /\ UNCHANGED <<tasks, opPc, startPc>>
    BY <1>11 DEF Stop
  <2>2. ~tr'.running /\ tr'.conn \in {tr.conn, "none"}
    <3>1. /\ CloseCall(tr) \in Transport /\ ~CloseCall(tr).running
          /\ CloseCall(tr).conn = tr.conn
      BY <1>1, CallShapes, TransportTyped
    <3>2. LET u == CloseEnd(CloseCall(tr), "close_posted") IN
          ~u.running /\ u.conn \in {tr.conn, "none"}
      BY <3>1, CloseShape
    <3> QED BY <1>11, <3>1, <3>2 DEF Stop
  <2> QED BY <2>1, <2>2
          DEF Connection, StoppedNotRunning, StartsAlone, ConnectOwned,
              UpWhileRunning, RetryReconnects, StoppedUnder,
              Starting
<1>12. ASSUME NEW s \in Stops, StopCloseDone(s) PROVE Connection'
  <2>1. /\ stopPc[s] \in {"closing", "close_posted"}
        /\ UNCHANGED <<running, tasks, opPc, startPc>>
        /\ tr'.running = tr.running /\ tr'.conn \in {tr.conn, "none"}
    BY <1>1, <1>12, CloseShape DEF StopCloseDone
  <2>2. ~running
    BY <2>1 DEF Connection, StoppedNotRunning, Stopping
  <2> QED BY <2>1, <2>2
          DEF Connection, StoppedNotRunning, StartsAlone, ConnectOwned,
              UpWhileRunning, RetryReconnects, StoppedUnder,
              Starting
<1>13. ASSUME NEW s \in Stops, StopWaitDone(s) PROVE Connection'
  <2>1. /\ stopPc[s] \in {"cancelled", "expired"}
        /\ UNCHANGED <<running, tasks, opPc, startPc, tr>>
    BY <1>13 DEF StopWaitDone
  <2>2. ~running
    BY <2>1 DEF Connection, StoppedNotRunning, Stopping
  <2> QED BY <2>1, <2>2
          DEF Connection, StoppedNotRunning, StartsAlone, ConnectOwned,
              UpWhileRunning, RetryReconnects, StoppedUnder,
              Starting
<1>14. CASE TimerExpires
  <2>1. UNCHANGED <<running, tasks, opPc, startPc, tr>> /\ Stopping
    BY <1>14 DEF TimerExpires, Stopping
  <2> QED BY <2>1
          DEF Connection, StoppedNotRunning, StartsAlone, ConnectOwned,
              UpWhileRunning, RetryReconnects, StoppedUnder,
              Starting
<1> QED
  BY <1>2, <1>3, <1>4, <1>5, <1>6, <1>7, <1>8, <1>9, <1>10, <1>11, <1>12,
     <1>13, <1>14 DEF Next

\* The inductive invariant about the connection.
LEMMA ConnectionInvariant == Spec => [](TypeOK /\ SingleRunner /\ Connection)
<1>1. Init => TypeOK /\ SingleRunner /\ Connection
  <2> SUFFICES ASSUME Init PROVE Connection
    BY InitEstablishes
  <2>1. tr.running /\ tr.conn = "none"
    BY DEF Init, NewTransport
  <2> QED BY <2>1
          DEF Init, Connection, StoppedNotRunning, StartsAlone, ConnectOwned,
              UpWhileRunning, RetryReconnects, StoppedUnder,
              Starting, Stopping
<1>2. TypeOK /\ SingleRunner /\ Connection /\ [Next]_vars
        => TypeOK' /\ SingleRunner' /\ Connection'
  BY TypeStep, RunnerStep, ConnectionStep
<1> QED BY <1>1, <1>2, PTL DEF Spec

-----------------------------------------------------------------------------

(***************************************************************************)
(* The session and the buffer of its transport.                            *)
(***************************************************************************)
BeingClosed ==
    \/ \E r \in Requests : opPc[r] \in {"closing", "close_posted"}
    \/ \E s \in Stops : stopPc[s] \in {"closing", "close_posted"}

\* A close clears running_ before it waits, and nothing sets it under it.
ClosedFirst == BeingClosed => ~tr.running

\* Starts do not overlap.
OneStart ==
    \A x, y \in Starts : startPc[x] = "connect" /\ startPc[y] = "connect" => x = y

\* An async_connect that was called has not ended.
ConnectUnderWay ==
    Starting \/ (\E r \in Requests : opPc[r] = "connect")
        => tr.conn \in {"resolving", "connecting"}

\* A connection is lost only under a request.
LostInUse ==
    tr.running /\ tr.conn = "linked" /\ ~tr.open
        => \E r \in Requests : opPc[r] = "process"

\* A tunnel closed under a request is still to be cleared by that close.
TunnelClosing ==
    tr.proxied /\ ~tr.running /\ (\E r \in Requests : opPc[r] = "process")
        => BeingClosed

\* The rest of a response is left only in a closed transport; that of a tunnel
\* goes with the close, that of a direct one with the next connect.
RestCleared == tr.dirty => ~tr.running /\ (tr.proxied => BeingClosed)

\* What came behind a response stays as long as its connection does.
SurplusCleared ==
    tr.extra /\ tr.running /\ ~tr.proxied => tr.conn = "linked" /\ tr.used

Buffer ==
    /\ ClosedFirst /\ OneStart /\ ConnectUnderWay /\ LostInUse /\ TunnelClosing
    /\ RestCleared /\ SurplusCleared

\* A connect is called on a transport that is not in use: it finds the buffer
\* empty or empties it, unless a CONNECT left bytes there.
LEMMA BufferCall ==
    ASSUME tr \in Transport, Buffer, tr' = ConnectCall(tr), ~BeingClosed,
           ~(tr.running /\ tr.conn = "linked")
    PROVE  /\ tr'.running /\ tr'.conn = "resolving" /\ ~tr'.dirty
           /\ tr'.extra => tr'.proxied
<1>1. /\ tr'.running /\ tr'.conn = "resolving" /\ tr'.proxied = tr.proxied
      /\ tr'.dirty => tr.dirty /\ (tr.running \/ tr.proxied)
      /\ tr'.extra => tr.extra /\ (tr.running \/ tr.proxied)
  BY CallShapes
<1> QED BY <1>1 DEF Buffer, RestCleared, SurplusCleared

\* An op entered at its top.
LEMMA BufferRun ==
    ASSUME TypeOK, Connection, Buffer, NEW r \in Requests, RunOp(r, <<>>), ~Starting,
           opPc[r] \in {"idle", "retry"},
           \A q \in Requests \ {r} : opPc[q] = "idle",
           UNCHANGED <<running, startPc>>,
           \A s \in Stops : stopPc'[s] \in {"closing", "close_posted"}
                              <=> stopPc[s] \in {"closing", "close_posted"}
    PROVE  Buffer'
<1>1. \A q \in Requests \ {r} : opPc'[q] = "idle"
  <2>1. <<>> \in Seq(StrandJob)
    OBVIOUS
  <2> QED BY <2>1, RunOpAlone
<1>2. ~Starting' /\ tr \in Transport
  BY DEF Starting, TypeOK
<1>3. \A q \in Requests : opPc[q] \in {"idle", "retry"}
  OBVIOUS
<1>4. BeingClosed = (\E s \in Stops : stopPc[s] \in {"closing", "close_posted"})
  BY <1>3 DEF BeingClosed
<1>5. opPc'[r] \in {"idle", "connect", "process"} =>
        BeingClosed' = (\E s \in Stops : stopPc[s] \in {"closing", "close_posted"})
  BY <1>1 DEF BeingClosed
<1>6. running => ~BeingClosed
  BY <1>4 DEF Connection, StoppedNotRunning, Stopping
<1>7. CASE ~running
  <2>1. opPc'[r] = "idle" /\ tr' = tr
    BY <1>7 DEF RunOp, Complete, TypeOK
  <2> QED BY <1>1, <1>2, <1>3, <1>4, <1>5, <2>1
          DEF Buffer, ClosedFirst, OneStart, ConnectUnderWay, LostInUse, TunnelClosing,
              RestCleared, SurplusCleared
<1>8. CASE running /\ ~tr.open
  <2>1. opPc'[r] = "connect" /\ tr' = ConnectCall(tr)
    BY <1>8 DEF RunOp, TypeOK
  <2>2. ~(tr.running /\ tr.conn = "linked")
    BY <1>3, <1>8 DEF Buffer, LostInUse
  <2>3. /\ tr'.running /\ tr'.conn = "resolving" /\ ~tr'.dirty
        /\ tr'.extra => tr'.proxied
    BY <1>2, <1>6, <1>8, <2>1, <2>2, BufferCall
  <2> QED BY <1>1, <1>4, <1>5, <1>6, <1>8, <2>1, <2>3
          DEF Buffer, ClosedFirst, OneStart, ConnectUnderWay, LostInUse, TunnelClosing,
              RestCleared, SurplusCleared
<1>9. CASE running /\ tr.open
  <2>1. opPc'[r] = "process" /\ tr' = tr
    BY <1>9 DEF RunOp, TypeOK
  <2>2. opPc[r] = "idle"
    BY <1>9 DEF Connection, RetryReconnects
  <2>3. tr.running
    BY <1>9, <2>2 DEF Connection, UpWhileRunning
  <2> QED BY <1>1, <1>2, <1>4, <1>5, <1>6, <1>9, <2>1, <2>3
          DEF Buffer, ClosedFirst, OneStart, ConnectUnderWay, LostInUse, TunnelClosing,
              RestCleared, SurplusCleared
<1> QED BY <1>7, <1>8, <1>9

\* process_queue_op goes on or ends.
LEMMA BufferOp ==
    ASSUME TypeOK, SingleRunner, Connection, Buffer, NEW r \in Requests, OpStep(r)
    PROVE  Buffer'
<1>1. /\ posted = <<>> /\ UNCHANGED <<tasks, startPc, stopPc>> /\ opPc[r] # "idle"
      /\ \A q \in Requests \ {r} : opPc'[q] = opPc[q]
  BY OpAlone DEF callerVars, OpStep, ConnectDone, ProcessDone, OpCloseDone, Retry
<1>2. ~Starting /\ \A q \in Requests \ {r} : opPc[q] = "idle"
  BY <1>1, OpsAlone DEF Connection
<1>3. tr \in Transport /\ ~Starting' /\ Stopping' = Stopping
  BY <1>1, <1>2 DEF TypeOK, Starting, Stopping
<1>4. BeingClosed' = (\/ opPc'[r] \in {"closing", "close_posted"}
                      \/ \E s \in Stops : stopPc[s] \in {"closing", "close_posted"})
  BY <1>1, <1>2 DEF BeingClosed
<1>5. BeingClosed = (\/ opPc[r] \in {"closing", "close_posted"}
                     \/ \E s \in Stops : stopPc[s] \in {"closing", "close_posted"})
  BY <1>2 DEF BeingClosed
<1> USE DEF Buffer, ClosedFirst, OneStart, ConnectUnderWay, LostInUse, TunnelClosing,
            RestCleared, SurplusCleared
<1>6. CASE ConnectDone(r)
  <2>1. PICK res \in ConnectResults(tr) : ConnectDone(r)!2!(res)
    BY <1>6 DEF ConnectDone
  <2>2. /\ tr'.running = tr.running /\ tr'.proxied = tr.proxied
        /\ tr'.dirty = tr.dirty /\ (~tr.proxied => tr'.extra = tr.extra)
        /\ tr'.conn \in {"linked", "none"} /\ (tr'.conn = "linked" => tr'.open)
    BY <1>3, <2>1, ConnectShape
  <2>3. opPc[r] = "connect" /\ tr.conn # "linked" /\ (running => tr.running)
    BY <1>2, <1>6 DEF ConnectDone, Connection, UpWhileRunning
  <2>4. opPc'[r] = "idle" \/ (opPc'[r] = "process" /\ running)
    BY <2>1 DEF Complete, TypeOK
  <2> QED BY <1>1, <1>2, <1>3, <1>4, <1>5, <2>2, <2>3, <2>4
<1>7. CASE ProcessDone(r)
  <2>1. PICK res \in ProcessResults(tr) : ProcessDone(r)!2!(res)
    BY <1>7 DEF ProcessDone
  <2>2. /\ res.tr \in Transport
        /\ res.tr.running = tr.running /\ res.tr.proxied = tr.proxied
        /\ res.tr.conn = tr.conn /\ res.tr.open = tr.open
        /\ res.ec \in ErrorCode
        /\ res.ec = "ok" => /\ tr.running /\ tr.open /\ tr.conn = "linked"
                            /\ res.tr.dirty = tr.dirty /\ res.tr.used
        /\ res.ec = "aborted" => ~tr.running
    BY <1>3, <2>1, ProcessShape
  <2>3. opPc[r] = "process" /\ (~running => ~tr.running)
    BY <1>7 DEF ProcessDone, Connection, StoppedUnder
  <2>4. CASE opPc'[r] = "idle" /\ tr' = res.tr /\ (res.ec = "ok" \/ ~tr.running)
    BY <1>1, <1>2, <1>3, <1>4, <1>5, <2>2, <2>3, <2>4
  <2>5. CASE opPc'[r] = CloseState(res.tr) /\ tr' = CloseCall(res.tr)
    <3>1. ~tr'.running
      BY <2>2, <2>5, CallShapes
    <3>2. opPc'[r] \in {"closing", "close_posted"}
      BY <2>5 DEF CloseState
    <3> QED BY <1>1, <1>2, <1>3, <1>4, <3>1, <3>2
  <2>6. \/ /\ opPc'[r] = "idle" /\ tr' = res.tr
           /\ res.ec = "ok" \/ res.ec = "aborted" \/ ~running
        \/ opPc'[r] = CloseState(res.tr) /\ tr' = CloseCall(res.tr)
    BY <2>1 DEF Complete, TypeOK
  <2> QED BY <2>2, <2>3, <2>4, <2>5, <2>6
<1>8. CASE OpCloseDone(r)
  <2>1. /\ tr'.running = tr.running /\ tr'.proxied = tr.proxied
        /\ tr'.dirty => tr.dirty /\ ~tr.proxied
    BY <1>3, <1>8, CloseShape DEF OpCloseDone
  <2>2. opPc[r] \in {"closing", "close_posted"}
    BY <1>8 DEF OpCloseDone
  <2>3. opPc'[r] \in {"idle", "retry"}
    BY <1>8 DEF OpCloseDone, Complete, TypeOK
  <2> QED BY <1>1, <1>2, <1>3, <1>4, <1>5, <2>1, <2>2, <2>3
<1>9. CASE Retry(r)
  <2>1. RunOp(r, <<>>) /\ opPc[r] = "retry" /\ UNCHANGED <<running, startPc>>
    BY <1>1, <1>9 DEF Retry
  <2> HIDE DEF Buffer
  <2> QED BY <1>1, <1>2, <2>1, BufferRun
<1> QED BY <1>6, <1>7, <1>8, <1>9 DEF OpStep

\* No step leaves bytes where a later response would be read over them.
LEMMA BufferStep ==
    ASSUME TypeOK, SingleRunner, Connection, Buffer, [Next]_vars
    PROVE  Buffer'
<1>1. tr \in Transport
  BY DEF TypeOK
<1> USE DEF opVars, callerVars, historyVars
<1>2. CASE UNCHANGED <<opPc, startPc, stopPc, tr>>
  BY <1>2 DEF Buffer, ClosedFirst, OneStart, ConnectUnderWay, LostInUse, TunnelClosing,
              RestCleared, SurplusCleared, BeingClosed, Starting
<1>3. CASE \E r \in Requests : Push(r) \/ OpStep(r)
  BY <1>2, <1>3, BufferOp DEF Push
<1>4. CASE ProcessTask
  <2>1. /\ tasks # <<>> /\ Head(tasks) \in Requests /\ RunOp(Head(tasks), <<>>)
        /\ \A q \in Requests : opPc[q] = "idle"
        /\ UNCHANGED <<running, startPc, stopPc>>
    BY <1>4, ProcessTaskRuns DEF ProcessTask, Active
  <2>2. ~Starting
    BY <2>1 DEF Connection, StartsAlone
  <2> QED BY <2>1, <2>2, BufferRun
<1>5. CASE AdvanceTask
  <2>1. /\ tasks # <<>> /\ \A q \in Requests : opPc[q] = "idle"
        /\ UNCHANGED <<running, startPc>>
    BY <1>5, AdvanceTaskRuns DEF AdvanceTask, Active
  <2>2. \A s \in Stops : stopPc'[s] \in {"closing", "close_posted"}
                           <=> stopPc[s] \in {"closing", "close_posted"}
    <3>1. \/ UNCHANGED stopPc
          \/ stopPc' = [s \in Stops |-> IF stopPc[s] = "waiting" THEN "cancelled"
                                                             ELSE stopPc[s]]
      BY <1>5, AdvanceTaskRuns DEF CancelAllTasks, CancelTimer
    <3> QED BY <3>1
  <2>3. ~Starting
    BY <2>1 DEF Connection, StartsAlone
  <2>4. CASE UNCHANGED <<opPc, tr>>
    <3>1. BeingClosed' = BeingClosed /\ Starting' = Starting
      BY <2>1, <2>2, <2>4 DEF BeingClosed, Starting
    <3> QED BY <2>1, <2>4, <3>1
            DEF Buffer, ClosedFirst, OneStart, ConnectUnderWay, LostInUse, TunnelClosing,
                RestCleared, SurplusCleared
  <2>5. ASSUME RunOp(Head(Tail(tasks)), <<>>), Head(Tail(tasks)) \in Requests
        PROVE  Buffer'
    BY <2>1, <2>2, <2>3, <2>5, BufferRun
  <2> QED BY <1>5, <2>4, <2>5, AdvanceTaskRuns
<1>6. CASE Resolved
  <2>1. /\ tr.conn = "resolving" /\ UNCHANGED <<opPc, startPc, stopPc>>
        /\ tr'.running = tr.running /\ tr'.conn = "connecting"
        /\ tr'.proxied = tr.proxied /\ tr'.dirty = tr.dirty /\ tr'.extra = tr.extra
    BY <1>1, <1>6, CallShapes DEF Resolved
  <2> QED BY <2>1 DEF Buffer, ClosedFirst, OneStart, ConnectUnderWay, LostInUse, TunnelClosing,
                      RestCleared, SurplusCleared, BeingClosed, Starting
<1>7. CASE LoseSocket
  <2>1. /\ UNCHANGED <<opPc, startPc, stopPc>> /\ (InUse \/ ShuttingDown)
        /\ tr'.running = tr.running /\ tr'.conn = tr.conn /\ ~tr'.open
        /\ tr'.proxied = tr.proxied /\ tr'.dirty = tr.dirty
        /\ tr'.extra = tr.extra /\ tr'.used = tr.used
    BY <1>1, <1>7, CallShapes DEF LoseSocket
  <2>2. tr.running /\ tr.conn = "linked" => \E r \in Requests : opPc[r] = "process"
    BY <2>1 DEF Buffer, ClosedFirst, BeingClosed, InUse, ShuttingDown
  <2> QED BY <2>1, <2>2
          DEF Buffer, ClosedFirst, OneStart, ConnectUnderWay, LostInUse, TunnelClosing,
              RestCleared, SurplusCleared, BeingClosed, Starting
<1>8. ASSUME NEW s \in Starts, Start(s) PROVE Buffer'
  <2>1. /\ tasks = <<>> /\ ~Stopping /\ UNCHANGED <<stopPc, opPc>>
        /\ ~(tr.running /\ tr.conn = "linked") /\ tr' = ConnectCall(tr)
    BY <1>8 DEF Start
  <2>2. OneStart'
    BY <1>8 DEF Start, Starting, OneStart, TypeOK
  <2>3. \A q \in Requests : opPc[q] = "idle"
    BY <2>1 DEF SingleRunner, Active
  <2>4. ~BeingClosed /\ ~BeingClosed'
    BY <2>1, <2>3 DEF BeingClosed, Stopping
  <2>5. /\ tr'.running /\ tr'.conn = "resolving" /\ ~tr'.dirty
        /\ tr'.extra => tr'.proxied
    BY <1>1, <2>1, <2>4, BufferCall
  <2> QED BY <2>4, <2>5, <2>2
          DEF Buffer, ClosedFirst, OneStart, ConnectUnderWay, LostInUse, TunnelClosing,
              RestCleared, SurplusCleared
<1>9. ASSUME NEW s \in Starts, StartDone(s) PROVE Buffer'
  <2>1. /\ startPc[s] = "connect" /\ UNCHANGED <<opPc, stopPc>>
        /\ startPc' = [startPc EXCEPT ![s] = "done"]
        /\ tr'.running = tr.running /\ tr'.proxied = tr.proxied
        /\ tr'.dirty = tr.dirty /\ (~tr.proxied => tr'.extra = tr.extra)
        /\ tr'.conn \in {"linked", "none"} /\ (tr'.conn = "linked" => tr'.open)
    BY <1>1, <1>9, ConnectShape DEF StartDone
  <2>2. Starting /\ tasks = <<>>
    BY <2>1 DEF Connection, StartsAlone, Starting
  <2>3. \A q \in Requests : opPc[q] = "idle"
    BY <2>2 DEF SingleRunner, Active
  <2>4. ASSUME NEW x \in Starts, startPc'[x] = "connect" PROVE FALSE
    BY <2>1, <2>4 DEF TypeOK, Buffer, OneStart
  <2> QED BY <2>1, <2>2, <2>3, <2>4
          DEF Buffer, ClosedFirst, OneStart, ConnectUnderWay, LostInUse, TunnelClosing,
              RestCleared, SurplusCleared, BeingClosed, Starting
<1>10. ASSUME NEW s \in Stops, NEW graceful \in BOOLEAN, Stop(s, graceful)
       PROVE  Buffer'
  <2>1. UNCHANGED <<opPc, startPc>>
    BY <1>10 DEF Stop
  <2>2. /\ CloseCall(tr) \in Transport /\ ~CloseCall(tr).running
        /\ CloseCall(tr).conn = tr.conn /\ CloseCall(tr).proxied = tr.proxied
    BY <1>1, CallShapes, TransportTyped
  <2>3. CASE tr' = CloseCall(tr) /\ stopPc' = [stopPc EXCEPT ![s] = CloseState(tr)]
    <3>1. BeingClosed'
      BY <2>3 DEF BeingClosed, CloseState, TypeOK
    <3> QED BY <2>1, <2>2, <2>3, <3>1
            DEF Buffer, ClosedFirst, OneStart, ConnectUnderWay, LostInUse,
                TunnelClosing, RestCleared, SurplusCleared, Starting
  <2>4. CASE tr' = CloseEnd(CloseCall(tr), "close_posted") /\ ~graceful
    <3>1. /\ ~tr'.running /\ tr'.proxied = tr.proxied
          /\ tr'.dirty => ~tr'.proxied
          /\ tr'.conn = tr.conn \/ tr.conn = "linked"
      BY <2>2, <2>4, CloseShape
    <3>2. tr'.proxied => \A r \in Requests : opPc'[r] # "process"
      BY <1>10, <2>1, <2>4, <3>1 DEF Stop, StopAllowed, InUse
    <3> QED BY <2>1, <3>1, <3>2
            DEF Buffer, ClosedFirst, OneStart, ConnectUnderWay, LostInUse,
                TunnelClosing, RestCleared, SurplusCleared, Starting
  <2> QED BY <1>10, <2>3, <2>4 DEF Stop
<1>11. ASSUME NEW s \in Stops, StopCloseDone(s) PROVE Buffer'
  <2>1. /\ stopPc[s] \in {"closing", "close_posted"}
        /\ UNCHANGED <<opPc, startPc>>
        /\ tr'.running = tr.running /\ tr'.proxied = tr.proxied
        /\ tr'.dirty => tr.dirty /\ ~tr.proxied
        /\ tr'.conn = tr.conn \/ tr.conn = "linked"
    BY <1>1, <1>11, CloseShape DEF StopCloseDone
  <2>2. ~tr.running
    BY <2>1 DEF Buffer, ClosedFirst, BeingClosed
  <2>3. ASSUME tr.proxied, NEW r \in Requests, opPc[r] = "process" PROVE FALSE
    <3>1. tr.conn = "connecting"
      BY <1>11, <2>3 DEF StopCloseDone, InUse
    <3>2. ~Starting /\ \A q \in Requests : opPc[q] # "connect"
      BY <2>3, OpsAlone DEF Connection
    <3> QED BY <3>1, <3>2 DEF Connection, ConnectOwned
  <2> QED BY <2>1, <2>2, <2>3
          DEF Buffer, ClosedFirst, OneStart, ConnectUnderWay, LostInUse,
              TunnelClosing, RestCleared, SurplusCleared, Starting
<1>12. CASE \/ TimerExpires
            \/ \E s \in Stops : StopWaitDone(s)
  <2>1. /\ UNCHANGED <<opPc, startPc, tr>>
        /\ \A x \in Stops : stopPc'[x] \in {"closing", "close_posted"}
                             <=> stopPc[x] \in {"closing", "close_posted"}
    BY <1>12 DEF TimerExpires, StopWaitDone, TypeOK
  <2>2. BeingClosed' = BeingClosed
    BY <2>1 DEF BeingClosed
  <2> QED BY <2>1, <2>2
          DEF Buffer, ClosedFirst, OneStart, ConnectUnderWay, LostInUse,
              TunnelClosing, RestCleared, SurplusCleared, Starting
<1>13. CASE UNCHANGED vars
  BY <1>2, <1>13 DEF vars
<1> QED BY <1>3, <1>4, <1>5, <1>6, <1>7, <1>8, <1>9, <1>10, <1>11, <1>12, <1>13 DEF Next

\* The inductive invariant about the buffer.
LEMMA BufferInvariant == Spec => [](TypeOK /\ Buffer)
<1>1. Init => Buffer
  <2> SUFFICES ASSUME Init PROVE Buffer
    OBVIOUS
  <2>1. tr.running /\ tr.conn = "none" /\ ~tr.dirty /\ ~tr.extra
    BY DEF Init, NewTransport
  <2> QED BY <2>1
          DEF Init, Buffer, ClosedFirst, OneStart, ConnectUnderWay, LostInUse,
              TunnelClosing, RestCleared, SurplusCleared, BeingClosed, Starting
<1>2. TypeOK /\ SingleRunner /\ Connection /\ Buffer /\ [Next]_vars => Buffer'
  BY BufferStep
<1> QED BY <1>1, <1>2, ConnectionInvariant, PTL DEF Spec

(***************************************************************************)
(* No response is read over the rest of one whose request failed, nor the  *)
(* first of a direct connection over anything: whatever failed, was        *)
(* stopped or started again, the buffer was cleared in between.            *)
(***************************************************************************)
THEOREM ServedFromCleanBuffer == Spec => NoStaleBytes
<1>1. TypeOK /\ Buffer /\ [Next]_vars
        => [served' # served =>
              ~tr.dirty /\ (tr.extra => tr.proxied \/ tr.used)]_vars
  <2> SUFFICES ASSUME TypeOK, Buffer, [Next]_vars, served' # served
               PROVE  ~tr.dirty /\ (tr.extra => tr.proxied \/ tr.used)
    OBVIOUS
  <2>1. PICK r \in Requests : ProcessDone(r)
    BY DEF Next, Push, OpStep, ProcessTask, AdvanceTask, Resolved, LoseSocket,
           ConnectDone, OpCloseDone, Retry, Start, StartDone, Stop,
           StopCloseDone, StopWaitDone, TimerExpires, vars, historyVars
  <2>2. PICK res \in ProcessResults(tr) : res.ec = "ok"
    BY <2>1 DEF ProcessDone
  <2>3. tr.running
    BY <2>2, ProcessShape DEF TypeOK
  <2> QED BY <2>3 DEF Buffer, RestCleared, SurplusCleared
<1> QED BY <1>1, BufferInvariant, PTL DEF Spec, NoStaleBytes

-----------------------------------------------------------------------------

(***************************************************************************)
(* What a success means.                                                   *)
(***************************************************************************)

\* last_ec_ holds the failure of the request until the close has ended.
Honest ==
    \A r \in Requests :
        opPc[r] \in {"closing", "close_posted"} => lastEc[r] = "error"

\* One more answer, which is a success only for a request that was served.
LEMMA AnswerServed ==
    ASSUME TypeOK, OkMeansServed, served \subseteq served',
           NEW r \in Requests, NEW ec \in ErrorCode, ec = "ok" => r \in served',
           replies' = Append(replies, Reply(r, ec))
    PROVE  OkMeansServed'
<1>1. /\ Len(replies) \in Nat /\ Len(replies') = Len(replies) + 1
      /\ \A i \in 1 .. Len(replies) : replies'[i] = replies[i]
      /\ replies'[Len(replies) + 1] = Reply(r, ec)
  <2>1. Reply(r, ec) \in [req : Requests, ec : ErrorCode]
    BY DEF Reply
  <2> QED BY <2>1 DEF TypeOK
<1> SUFFICES ASSUME NEW i \in 1 .. Len(replies'), replies'[i].ec = "ok"
             PROVE  replies'[i].req \in served'
  BY DEF OkMeansServed
<1>2. CASE i = Len(replies) + 1
  BY <1>1, <1>2 DEF Reply
<1>3. CASE i \in 1 .. Len(replies)
  BY <1>1, <1>3 DEF OkMeansServed
<1> QED BY <1>1, <1>2, <1>3

\* Tasks that are cancelled are answered operation_aborted.
LEMMA CancelledServed ==
    ASSUME TypeOK, OkMeansServed, UNCHANGED served, NEW q \in Seq(Requests),
           CancelAllTasks(q)
    PROVE  OkMeansServed'
<1> DEFINE S == [req : Requests, ec : ErrorCode]
           cancelled == [i \in 1 .. Len(q) |-> Reply(q[i], "aborted")]
<1>1. /\ cancelled \in Seq(S) /\ Len(cancelled) = Len(q)
      /\ \A i \in 1 .. Len(q) : cancelled[i].ec = "aborted"
  BY DEF Reply, ErrorCode
<1>2. replies' = replies \o cancelled /\ replies \in Seq(S)
  BY DEF CancelAllTasks, TypeOK
<1> HIDE DEF S, cancelled
<1>3. /\ Len(replies') = Len(replies) + Len(cancelled)
      /\ \A i \in 1 .. Len(replies) : replies'[i] = replies[i]
      /\ \A i \in 1 .. Len(cancelled) : replies'[Len(replies) + i] = cancelled[i]
  <2>1. replies \in Seq(S) /\ cancelled \in Seq(S)
    BY <1>1, <1>2
  <2>2. /\ Len(replies \o cancelled) = Len(replies) + Len(cancelled)
        /\ \A i \in 1 .. Len(replies) : (replies \o cancelled)[i] = replies[i]
        /\ \A i \in 1 .. Len(cancelled) :
             (replies \o cancelled)[Len(replies) + i] = cancelled[i]
    BY <2>1, Concatenated
  <2> QED BY <1>2, <2>2
<1>4. Len(replies) \in Nat /\ Len(cancelled) \in Nat
  BY <1>1, <1>2
<1> SUFFICES ASSUME NEW i \in 1 .. Len(replies'), replies'[i].ec = "ok"
             PROVE  replies'[i].req \in served'
  BY DEF OkMeansServed
<1>5. CASE i \in 1 .. Len(replies)
  BY <1>3, <1>5 DEF OkMeansServed
<1>6. CASE i \notin 1 .. Len(replies)
  <2>1. i - Len(replies) \in 1 .. Len(q) /\ i = Len(replies) + (i - Len(replies))
    BY <1>1, <1>3, <1>4, <1>6
  <2> QED BY <1>1, <1>3, <2>1
<1> QED BY <1>5, <1>6

\* No step turns an error or an abort into a success.
LEMMA AnswersStep ==
    TypeOK /\ SingleRunner /\ Honest /\ OkMeansServed /\ [Next]_vars
        => Honest' /\ OkMeansServed'
<1> SUFFICES ASSUME TypeOK, SingleRunner, Honest, OkMeansServed, [Next]_vars
             PROVE  Honest' /\ OkMeansServed'
  OBVIOUS
<1>1. ASSUME UNCHANGED <<opPc, lastEc, replies, served>>
      PROVE  Honest' /\ OkMeansServed'
  BY <1>1 DEF Honest, OkMeansServed
<1>2. ASSUME NEW r \in Requests, RunOp(r, <<>>), UNCHANGED <<lastEc, served>>
      PROVE  Honest' /\ OkMeansServed'
  <2>1. Honest'
    BY <1>2 DEF RunOp, Complete, Honest, TypeOK
  <2>2. CASE Complete(r, "aborted", <<>>)
    BY <1>2, <2>1, <2>2, AnswerServed DEF Complete, ErrorCode
  <2>3. CASE UNCHANGED replies
    BY <1>2, <2>1, <2>3 DEF OkMeansServed
  <2> QED BY <1>2, <2>2, <2>3 DEF RunOp
<1>3. ASSUME NEW r \in Requests, OpStep(r) PROVE Honest' /\ OkMeansServed'
  <2>1. /\ posted = <<>>
        /\ \A q \in Requests \ {r} : opPc'[q] = opPc[q] /\ lastEc'[q] = lastEc[q]
    BY <1>3, OpAlone
  <2>2. \A ec : Complete(r, ec, posted) =>
                  opPc'[r] = "idle" /\ replies' = Append(replies, Reply(r, ec))
    BY DEF Complete, TypeOK
  <2>3. CASE ConnectDone(r)
    <3>1. PICK res \in ConnectResults(tr) : ConnectDone(r)!2!(res)
      BY <2>3 DEF ConnectDone
    <3>2. UNCHANGED served
      BY <2>3 DEF ConnectDone
    <3>3. CASE \E ec \in {"aborted", "error"} : Complete(r, ec, posted)
      BY <2>1, <2>2, <3>2, <3>3, AnswerServed DEF Honest, ErrorCode
    <3>4. CASE opPc' = [opPc EXCEPT ![r] = "process"] /\ UNCHANGED replies
      BY <2>1, <3>2, <3>4 DEF Honest, OkMeansServed, TypeOK
    <3> QED BY <3>1, <3>3, <3>4
  <2>4. CASE ProcessDone(r)
    <3>1. PICK res \in ProcessResults(tr) : ProcessDone(r)!2!(res)
      BY <2>4 DEF ProcessDone
    <3>2. served \subseteq served' /\ (res.ec = "ok" => r \in served')
      BY <3>1
    <3>3. CASE \E ec \in ErrorCode :
                 Complete(r, ec, posted) /\ (ec = "ok" => r \in served')
      <4>1. OkMeansServed'
        BY <2>2, <3>2, <3>3, AnswerServed
      <4>2. Honest'
        BY <2>1, <2>2, <3>3 DEF Honest
      <4> QED BY <4>1, <4>2
    <3>4. CASE /\ lastEc' = [lastEc EXCEPT ![r] = "error"] /\ UNCHANGED replies
      BY <2>1, <3>2, <3>4 DEF Honest, OkMeansServed, TypeOK
    <3>5. "aborted" \in ErrorCode /\ "ok" \in ErrorCode
      BY DEF ErrorCode
    <3> QED BY <3>1, <3>2, <3>3, <3>4, <3>5
  <2>5. CASE OpCloseDone(r)
    <3>1. UNCHANGED <<served, lastEc>> /\ lastEc[r] = "error"
      BY <2>5 DEF OpCloseDone, Honest
    <3>2. CASE \E ec \in {"aborted", "error"} : Complete(r, ec, posted)
      BY <2>1, <2>2, <3>1, <3>2, AnswerServed DEF Honest, ErrorCode
    <3>3. CASE opPc' = [opPc EXCEPT ![r] = "retry"] /\ UNCHANGED replies
      BY <2>1, <3>1, <3>3 DEF Honest, OkMeansServed, TypeOK
    <3> QED BY <2>5, <3>1, <3>2, <3>3 DEF OpCloseDone
  <2>6. CASE Retry(r)
    BY <1>2, <2>1, <2>6 DEF Retry
  <2> QED BY <1>3, <2>3, <2>4, <2>5, <2>6 DEF OpStep
<1>4. CASE ProcessTask
  BY <1>2, <1>4, ProcessTaskRuns DEF ProcessTask
<1>5. CASE AdvanceTask
  <2>1. UNCHANGED <<served, lastEc>>
    BY <1>5 DEF AdvanceTask
  <2>2. CASE ~running
    <3>1. Honest'
      BY <1>5, <2>1, <2>2, AdvanceTaskRuns DEF Honest
    <3> QED BY <1>5, <2>1, <2>2, <3>1, AdvanceTaskRuns, CancelledServed
  <2>3. CASE running
    BY <1>1, <1>2, <1>5, <2>1, <2>3, AdvanceTaskRuns
  <2> QED BY <2>2, <2>3
<1>6. ASSUME NEW r \in Requests, Push(r) PROVE Honest' /\ OkMeansServed'
  BY <1>1, <1>6 DEF Push, opVars
<1>7. CASE UNCHANGED <<tasks, posted, opVars, historyVars>>
  BY <1>1, <1>7 DEF opVars, historyVars
<1> QED BY <1>3, <1>4, <1>5, <1>6, <1>7, WorkOrNot

(***************************************************************************)
(* A handler is told success only when the response to its request was     *)
(* read to the end: neither an error kept in last_ec_ across the close nor *)
(* the abort of a stop ever turns into success.                            *)
(***************************************************************************)
THEOREM SuccessIsServed == Spec => []OkMeansServed
<1>1. Init => TypeOK /\ SingleRunner /\ Honest /\ OkMeansServed
  BY InitEstablishes DEF Init, Honest, OkMeansServed
<1>2. TypeOK /\ SingleRunner /\ Honest /\ OkMeansServed /\ [Next]_vars
        => TypeOK' /\ SingleRunner' /\ Honest' /\ OkMeansServed'
  BY TypeStep, RunnerStep, AnswersStep
<1> QED BY <1>1, <1>2, PTL DEF Spec

-----------------------------------------------------------------------------

(***************************************************************************)
(* What a stop leaves, when callers do not stop a session that is being    *)
(* stopped.  (If they do, a second stop tells the first one that all is    *)
(* done by re-arming the timer they share.)                                *)
(***************************************************************************)

\* One stop at a time.
OneStop ==
    \A s, x \in Stops :
        stopPc[s] \notin {"idle", "done"} /\ stopPc[x] \notin {"idle", "done"}
            => s = x

\* The timer is cancelled for no other reason than that the tasks are gone.
CancelledDrained == \A s \in Stops : stopPc[s] = "cancelled" => tasks = <<>>

\* stop_op once its close has ended, no other stop being under way.
LEMMA AfterCloseAlone ==
    ASSUME TypeOK, NEW s \in Stops, NEW ec, AfterClose(s, ec), UNCHANGED tasks,
           stopPc[s] # "cancelled",
           \A x \in Stops \ {s} : stopPc[x] \in {"idle", "done"}
    PROVE  OneStop' /\ CancelledDrained'
<1>1. \A x \in Stops \ {s} : stopPc'[x] \in {"idle", "done"}
  BY DEF AfterClose, TypeOK
<1>2. stopPc'[s] \in {"waiting", "done"}
  BY DEF AfterClose, TypeOK
<1> QED BY <1>1, <1>2 DEF OneStop, CancelledDrained

\* A push, and with it a new task, comes only while no stop is under way.
LEMMA StopStep ==
    ASSUME ~OverlappingStops, TypeOK, SingleRunner, Connection, OneStop,
           CancelledDrained, [Next]_vars
    PROVE  OneStop' /\ CancelledDrained'
<1> USE DEF opVars, callerVars, historyVars
<1>1. ASSUME NEW s \in Stops, stopPc[s] \notin {"idle", "done"}
      PROVE  /\ ~running /\ \A x \in Stops \ {s} : stopPc[x] \in {"idle", "done"}
  BY <1>1 DEF Connection, StoppedNotRunning, Stopping, OneStop
<1>2. ASSUME UNCHANGED stopPc, tasks' = tasks \/ running \/ tasks' = <<>>
      PROVE  OneStop' /\ CancelledDrained'
  BY <1>1, <1>2 DEF OneStop, CancelledDrained
<1>3. ASSUME NEW r \in Requests, Push(r) PROVE OneStop' /\ CancelledDrained'
  BY <1>2, <1>3 DEF Push
<1>4. CASE AdvanceTask
  <2>1. CASE UNCHANGED stopPc
    BY <1>2, <1>4, <2>1, AdvanceTaskRuns
  <2>2. CASE CancelTimer /\ tasks' = <<>>
    BY <2>2 DEF CancelTimer, OneStop, CancelledDrained
  <2> QED BY <1>4, <2>1, <2>2, AdvanceTaskRuns DEF CancelAllTasks
<1>5. ASSUME NEW s \in Stops, NEW graceful \in BOOLEAN, Stop(s, graceful)
      PROVE  OneStop' /\ CancelledDrained'
  <2>1. /\ stopPc[s] = "idle" /\ UNCHANGED tasks
        /\ \A x \in Stops : stopPc[x] \in {"idle", "done"}
    BY <1>5 DEF Stop, Stopping
  <2>2. CASE AfterClose(s, "ok")
    BY <2>1, <2>2, AfterCloseAlone
  <2>3. CASE stopPc' = [stopPc EXCEPT ![s] = CloseState(tr)]
    BY <2>1, <2>3 DEF TypeOK, CloseState, OneStop, CancelledDrained
  <2> QED BY <1>5, <2>2, <2>3 DEF Stop
<1>6. ASSUME NEW s \in Stops, StopCloseDone(s) PROVE OneStop' /\ CancelledDrained'
  <2>1. /\ stopPc[s] \in {"closing", "close_posted"} /\ UNCHANGED tasks
        /\ \E ec : AfterClose(s, ec)
    BY <1>6 DEF StopCloseDone
  <2> QED BY <1>1, <2>1, AfterCloseAlone
<1>7. ASSUME NEW s \in Stops, StopWaitDone(s) PROVE OneStop' /\ CancelledDrained'
  BY <1>7 DEF StopWaitDone, TypeOK, OneStop, CancelledDrained
<1>8. CASE TimerExpires
  BY <1>8 DEF TimerExpires, OneStop, CancelledDrained
<1>9. CASE UNCHANGED <<tasks, stopPc>>
  BY <1>2, <1>9
<1> QED
  BY <1>3, <1>4, <1>5, <1>6, <1>7, <1>8, <1>9
     DEF Next, OpStep, ProcessTask, Resolved, LoseSocket, ConnectDone,
         ProcessDone, OpCloseDone, Retry, Start, StartDone, vars

(***************************************************************************)
(* "we cancel the timer when all tasks have been cancelled": unless        *)
(* another stop interferes, an async_stop that answers success leaves no   *)
(* task in the session.                                                    *)
(***************************************************************************)
THEOREM StopDrains ==
    ASSUME ~OverlappingStops
    PROVE  Spec => StopOkMeansDrained
<1>1. Init => OneStop /\ CancelledDrained
  BY DEF Init, OneStop, CancelledDrained
<1>2. TypeOK /\ SingleRunner /\ Connection /\ OneStop /\ CancelledDrained /\ [Next]_vars
        => OneStop' /\ CancelledDrained'
  BY StopStep
<1>3. TypeOK /\ CancelledDrained /\ [Next]_vars
        => [\A s \in Stops :
              stopEc[s] = "none" /\ stopEc'[s] = "ok" => tasks' = <<>>]_vars
  <2> SUFFICES ASSUME TypeOK, CancelledDrained, [Next]_vars,
                      NEW s \in Stops, stopEc[s] = "none", stopEc'[s] = "ok"
               PROVE  tasks' = <<>>
    OBVIOUS
  <2>1. PICK x \in Stops : \/ \E graceful \in BOOLEAN : Stop(x, graceful)
                           \/ StopCloseDone(x) \/ StopWaitDone(x)
    BY DEF Next, Push, OpStep, ProcessTask, AdvanceTask, Resolved, LoseSocket,
           ConnectDone, ProcessDone, OpCloseDone, Retry, Start, StartDone,
           TimerExpires, vars, callerVars
  <2>2. UNCHANGED tasks
    BY <2>1 DEF Stop, StopCloseDone, StopWaitDone
  <2>3. ASSUME NEW ec, AfterClose(x, ec) PROVE tasks = <<>>
    BY <2>3 DEF AfterClose
  <2>4. CASE StopWaitDone(x)
    <3>1. x = s /\ stopPc[s] = "cancelled"
      BY <2>4 DEF StopWaitDone, TypeOK
    <3> QED BY <2>2, <3>1 DEF CancelledDrained
  <2> QED BY <2>1, <2>2, <2>3, <2>4 DEF Stop, StopCloseDone
<1> QED BY <1>1, <1>2, <1>3, ConnectionInvariant, PTL DEF Spec, StopOkMeansDrained

=============================================================================
