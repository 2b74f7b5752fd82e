--------------------------- MODULE SessionProofs ---------------------------
(***************************************************************************)
(* Proofs about Session, for any sets of requests, starts and stops.       *)
(***************************************************************************)
EXTENDS Session, SequenceTheorems, TLAPS

\* The two forms of what an async_connect may end with.
LEMMA ConnectForms ==
    ASSUME NEW t, NEW res \in ConnectResults(t)
    PROVE  \E u \in {t, Surplus(t)} :
             /\ ~t.proxied => u = t
             /\ \/ /\ t.conn = "connecting" /\ t.open
                   /\ res = Result("ok", [u EXCEPT !.conn = "linked", !.used = FALSE])
                \/ \E ec \in Failures(t) : res = Result(ec, [u EXCEPT !.conn = "none"])
<1> DEFINE read == IF t.proxied THEN Surplus(t) ELSE t
<1>1. read \in {t, Surplus(t)} /\ (~t.proxied => read = t)
  OBVIOUS
<1>2. \/ /\ t.conn = "connecting" /\ t.open
         /\ res = Result("ok", [read EXCEPT !.conn = "linked", !.used = FALSE])
      \/ \E ec \in Failures(t), u \in {t, read} :
           res = Result(ec, [u EXCEPT !.conn = "none"])
  BY DEF ConnectResults
<1> HIDE DEF read
<1> QED BY <1>1, <1>2

\* And an async_process_one.
LEMMA ProcessForms ==
    ASSUME NEW t, NEW res \in ProcessResults(t)
    PROVE  \/ /\ t.running /\ t.open /\ t.conn = "linked"
              /\ res = Result("ok", [Surplus(t) EXCEPT !.used = TRUE])
           \/ \E ec \in Failures(t), u \in {t, Soiled(t)} : res = Result(ec, u)
BY DEF ProcessResults

(***************************************************************************)
(* The transport operations seen by the session stay within Transport, and *)
(* answer with error codes.                                                *)
(***************************************************************************)
LEMMA TransportTyped ==
    ASSUME NEW t \in Transport
    PROVE  /\ ConnectCall(t) \in Transport
           /\ Opened(t) \in Transport
           /\ Dropped(t) \in Transport
           /\ CloseCall(t) \in Transport
           /\ \A pc : CloseEnd(t, pc) \in Transport
           /\ \A res \in ConnectResults(t) :
                res.tr \in Transport /\ res.ec \in ErrorCode
           /\ \A res \in ProcessResults(t) :
                res.tr \in Transport /\ res.ec \in ErrorCode
<1>1. Opened(t) \in Transport /\ Dropped(t) \in Transport /\ CloseCall(t) \in Transport
  BY DEF Opened, Dropped, CloseCall, Transport
<1>2. ASSUME NEW u \in Transport PROVE Reset(u) \in Transport
  BY DEF Reset, NewStream, Transport
<1>3. ConnectCall(t) \in Transport
  BY <1>2 DEF ConnectCall, Transport
<1>4. ASSUME NEW pc PROVE CloseEnd(t, pc) \in Transport
  <2>1. Closed(t, pc) \in Transport
    BY DEF Closed, Transport
  <2> QED BY <1>2, <2>1 DEF CloseEnd
<1>5. Soiled(t) \in Transport /\ Surplus(t) \in Transport /\ Failures(t) \subseteq ErrorCode
  BY DEF Soiled, Surplus, Failures, Transport, ErrorCode
<1>6. ASSUME NEW res \in ConnectResults(t)
      PROVE  res.tr \in Transport /\ res.ec \in ErrorCode
  <2>1. PICK u \in {t, Surplus(t)} :
          \/ res = Result("ok", [u EXCEPT !.conn = "linked", !.used = FALSE])
          \/ \E ec \in Failures(t) : res = Result(ec, [u EXCEPT !.conn = "none"])
    BY ConnectForms
  <2>2. /\ [u EXCEPT !.conn = "linked", !.used = FALSE] \in Transport
        /\ [u EXCEPT !.conn = "none"] \in Transport
    BY <1>5 DEF Transport
  <2> QED BY <1>5, <2>1, <2>2 DEF Result, ErrorCode
<1>7. ASSUME NEW res \in ProcessResults(t)
      PROVE  res.tr \in Transport /\ res.ec \in ErrorCode
  <2>1. [Surplus(t) EXCEPT !.used = TRUE] \in Transport
    BY <1>5 DEF Transport
  <2>2. CASE res = Result("ok", [Surplus(t) EXCEPT !.used = TRUE])
    BY <2>1, <2>2 DEF Result, ErrorCode
  <2>3. ASSUME NEW ec \in Failures(t), NEW u \in {t, Soiled(t)}, res = Result(ec, u)
        PROVE  res.tr \in Transport /\ res.ec \in ErrorCode
    BY <1>5, <2>3 DEF Result
  <2> QED BY <2>2, <2>3, ProcessForms
<1> QED BY <1>1, <1>3, <1>4, <1>6, <1>7

-----------------------------------------------------------------------------
(***************************************************************************)
(* Type correctness.  RunOp, the entry of process_queue_op, keeps types.   *)
(***************************************************************************)
LEMMA RunOpTyped ==
    ASSUME TypeOK, NEW r \in Requests,
           NEW rest \in Seq(StrandJob),
           RunOp(r, rest)
    PROVE  /\ posted' \in Seq(StrandJob)
           /\ opPc' \in [Requests -> OpState]
           /\ tr' \in Transport
           /\ replies' \in Seq([req : Requests, ec : ErrorCode])
           /\ attempts' \in [Requests -> Nat]
<1>1. CASE ~running /\ Complete(r, "aborted", rest) /\ UNCHANGED <<tr, attempts>>
  <2>1. Reply(r, "aborted") \in [req : Requests, ec : ErrorCode]
    BY DEF Reply, ErrorCode
  <2> QED BY <1>1, <2>1 DEF TypeOK, Complete, OpState, StrandJob
<1>2. CASE /\ tr' = ConnectCall(tr)
           /\ opPc' = [opPc EXCEPT ![r] = "connect"]
           /\ posted' = rest
           /\ UNCHANGED <<replies, attempts>>
  BY <1>2, TransportTyped DEF TypeOK, OpState
<1>3. CASE /\ opPc' = [opPc EXCEPT ![r] = "process"]
           /\ attempts' = [attempts EXCEPT ![r] = @ + 1]
           /\ posted' = rest
           /\ UNCHANGED <<tr, replies>>
  BY <1>3 DEF TypeOK, OpState
<1> QED BY <1>1, <1>2, <1>3 DEF RunOp

\* complete keeps the op states, the posted jobs and the answers typed.
LEMMA CompleteTyped ==
    ASSUME TypeOK, NEW r \in Requests, NEW ec \in ErrorCode,
           Complete(r, ec, posted)
    PROVE  /\ posted' \in Seq(StrandJob)
           /\ opPc' \in [Requests -> OpState]
           /\ replies' \in Seq([req : Requests, ec : ErrorCode])
<1>1. Reply(r, ec) \in [req : Requests, ec : ErrorCode]
  BY DEF Reply
<1> QED BY <1>1 DEF TypeOK, Complete, OpState, StrandJob

\* Every step keeps the types; advance_task's pop needs a queue that is not
\* empty, which is what SingleRunner says.
LEMMA TypeStep == TypeOK /\ SingleRunner /\ [Next]_vars => TypeOK'
<1> SUFFICES ASSUME TypeOK, SingleRunner, [Next]_vars PROVE TypeOK'
  OBVIOUS
<1>1. CASE UNCHANGED vars
  BY <1>1 DEF TypeOK, vars, opVars, callerVars, historyVars
<1>2. ASSUME NEW r \in Requests, Push(r) PROVE TypeOK'
  <2>1. CASE ~running
    BY <1>2, <2>1 DEF TypeOK, Push, opVars, callerVars
  <2>2. CASE running
    <3>1. /\ tasks' = Append(tasks, r)
          /\ accepted' = Append(accepted, r)
          /\ posted' \in {posted, Append(posted, "process_task")}
          /\ UNCHANGED rejected
      BY <1>2, <2>2 DEF Push
    <3>2. tasks' \in Seq(Requests) /\ accepted' \in Seq(Requests)
      BY <3>1 DEF TypeOK
    <3>3. posted' \in Seq(StrandJob)
      <4>1. "process_task" \in StrandJob BY DEF StrandJob
      <4>2. Append(posted, "process_task") \in Seq(StrandJob) BY <4>1 DEF TypeOK
      <4> QED BY <3>1, <4>2 DEF TypeOK
    <3> QED BY <1>2, <3>1, <3>2, <3>3 DEF TypeOK, Push, opVars, callerVars
  <2> QED BY <2>1, <2>2
<1>3. CASE ProcessTask
  <2>1. CASE tasks = <<>>
    <3>1. posted' = Tail(posted) /\ UNCHANGED <<opPc, tr, replies, attempts>>
      BY <1>3, <2>1 DEF ProcessTask, RunFront
    <3>2. posted' \in Seq(StrandJob)
      BY <1>3, <3>1 DEF TypeOK, ProcessTask
    <3> QED BY <1>3, <3>1, <3>2 DEF TypeOK, ProcessTask, callerVars
  <2>2. CASE tasks # <<>>
    <3>1. /\ Head(tasks) \in Requests
          /\ Tail(posted) \in Seq(StrandJob)
          /\ RunOp(Head(tasks), Tail(posted))
      BY <1>3, <2>2 DEF TypeOK, ProcessTask, RunFront
    <3> QED BY <1>3, <3>1, RunOpTyped DEF TypeOK, ProcessTask, callerVars
  <2> QED BY <2>1, <2>2
<1>4. CASE AdvanceTask
  <2>1. tasks # <<>>
    BY <1>4 DEF AdvanceTask, SingleRunner
  <2>2. Tail(tasks) \in Seq(Requests) /\ Tail(posted) \in Seq(StrandJob)
    BY <1>4, <2>1 DEF TypeOK, AdvanceTask
  <2>3. CASE running /\ Tail(tasks) = <<>>
    <3>1. /\ tasks' = Tail(tasks) /\ posted' = Tail(posted)
          /\ UNCHANGED <<opPc, tr, replies, attempts, stopPc>>
      BY <1>4, <2>3 DEF AdvanceTask, RunFront
    <3> QED BY <1>4, <2>2, <3>1 DEF TypeOK, AdvanceTask
  <2>4. CASE running /\ Tail(tasks) # <<>>
    <3>1. /\ tasks' = Tail(tasks) /\ UNCHANGED stopPc
          /\ RunOp(Head(Tail(tasks)), Tail(posted))
      BY <1>4, <2>4 DEF AdvanceTask, RunFront
    <3>2. Head(Tail(tasks)) \in Requests
      BY <2>2, <2>4
    <3> QED BY <1>4, <2>2, <3>1, <3>2, RunOpTyped DEF TypeOK, AdvanceTask
  <2>5. CASE ~running
    <3> DEFINE q == Tail(tasks)
               cancelled == [i \in 1 .. Len(q) |-> Reply(q[i], "aborted")]
    <3>1. /\ replies' = replies \o cancelled /\ tasks' = <<>>
          /\ posted' = Tail(posted)
          /\ stopPc' = [s \in Stops |-> IF stopPc[s] = "waiting" THEN "cancelled"
                                                              ELSE stopPc[s]]
          /\ UNCHANGED <<opPc, tr, attempts>>
      BY <1>4, <2>5 DEF AdvanceTask, CancelAllTasks, CancelTimer
    <3>2. cancelled \in Seq([req : Requests, ec : ErrorCode])
      <4>1. \A i \in 1 .. Len(q) : q[i] \in Requests
        BY <2>2
      <4>2. Len(q) \in Nat
        BY <2>2
      <4> QED BY <4>1, <4>2 DEF Reply, ErrorCode
    <3>3. replies' \in Seq([req : Requests, ec : ErrorCode])
      <4> HIDE DEF cancelled
      <4> QED BY <3>1, <3>2 DEF TypeOK
    <3>4. stopPc' \in [Stops -> StopState]
      BY <3>1 DEF TypeOK, StopState
    <3> QED BY <1>4, <2>2, <3>1, <3>3, <3>4 DEF TypeOK, AdvanceTask
  <2> QED BY <2>3, <2>4, <2>5
<1>5. CASE Resolved \/ LoseSocket
  BY <1>5, TransportTyped DEF TypeOK, Resolved, LoseSocket, opVars, callerVars, historyVars
<1>6. ASSUME NEW r \in Requests, ConnectDone(r) PROVE TypeOK'
  <2>1. PICK res \in ConnectResults(tr) : ConnectDone(r)!2!(res)
    BY <1>6 DEF ConnectDone
  <2>2. res.tr \in Transport /\ res.ec \in ErrorCode
    BY TransportTyped DEF TypeOK
  <2>3. CASE Complete(r, "aborted", posted) /\ UNCHANGED <<running, attempts>>
    BY <1>6, <2>1, <2>2, <2>3, CompleteTyped
       DEF TypeOK, ConnectDone, ErrorCode, callerVars
  <2>4. CASE running' = FALSE /\ Complete(r, res.ec, posted) /\ UNCHANGED attempts
    BY <1>6, <2>1, <2>2, <2>4, CompleteTyped DEF TypeOK, ConnectDone, callerVars
  <2>5. CASE /\ opPc' = [opPc EXCEPT ![r] = "process"]
             /\ attempts' = [attempts EXCEPT ![r] = @ + 1]
             /\ UNCHANGED <<running, posted, replies>>
    BY <1>6, <2>1, <2>2, <2>5 DEF TypeOK, ConnectDone, OpState, callerVars
  <2> QED BY <2>1, <2>3, <2>4, <2>5
<1>7. ASSUME NEW r \in Requests, ProcessDone(r) PROVE TypeOK'
  <2>1. PICK res \in ProcessResults(tr) : ProcessDone(r)!2!(res)
    BY <1>7 DEF ProcessDone
  <2>2. res.tr \in Transport /\ res.ec \in ErrorCode
    BY TransportTyped DEF TypeOK
  <2>3. served' \in SUBSET Requests
    BY <2>1 DEF TypeOK
  <2>4. ASSUME NEW ec \in {"aborted", "ok"}, Complete(r, ec, posted),
               tr' = res.tr, UNCHANGED lastEc
        PROVE  TypeOK'
    <3>1. ec \in ErrorCode BY DEF ErrorCode
    <3> QED BY <1>7, <2>2, <2>3, <2>4, <3>1, CompleteTyped
            DEF TypeOK, ProcessDone, callerVars
  <2>5. CASE /\ lastEc' = [lastEc EXCEPT ![r] = res.ec]
             /\ opPc' = [opPc EXCEPT ![r] = CloseState(res.tr)]
             /\ tr' = CloseCall(res.tr)
             /\ UNCHANGED <<posted, replies>>
    <3>1. CloseState(res.tr) \in OpState BY DEF CloseState, OpState
    <3>2. tr' \in Transport BY <2>2, <2>5, TransportTyped
    <3> QED BY <1>7, <2>2, <2>3, <2>5, <3>1, <3>2
            DEF TypeOK, ProcessDone, callerVars
  <2> QED BY <2>1, <2>4, <2>5
<1>8. ASSUME NEW r \in Requests, OpCloseDone(r) PROVE TypeOK'
  <2>1. tr' \in Transport
    BY <1>8, TransportTyped DEF TypeOK, OpCloseDone
  <2>2. CASE Complete(r, "aborted", posted) /\ UNCHANGED <<running, firstRound>>
    BY <1>8, <2>1, <2>2, CompleteTyped DEF TypeOK, OpCloseDone, ErrorCode, callerVars
  <2>3. CASE /\ firstRound' = [firstRound EXCEPT ![r] = FALSE]
             /\ opPc' = [opPc EXCEPT ![r] = "retry"]
             /\ UNCHANGED <<running, posted, replies>>
    BY <1>8, <2>1, <2>3 DEF TypeOK, OpCloseDone, OpState, callerVars
  <2>4. CASE /\ running' = FALSE
             /\ Complete(r, lastEc[r], posted)
             /\ UNCHANGED firstRound
    <3>1. lastEc[r] \in ErrorCode BY DEF TypeOK
    <3> QED BY <1>8, <2>1, <2>4, <3>1, CompleteTyped DEF TypeOK, OpCloseDone, callerVars
  <2> QED BY <1>8, <2>2, <2>3, <2>4 DEF OpCloseDone
<1>9. ASSUME NEW r \in Requests, Retry(r) PROVE TypeOK'
  <2>1. posted \in Seq(StrandJob) /\ RunOp(r, posted)
    BY <1>9 DEF TypeOK, Retry
  <2> QED BY <1>9, <2>1, RunOpTyped DEF TypeOK, Retry, callerVars
<1>10. ASSUME NEW s \in Starts, Start(s) PROVE TypeOK'
  BY <1>10, TransportTyped DEF TypeOK, Start, StartState, opVars, historyVars
<1>11. ASSUME NEW s \in Starts, StartDone(s) PROVE TypeOK'
  <2>1. tr' \in Transport
    BY <1>11, TransportTyped DEF TypeOK, StartDone
  <2> QED BY <1>11, <2>1 DEF TypeOK, StartDone, StartState, opVars, historyVars
<1>12. ASSUME NEW s \in Stops, NEW graceful \in BOOLEAN, Stop(s, graceful)
       PROVE  TypeOK'
  <2>1. tr' \in Transport
    <3>1. CloseCall(tr) \in Transport
      BY TransportTyped DEF TypeOK
    <3>2. CloseEnd(CloseCall(tr), "close_posted") \in Transport
      BY <3>1, TransportTyped
    <3>3. tr' \in {CloseCall(tr), CloseEnd(CloseCall(tr), "close_posted")}
      BY <1>12 DEF Stop
    <3> QED BY <3>1, <3>2, <3>3
  <2>2. CASE AfterClose(s, "ok")
    BY <1>12, <2>1, <2>2 DEF TypeOK, Stop, AfterClose, StopState, opVars, historyVars
  <2>3. CASE stopPc' = [stopPc EXCEPT ![s] = CloseState(tr)] /\ UNCHANGED stopEc
    BY <1>12, <2>1, <2>3 DEF TypeOK, Stop, CloseState, StopState, opVars, historyVars
  <2> QED BY <1>12, <2>2, <2>3 DEF Stop
<1>13. ASSUME NEW s \in Stops, StopCloseDone(s) PROVE TypeOK'
  <2>1. tr' \in Transport
    BY <1>13, TransportTyped DEF TypeOK, StopCloseDone
  <2>2. PICK ec \in {"ok", "error"} : AfterClose(s, ec)
    BY <1>13 DEF StopCloseDone
  <2> QED BY <1>13, <2>1, <2>2
          DEF TypeOK, StopCloseDone, AfterClose, StopState, opVars, historyVars
<1>14. CASE TimerExpires
  BY <1>14 DEF TypeOK, TimerExpires, StopState, opVars, historyVars
<1>15. ASSUME NEW s \in Stops, StopWaitDone(s) PROVE TypeOK'
  BY <1>15 DEF TypeOK, StopWaitDone, StopState, opVars, historyVars
<1> QED
  BY <1>1, <1>2, <1>3, <1>4, <1>5, <1>6, <1>7, <1>8, <1>9, <1>10, <1>11,
     <1>12, <1>13, <1>14, <1>15 DEF Next, OpStep

-----------------------------------------------------------------------------
(***************************************************************************)
(* One runner at a time.  An action either leaves tasks, posted and opPc   *)
(* alone, or moves the one token: from a posted job to an op (RunOp), from *)
(* an op to a posted advance_task (Complete), or out of the session.       *)
(***************************************************************************)

\* RunOp hands the token to the op of r or to an advance_task job.
LEMMA RunOpToken ==
    ASSUME TypeOK, NEW r \in Requests, Active \subseteq {r}, RunOp(r, <<>>)
    PROVE  \/ Len(posted') = 1 /\ Active' = {}
           \/ posted' = <<>> /\ Active' = {r}
<1>1. CASE Complete(r, "aborted", <<>>)
  BY <1>1 DEF TypeOK, Active, Complete
<1>2. CASE \E pc \in {"connect", "process"} :
             opPc' = [opPc EXCEPT ![r] = pc] /\ posted' = <<>>
  BY <1>2 DEF TypeOK, Active
<1> QED BY <1>1, <1>2 DEF RunOp

\* An op that has the token is the head's, and nothing is posted.
LEMMA ActiveOp ==
    ASSUME SingleRunner, NEW r \in Requests, opPc[r] # "idle"
    PROVE  tasks # <<>> /\ posted = <<>> /\ Active = {r} /\ r = Head(tasks)
<1>1. r \in Active
  BY DEF Active
<1> QED BY <1>1 DEF SingleRunner

\* A running op goes on, or gives the token to an advance_task job.
LEMMA OpToken ==
    ASSUME TypeOK, SingleRunner, NEW r \in Requests, opPc[r] # "idle",
           UNCHANGED tasks,
           \/ \E ec : Complete(r, ec, posted)
           \/ \E pc \in OpState \ {"idle"} :
                opPc' = [opPc EXCEPT ![r] = pc] /\ UNCHANGED posted
    PROVE  SingleRunner'
<1>1. tasks # <<>> /\ posted = <<>> /\ Active = {r} /\ r = Head(tasks)
  BY ActiveOp
<1>2. ASSUME NEW ec, Complete(r, ec, posted) PROVE SingleRunner'
  <2>1. Len(posted') = 1
    BY <1>1, <1>2 DEF Complete
  <2>2. Active' = {}
    BY <1>1, <1>2 DEF TypeOK, Active, Complete
  <2> QED BY <1>1, <2>1, <2>2 DEF SingleRunner
<1>3. ASSUME NEW pc \in OpState \ {"idle"},
             opPc' = [opPc EXCEPT ![r] = pc], UNCHANGED posted
      PROVE  SingleRunner'
  <2>1. Active' = {r}
    BY <1>1, <1>3 DEF TypeOK, Active
  <2> QED BY <1>1, <1>3, <2>1 DEF SingleRunner
<1> QED BY <1>2, <1>3

\* Once its only job is taken, the strand holds nothing.
LEMMA LastJob ==
    ASSUME NEW S, NEW s \in Seq(S), Len(s) = 1
    PROVE  Tail(s) = <<>>
<1>1. Tail(s) \in Seq(S) /\ Len(Tail(s)) = 0
  OBVIOUS
<1> QED BY <1>1, EmptySeq

\* Every step hands the token on: a push to an empty queue creates it, the pop
\* of the last task and cancel_all_tasks destroy it.
LEMMA RunnerStep == TypeOK /\ SingleRunner /\ [Next]_vars => SingleRunner'
<1> SUFFICES ASSUME TypeOK, SingleRunner, [Next]_vars PROVE SingleRunner'
  OBVIOUS
<1> USE DEF opVars, callerVars, historyVars
<1>0. ASSUME UNCHANGED <<tasks, posted, opPc>> PROVE SingleRunner'
  BY <1>0 DEF SingleRunner, Active
<1>1. CASE UNCHANGED vars
  BY <1>0, <1>1 DEF vars
<1>2. ASSUME NEW r \in Requests, Push(r) PROVE SingleRunner'
  <2>1. CASE ~running
    BY <1>0, <1>2, <2>1 DEF Push
  <2>2. CASE running
    <3>1. tasks' = Append(tasks, r) /\ Active' = Active
      BY <1>2, <2>2 DEF Push, Active
    <3>2. tasks' # <<>> /\ Len(tasks') = Len(tasks) + 1
      BY <3>1 DEF TypeOK
    <3>3. CASE tasks = <<>>
      <4>1. posted' = Append(<<>>, "process_task") /\ Active' = {}
        BY <1>2, <2>2, <3>1, <3>2, <3>3 DEF Push, SingleRunner
      <4> QED BY <3>2, <4>1 DEF SingleRunner
    <3>4. CASE tasks # <<>>
      <4>1. posted' = posted /\ Head(tasks') = Head(tasks)
        BY <1>2, <2>2, <3>1, <3>2, <3>4 DEF Push, TypeOK
      <4> QED BY <3>1, <3>2, <3>4, <4>1 DEF SingleRunner
    <3> QED BY <3>3, <3>4
  <2> QED BY <2>1, <2>2
<1>3. CASE ProcessTask
  <2>1. tasks # <<>> /\ Len(posted) = 1 /\ Active = {}
    BY <1>3 DEF ProcessTask, SingleRunner
  <2>2. Tail(posted) = <<>> /\ Head(tasks) \in Requests
    BY <2>1, LastJob DEF TypeOK
  <2>3. RunOp(Head(tasks), <<>>) /\ UNCHANGED tasks
    BY <1>3, <2>1, <2>2 DEF ProcessTask, RunFront
  <2> QED BY <2>1, <2>2, <2>3, RunOpToken DEF SingleRunner
<1>4. CASE AdvanceTask
  <2>1. tasks # <<>> /\ Len(posted) = 1 /\ Active = {}
    BY <1>4 DEF AdvanceTask, SingleRunner
  <2>2. Tail(posted) = <<>> /\ Tail(tasks) \in Seq(Requests)
    BY <2>1, LastJob DEF TypeOK
  <2>3. CASE running /\ Tail(tasks) # <<>>
    <3>1. RunOp(Head(Tail(tasks)), <<>>) /\ tasks' = Tail(tasks)
      BY <1>4, <2>2, <2>3 DEF AdvanceTask, RunFront
    <3>2. Head(Tail(tasks)) \in Requests
      BY <2>2, <2>3
    <3> QED BY <2>1, <2>3, <3>1, <3>2, RunOpToken DEF SingleRunner
  <2>4. CASE ~running \/ Tail(tasks) = <<>>
    <3>1. tasks' = <<>> /\ posted' = <<>> /\ UNCHANGED opPc
      BY <1>4, <2>2, <2>4 DEF AdvanceTask, RunFront, CancelAllTasks
    <3> QED BY <2>1, <3>1 DEF SingleRunner, Active
  <2> QED BY <2>3, <2>4
<1>5. CASE Resolved \/ LoseSocket
  BY <1>0, <1>5 DEF Resolved, LoseSocket
<1>6. ASSUME NEW r \in Requests, ConnectDone(r) PROVE SingleRunner'
  <2>1. opPc[r] # "idle" /\ UNCHANGED tasks
    BY <1>6 DEF ConnectDone
  <2>2. \/ \E ec : Complete(r, ec, posted)
        \/ opPc' = [opPc EXCEPT ![r] = "process"] /\ UNCHANGED posted
    BY <1>6 DEF ConnectDone
  <2> QED BY <2>1, <2>2, OpToken DEF OpState
<1>7. ASSUME NEW r \in Requests, ProcessDone(r) PROVE SingleRunner'
  <2>1. opPc[r] # "idle" /\ UNCHANGED tasks
    BY <1>7 DEF ProcessDone
  <2>2. \/ \E ec : Complete(r, ec, posted)
        \/ \E pc \in {"closing", "close_posted"} :
             opPc' = [opPc EXCEPT ![r] = pc] /\ UNCHANGED posted
    BY <1>7 DEF ProcessDone, CloseState
  <2> QED BY <2>1, <2>2, OpToken DEF OpState
<1>8. ASSUME NEW r \in Requests, OpCloseDone(r) PROVE SingleRunner'
  <2>1. opPc[r] # "idle" /\ UNCHANGED tasks
    BY <1>8 DEF OpCloseDone
  <2>2. \/ \E ec : Complete(r, ec, posted)
        \/ opPc' = [opPc EXCEPT ![r] = "retry"] /\ UNCHANGED posted
    BY <1>8 DEF OpCloseDone
  <2> QED BY <2>1, <2>2, OpToken DEF OpState
<1>9. ASSUME NEW r \in Requests, Retry(r) PROVE SingleRunner'
  <2>1. tasks # <<>> /\ posted = <<>> /\ Active = {r} /\ r = Head(tasks)
    BY <1>9, ActiveOp DEF Retry
  <2>2. RunOp(r, <<>>) /\ UNCHANGED tasks
    BY <1>9, <2>1 DEF Retry
  <2> QED BY <2>1, <2>2, RunOpToken DEF SingleRunner
<1>10. ASSUME NEW s \in Starts, Start(s) \/ StartDone(s) PROVE SingleRunner'
  BY <1>0, <1>10 DEF Start, StartDone
<1>11. ASSUME NEW s \in Stops,
              \/ \E graceful \in BOOLEAN : Stop(s, graceful)
              \/ StopCloseDone(s) \/ StopWaitDone(s)
       PROVE  SingleRunner'
  BY <1>0, <1>11 DEF Stop, StopCloseDone, StopWaitDone
<1>12. CASE TimerExpires
  BY <1>0, <1>12 DEF TimerExpires
<1> QED
  BY <1>1, <1>2, <1>3, <1>4, <1>5, <1>6, <1>7, <1>8, <1>9, <1>10, <1>11,
     <1>12 DEF Next, OpStep

-----------------------------------------------------------------------------
(***************************************************************************)
(* Handlers in push order, once each.                                      *)
(***************************************************************************)

\* Steps that touch neither the queue nor the answers.
LEMMA SameOrder ==
    ASSUME InOrder, UNCHANGED <<tasks, accepted, replies>>, Answered' = Answered
    PROVE  InOrder'
BY DEF InOrder

\* The head, not answered yet, is answered.
LEMMA AnswerHead ==
    ASSUME TypeOK, InOrder, tasks # <<>>, ~Answered, Answered', NEW ec,
           replies' = Append(replies, Reply(Head(tasks), ec)),
           UNCHANGED <<tasks, accepted>>
    PROVE  InOrder'
<1> DEFINE n == Len(replies)
<1>1. /\ n \in Nat /\ Len(tasks) \in Nat /\ Len(accepted) \in Nat
      /\ Len(tasks) >= 1
      /\ n = Len(accepted) - Len(tasks)
      /\ Head(tasks) = tasks[1]
  BY DEF TypeOK, InOrder
<1>2. Head(tasks) = accepted[n + 1]
  BY <1>1 DEF InOrder
<1>3. /\ Len(replies') = n + 1
      /\ \A i \in 1 .. n : replies'[i] = replies[i]
      /\ replies'[n + 1] = Reply(Head(tasks), ec)
  BY DEF TypeOK
<1>4. \A i \in 1 .. Len(replies') :
        i <= Len(accepted) /\ replies'[i].req = accepted[i]
  <2> TAKE i \in 1 .. Len(replies')
  <2>1. CASE i \in 1 .. n
    BY <1>3, <2>1 DEF InOrder
  <2>2. CASE i = n + 1
    BY <1>1, <1>2, <1>3, <2>2 DEF Reply
  <2>3. i \in 1 .. n \/ i = n + 1
    BY <1>1, <1>3
  <2> QED BY <2>1, <2>2, <2>3
<1> QED BY <1>1, <1>3, <1>4 DEF InOrder

\* The answers given so far, then those of the cancelled tasks.
LEMMA Concatenated ==
    ASSUME NEW S, NEW s \in Seq(S), NEW c \in Seq(S)
    PROVE  /\ Len(s \o c) = Len(s) + Len(c)
           /\ \A i \in 1 .. Len(s) : (s \o c)[i] = s[i]
           /\ \A i \in 1 .. Len(c) : (s \o c)[Len(s) + i] = c[i]
<1>1. Len(s) \in Nat /\ Len(c) \in Nat
  OBVIOUS
<1>2. /\ Len(s \o c) = Len(s) + Len(c)
      /\ \A i \in 1 .. Len(s) + Len(c) :
           (s \o c)[i] = IF i <= Len(s) THEN s[i] ELSE c[i - Len(s)]
  BY ConcatProperties
<1> QED BY <1>1, <1>2

\* Every step keeps answers and queue in push order: only the head is answered,
\* and only by the op or the job that holds the token.
LEMMA OrderStep ==
    TypeOK /\ SingleRunner /\ InOrder /\ [Next]_vars => InOrder'
<1> SUFFICES ASSUME TypeOK, SingleRunner, InOrder, [Next]_vars PROVE InOrder'
  OBVIOUS
<1> USE DEF opVars, callerVars, historyVars
<1>0. ASSUME UNCHANGED <<tasks, posted, accepted, replies>> PROVE InOrder'
  BY <1>0, SameOrder DEF Answered
<1>1. CASE UNCHANGED vars
  BY <1>0, <1>1 DEF vars
<1>2. ASSUME NEW r \in Requests, Push(r) PROVE InOrder'
  <2>1. CASE ~running
    BY <1>0, <1>2, <2>1 DEF Push
  <2>2. CASE running
    <3>1. /\ tasks' = Append(tasks, r) /\ accepted' = Append(accepted, r)
          /\ posted' = IF Len(tasks') = 1 THEN Append(posted, "process_task")
                                          ELSE posted
          /\ UNCHANGED replies
      BY <1>2, <2>2 DEF Push
    <3>2. /\ Len(tasks) \in Nat /\ Len(accepted) \in Nat /\ Len(replies) \in Nat
          /\ Len(tasks') = Len(tasks) + 1
          /\ \A i \in 1 .. Len(tasks) : tasks'[i] = tasks[i]
          /\ tasks'[Len(tasks) + 1] = r
          /\ Len(accepted') = Len(accepted) + 1
          /\ \A i \in 1 .. Len(accepted) : accepted'[i] = accepted[i]
          /\ accepted'[Len(accepted) + 1] = r
      BY <3>1 DEF TypeOK
    <3>3. Answered' = Answered
      <4>1. CASE tasks = <<>>
        <5>1. posted = <<>>
          BY <4>1 DEF SingleRunner
        <5>2. posted' = <<>> \/ posted' = Append(<<>>, "process_task")
          BY <3>1, <5>1
        <5> QED BY <5>1, <5>2 DEF Answered
      <4>2. CASE tasks # <<>>
        <5>1. Len(tasks') # 1
          BY <3>2, <4>2 DEF TypeOK
        <5> QED BY <3>1, <5>1 DEF Answered
      <4> QED BY <4>1, <4>2
    <3>4. \A i \in 1 .. Len(replies) :
            i <= Len(accepted') /\ replies[i].req = accepted'[i]
      BY <3>2 DEF InOrder
    <3>5. \A i \in 1 .. Len(tasks') :
            tasks'[i] = accepted'[Len(accepted') - Len(tasks') + i]
      <4> TAKE i \in 1 .. Len(tasks')
      <4>1. CASE i \in 1 .. Len(tasks)
        <5>1. /\ Len(accepted) - Len(tasks) + i \in 1 .. Len(accepted)
              /\ Len(accepted') - Len(tasks') + i = Len(accepted) - Len(tasks) + i
          BY <3>2, <4>1 DEF InOrder
        <5> QED BY <3>2, <4>1, <5>1 DEF InOrder
      <4>2. CASE i = Len(tasks) + 1
        BY <3>2, <4>2
      <4> QED BY <3>2, <4>1, <4>2
    <3>6. /\ Len(tasks') <= Len(accepted')
          /\ Len(replies) = Len(accepted') - Len(tasks')
                             + (IF Answered' THEN 1 ELSE 0)
      BY <3>2, <3>3 DEF InOrder
    <3> QED BY <3>1, <3>4, <3>5, <3>6 DEF InOrder
  <2> QED BY <2>1, <2>2
<1>3. ASSUME NEW r \in Requests, RunOp(r, <<>>), UNCHANGED <<tasks, accepted>>,
             tasks # <<>>, r = Head(tasks), ~Answered
      PROVE  InOrder'
  <2>1. CASE Complete(r, "aborted", <<>>)
    <3>1. Answered'
      BY <2>1 DEF Complete, Answered
    <3> QED BY <1>3, <2>1, <3>1, AnswerHead DEF Complete
  <2>2. CASE posted' = <<>> /\ UNCHANGED replies
    BY <1>3, <2>2, SameOrder DEF Answered
  <2> QED BY <1>3, <2>1, <2>2 DEF RunOp
<1>4. CASE ProcessTask
  <2>1. tasks # <<>> /\ Len(posted) = 1 /\ ~Answered
    BY <1>4 DEF ProcessTask, SingleRunner, Answered
  <2>2. Tail(posted) = <<>> /\ Head(tasks) \in Requests
    BY <2>1, LastJob DEF TypeOK
  <2> QED BY <1>3, <1>4, <2>1, <2>2 DEF ProcessTask, RunFront
<1>5. CASE AdvanceTask
  <2>1. tasks # <<>> /\ Len(posted) = 1 /\ Answered /\ UNCHANGED accepted
    BY <1>5 DEF AdvanceTask, SingleRunner, Answered
  <2> DEFINE q == Tail(tasks)
  <2>2. /\ Tail(posted) = <<>> /\ q \in Seq(Requests)
        /\ Len(q) = Len(tasks) - 1 /\ Len(tasks) \in Nat /\ Len(q) \in Nat
        /\ Len(accepted) \in Nat /\ Len(replies) \in Nat
        /\ \A i \in 1 .. Len(q) : q[i] = tasks[i + 1]
    BY <2>1, LastJob DEF TypeOK
  <2>3. Len(replies) = Len(accepted) - Len(q) /\ Len(q) <= Len(accepted)
    BY <2>1, <2>2 DEF InOrder
  <2>4. \A i \in 1 .. Len(q) : q[i] = accepted[Len(accepted) - Len(q) + i]
    BY <2>2 DEF InOrder
  <2>5. CASE running
    <3>1. tasks' = q /\ UNCHANGED replies /\ posted' = <<>>
      BY <1>5, <2>2, <2>5 DEF AdvanceTask, RunFront, RunOp
    <3>2. ~Answered'
      BY <3>1 DEF Answered
    <3>3. \A i \in 1 .. Len(replies) :
            i <= Len(accepted) /\ replies[i].req = accepted[i]
      BY DEF InOrder
    <3> HIDE DEF q
    <3>4. Len(replies) = Len(accepted) - Len(tasks') + (IF Answered' THEN 1 ELSE 0)
      <4>1. (IF Answered' THEN 1 ELSE 0) = 0
        BY <3>2
      <4>2. Len(tasks') = Len(q)
        BY <3>1
      <4>3. Len(accepted) \in Nat /\ Len(q) \in Nat
        BY <2>2
      <4> QED BY <2>3, <4>1, <4>2, <4>3
    <3> QED BY <2>1, <2>3, <2>4, <3>1, <3>3, <3>4 DEF InOrder
  <2>6. CASE ~running
    <3> DEFINE cancelled == [i \in 1 .. Len(q) |-> Reply(q[i], "aborted")]
    <3>1. tasks' = <<>> /\ replies' = replies \o cancelled /\ posted' = <<>>
      BY <1>5, <2>2, <2>6 DEF AdvanceTask, CancelAllTasks
    <3>2. /\ cancelled \in Seq([req : Requests, ec : ErrorCode])
          /\ Len(cancelled) = Len(q)
          /\ \A i \in 1 .. Len(q) : cancelled[i].req = q[i]
      BY <2>2 DEF Reply, ErrorCode
    <3> HIDE DEF cancelled, q
    <3>3. /\ Len(replies') = Len(accepted)
          /\ \A i \in 1 .. Len(replies) : replies'[i] = replies[i]
          /\ \A i \in 1 .. Len(q) : replies'[Len(replies) + i] = cancelled[i]
      <4> DEFINE S == [req : Requests, ec : ErrorCode]
      <4>1. replies \in Seq(S) /\ cancelled \in Seq(S)
        BY <3>2 DEF TypeOK
      <4> HIDE DEF S
      <4>2. /\ Len(replies \o cancelled) = Len(replies) + Len(cancelled)
            /\ \A i \in 1 .. Len(replies) : (replies \o cancelled)[i] = replies[i]
            /\ \A i \in 1 .. Len(cancelled) :
                 (replies \o cancelled)[Len(replies) + i] = cancelled[i]
        BY <4>1, Concatenated
      <4>3. Len(replies) + Len(cancelled) = Len(accepted)
        BY <2>2, <2>3, <3>2
      <4> QED BY <3>1, <3>2, <4>2, <4>3
    <3>4. \A i \in 1 .. Len(replies') : replies'[i].req = accepted[i]
      <4> TAKE i \in 1 .. Len(replies')
      <4>1. CASE i \in 1 .. Len(replies)
        BY <3>3, <4>1 DEF InOrder
      <4>2. CASE i \notin 1 .. Len(replies)
        <5> DEFINE j == i - Len(replies)
        <5>1. j \in 1 .. Len(q) /\ i = Len(replies) + j
          BY <2>2, <2>3, <3>3, <4>2
        <5>2. q[j] = accepted[i]
          BY <2>2, <2>3, <2>4, <5>1
        <5> HIDE DEF j
        <5>3. cancelled[j].req = q[j]
          BY <3>2, <5>1
        <5>4. replies'[i] = cancelled[j]
          BY <3>3, <5>1
        <5> QED BY <5>2, <5>3, <5>4
      <4> QED BY <4>1, <4>2
    <3>5. ~Answered'
      BY <3>1 DEF Answered
    <3> QED BY <2>1, <2>2, <3>1, <3>3, <3>4, <3>5 DEF InOrder
  <2> QED BY <2>5, <2>6
<1>6. ASSUME NEW r \in Requests, opPc[r] # "idle", UNCHANGED <<tasks, accepted>>,
             \/ \E ec : Complete(r, ec, posted)
             \/ UNCHANGED <<posted, replies>>
      PROVE  InOrder'
  <2>1. tasks # <<>> /\ posted = <<>> /\ r = Head(tasks) /\ ~Answered
    BY <1>6, ActiveOp DEF Answered
  <2>2. ASSUME NEW ec, Complete(r, ec, posted) PROVE InOrder'
    <3>1. Answered'
      BY <2>1, <2>2 DEF Complete, Answered
    <3> QED BY <1>6, <2>1, <2>2, <3>1, AnswerHead DEF Complete
  <2> QED BY <1>0, <1>6, <2>2
<1>7. CASE Resolved \/ LoseSocket
  BY <1>0, <1>7 DEF Resolved, LoseSocket
<1>8. ASSUME NEW r \in Requests, ConnectDone(r) PROVE InOrder'
  BY <1>6, <1>8 DEF ConnectDone
<1>9. ASSUME NEW r \in Requests, ProcessDone(r) PROVE InOrder'
  BY <1>6, <1>9 DEF ProcessDone
<1>10. ASSUME NEW r \in Requests, OpCloseDone(r) PROVE InOrder'
  BY <1>6, <1>10 DEF OpCloseDone
<1>11. ASSUME NEW r \in Requests, Retry(r) PROVE InOrder'
  <2>1. tasks # <<>> /\ posted = <<>> /\ r = Head(tasks) /\ ~Answered
    BY <1>11, ActiveOp DEF Retry, Answered
  <2> QED BY <1>3, <1>11, <2>1 DEF Retry
<1>12. ASSUME NEW s \in Starts, Start(s) \/ StartDone(s) PROVE InOrder'
  BY <1>0, <1>12 DEF Start, StartDone
<1>13. ASSUME NEW s \in Stops,
              \/ \E graceful \in BOOLEAN : Stop(s, graceful)
              \/ StopCloseDone(s) \/ StopWaitDone(s)
       PROVE  InOrder'
  BY <1>0, <1>13 DEF Stop, StopCloseDone, StopWaitDone
<1>14. CASE TimerExpires
  BY <1>0, <1>14 DEF TimerExpires
<1> QED
  BY <1>1, <1>2, <1>4, <1>5, <1>7, <1>8, <1>9, <1>10, <1>11, <1>12, <1>13,
     <1>14 DEF Next, OpStep

-----------------------------------------------------------------------------
\* A new session has an empty queue and no token.
LEMMA InitEstablishes == Init => TypeOK /\ SingleRunner /\ InOrder
<1> SUFFICES ASSUME Init PROVE TypeOK /\ SingleRunner /\ InOrder
  OBVIOUS
<1>1. TypeOK
  <2>1. tr \in Transport
    <3>1. \A p \in BOOLEAN : NewTransport(p) \in Transport
      BY DEF NewTransport, Transport
    <3> QED BY <3>1 DEF Init
  <2> QED BY <2>1 DEF Init, TypeOK, OpState, ErrorCode, StartState, StopState
<1>2. SingleRunner
  BY DEF Init, SingleRunner, Active
<1>3. InOrder
  BY DEF Init, InOrder, Answered
<1> QED BY <1>1, <1>2, <1>3

(***************************************************************************)
(* The session never leaves its types, and one runner at a time works the  *)
(* queue: pop_task's assertion never fails, two ops never share the        *)
(* transport.  Neither is inductive alone: advance_task pops a queue that  *)
(* only SingleRunner shows to be non-empty.                                *)
(***************************************************************************)
THEOREM OneRunner == Spec => [](TypeOK /\ SingleRunner)
<1>1. Init => TypeOK /\ SingleRunner
  BY InitEstablishes
<1>2. TypeOK /\ SingleRunner /\ [Next]_vars => TypeOK' /\ SingleRunner'
  BY TypeStep, RunnerStep
<1> QED BY <1>1, <1>2, PTL DEF Spec

\* The session never leaves its types: advance_task and cancel_all_tasks only
\* ever pop a queue that holds a task.
THEOREM SessionTypes == Spec => []TypeOK
BY OneRunner, PTL

(***************************************************************************)
(* Whatever is pushed, stopped, retried or cancelled, handlers are called  *)
(* in push order and once each, and no accepted request is lost.           *)
(***************************************************************************)
THEOREM HandlersInOrder == Spec => []InOrder
<1>1. Init => TypeOK /\ SingleRunner /\ InOrder
  BY InitEstablishes
<1>2. TypeOK /\ SingleRunner /\ InOrder /\ [Next]_vars
        => TypeOK' /\ SingleRunner' /\ InOrder'
  BY TypeStep, RunnerStep, OrderStep
<1> QED BY <1>1, <1>2, PTL DEF Spec

=============================================================================
