-------------------------- MODULE TransportProofs --------------------------
(***************************************************************************)
(* Proofs about Transport, for every kind of transport and any set of      *)
(* closes, those that come while an operation runs included.               *)
(***************************************************************************)
EXTENDS Transport, TLAPS

-----------------------------------------------------------------------------
(***************************************************************************)
(* Types.                                                                  *)
(***************************************************************************)
Members == [kind : Kinds, running : BOOLEAN, open : BOOLEAN, ready : BOOLEAN,
            dirty : BOOLEAN, extra : BOOLEAN, used : BOOLEAN]
Operations == [Slots -> [owner : Owners, state : IoState, timed : BOOLEAN]]
Timers == [Slots -> BOOLEAN]
ConnectState == {"idle", "connecting", "resolving", "request", "reply",
                 "hello", "handshake"}
CloseState == {"idle", "posted", "posted_close", "failed", "notify",
               "notifying", "await", "awaiting", "done"}

\* What the stream does to its slots and timers keeps them typed.
LEMMA StreamTyped ==
    ASSUME TypeOK, NEW ops \in Operations
    PROVE  /\ Cancel(ops) \in Operations
           /\ \A S : Release(ops, S) \in Operations
           /\ \A timers \in Timers, s \in Slots, o \in Owners, up \in BOOLEAN :
                Begin(ops, timers, s, o, up) \in Operations
           /\ ExpiresAfter(ops) \in Timers
           /\ ExpiresNever(ops) \in Timers
<1>1. Cancel(ops) \in Operations
  BY DEF Cancel, Operations, IoState
<1>2. ASSUME NEW S PROVE Release(ops, S) \in Operations
  BY DEF Release, Operations, IoState, Free, Owners
<1>3. ASSUME NEW timers \in Timers, NEW s \in Slots, NEW o \in Owners, NEW up \in BOOLEAN
      PROVE  Begin(ops, timers, s, o, up) \in Operations
  <2>1. [owner |-> o, timed |-> timers[s], state |-> IF up THEN "pending" ELSE "error"]
           \in [owner : Owners, state : IoState, timed : BOOLEAN]
    BY DEF Timers, IoState
  <2> QED BY <2>1 DEF Begin, Operations
<1>4. ExpiresAfter(ops) \in Timers /\ ExpiresNever(ops) \in Timers
  BY DEF ExpiresAfter, ExpiresNever, Timers, TypeOK
<1> QED BY <1>1, <1>2, <1>3, <1>4

\* reset, and what an operation leaves in the members, keeps them typed.
LEMMA MembersTyped ==
    ASSUME NEW u \in Members
    PROVE  /\ Reset(u) \in Members
           /\ Established(u) \in Members
           /\ Soiled(u) \in Members
           /\ Surplus(u) \in Members
           /\ [Surplus(u) EXCEPT !.used = TRUE] \in Members
           /\ \A b \in BOOLEAN : /\ [u EXCEPT !.running = b] \in Members
                                 /\ [u EXCEPT !.open = b] \in Members
                                 /\ [u EXCEPT !.used = b] \in Members
                                 /\ [u EXCEPT !.open = b, !.ready = b] \in Members
BY DEF Members, Reset, Established, Soiled, Surplus

LEMMA Typed ==
    TypeOK <=> /\ t \in Members /\ armed \in Timers /\ io \in Operations
               /\ conn \in ConnectState
               /\ proc \in {"idle", "writing", "reading"}
               /\ close \in [Closes -> CloseState]
               /\ {connEc, procEc} \subseteq {"none", "ok", "error", "aborted"}
               /\ closed \in BOOLEAN
               /\ calls \in 0 .. MaxCalls
BY DEF TypeOK, Members, Timers, Operations, ConnectState, CloseState

LEMMA EndsTyped ==
    ASSUME TypeOK, NEW ops \in Operations
    PROVE  /\ \A ec \in {"ok", "error", "aborted"} :
                ConnectEnds(ops, ec) =>
                   /\ conn' \in ConnectState /\ connEc' = ec
                   /\ io' \in Operations /\ armed' \in Timers
           /\ \A pc \in ConnectState, s \in Slots :
                ConnectGoesOn(pc, ops, s) =>
                   /\ conn' \in ConnectState /\ connEc' = connEc
                   /\ io' \in Operations /\ armed' \in Timers
           /\ \A ec \in {"ok", "error", "aborted"} :
                ProcessEnds(ec, ops) =>
                   /\ proc' = "idle" /\ procEc' = ec
                   /\ io' \in Operations /\ armed' \in Timers
           /\ \A k \in Closes, u \in Members :
                CloseEnds(k, ops, u) =>
                   /\ close' \in [Closes -> CloseState] /\ t' \in Members
                   /\ io' \in Operations /\ armed' \in Timers
           /\ \A timers \in Timers, s \in Slots :
                BeginProcess(ops, timers, s) \in Operations
<1> USE Typed
<1>1. t.open \in BOOLEAN /\ (t.open /\ t.ready) \in BOOLEAN
  BY DEF Members
<1>2. "connect" \in Owners /\ "process" \in Owners
  BY DEF Owners
<1>3. ASSUME NEW ec \in {"ok", "error", "aborted"}, ConnectEnds(ops, ec)
      PROVE  /\ conn' \in ConnectState /\ connEc' = ec
             /\ io' \in Operations /\ armed' \in Timers
  BY <1>3, StreamTyped DEF ConnectEnds, ConnectState
<1>4. ASSUME NEW pc \in ConnectState, NEW s \in Slots, ConnectGoesOn(pc, ops, s)
      PROVE  /\ conn' \in ConnectState /\ connEc' = connEc
             /\ io' \in Operations /\ armed' \in Timers
  BY <1>1, <1>2, <1>4, StreamTyped DEF ConnectGoesOn
<1>5. ASSUME NEW ec \in {"ok", "error", "aborted"}, ProcessEnds(ec, ops)
      PROVE  /\ proc' = "idle" /\ procEc' = ec
             /\ io' \in Operations /\ armed' \in Timers
  BY <1>5, StreamTyped DEF ProcessEnds
<1>6. ASSUME NEW k \in Closes, NEW u \in Members, CloseEnds(k, ops, u)
      PROVE  /\ close' \in [Closes -> CloseState] /\ t' \in Members
             /\ io' \in Operations /\ armed' \in Timers
  BY <1>6, StreamTyped, MembersTyped DEF CloseEnds, CloseState
<1>7. \A timers \in Timers, s \in Slots : BeginProcess(ops, timers, s) \in Operations
  BY <1>1, <1>2, StreamTyped DEF BeginProcess
<1> QED BY <1>3, <1>4, <1>5, <1>6, <1>7

\* Every step keeps the types; the codes of the operations are error codes.
LEMMA TypeStep == TypeOK /\ [Next]_vars => TypeOK'
<1> SUFFICES ASSUME TypeOK, [Next]_vars PROVE TypeOK'
  OBVIOUS
<1> DEFINE TypeOKNext ==
             /\ t' \in Members /\ armed' \in Timers /\ io' \in Operations
             /\ conn' \in ConnectState
             /\ proc' \in {"idle", "writing", "reading"}
             /\ close' \in [Closes -> CloseState]
             /\ {connEc', procEc'} \subseteq {"none", "ok", "error", "aborted"}
             /\ closed' \in BOOLEAN
             /\ calls' \in 0 .. MaxCalls
<1> SUFFICES TypeOKNext
  BY DEF TypeOK, Members, Timers, Operations, ConnectState, CloseState
<1> HIDE DEF TypeOKNext
<1>typed. /\ t \in Members /\ armed \in Timers /\ io \in Operations
          /\ conn \in ConnectState
          /\ proc \in {"idle", "writing", "reading"}
          /\ close \in [Closes -> CloseState]
          /\ {connEc, procEc} \subseteq {"none", "ok", "error", "aborted"}
          /\ closed \in BOOLEAN
          /\ calls \in 0 .. MaxCalls
  BY Typed
<1> USE DEF callerVars, TypeOKNext
<1>1. CASE UNCHANGED vars
  BY <1>1, <1>typed DEF vars
<1>codes. /\ \A st : Code(st) \in {"ok", "error", "aborted"}
          /\ \A s : EntryCode(s) \in {"ok", "error", "aborted"}
  BY DEF Code, EntryCode
<1>released. \A S : Release(io, S) \in Operations
  BY <1>typed, StreamTyped
<1>2. CASE MayConnect /\ ConnectCall
  <2>1. calls' \in 0 .. MaxCalls
    BY <1>2, <1>typed, CallsAssumption DEF MayConnect, ConnectCall
  <2>2. t' \in Members
    BY <1>2, <1>typed, MembersTyped DEF ConnectCall
  <2> QED BY <1>2, <1>typed, <2>1, <2>2, StreamTyped DEF ConnectCall, ConnectState
<1>3. CASE ResolveDone
  <2>1. CASE \E ec \in {"ok", "error", "aborted"} : ConnectEnds(io, ec) /\ UNCHANGED t
    BY <1>3, <1>typed, <2>1, EndsTyped DEF ResolveDone
  <2>2. CASE conn' = "idle" /\ connEc' = "error" /\ UNCHANGED <<t, io, armed>>
    BY <1>3, <1>typed, <2>2 DEF ResolveDone, ConnectState
  <2>3. CASE /\ conn' = "connecting" /\ UNCHANGED <<armed, connEc>>
             /\ t' = [t EXCEPT !.open = TRUE]
             /\ io' = [s \in Slots |-> [owner |-> "connect", timed |-> armed[s],
                                        state |-> "pending"]]
    <3>1. io' \in Operations
      BY <1>typed, <2>3 DEF Operations, Timers, Owners, IoState
    <3> QED BY <1>3, <1>typed, <2>3, <3>1, MembersTyped DEF ResolveDone, ConnectState
  <2> QED BY <1>3, <2>1, <2>2, <2>3 DEF ResolveDone
<1>4. CASE TcpConnectDone
  <2> DEFINE ops == Release(io, Slots)
  <2>1. ops \in Operations
    BY <1>released
  <2> HIDE DEF ops
  <2>2. UNCHANGED <<proc, close, procEc, closed, calls>>
    BY <1>4 DEF TcpConnectDone
  <2>3. CASE \E ec \in {"ok", "error", "aborted"} :
               ConnectEnds(ops, ec) /\ t' \in {t, Established(t)}
    BY <1>typed, <2>1, <2>2, <2>3, EndsTyped, MembersTyped
  <2>4. CASE \E pc \in {"request", "hello"} : ConnectGoesOn(pc, ops, "write") /\ t' = t
    BY <1>typed, <2>1, <2>2, <2>4, EndsTyped DEF Slots, ConnectState
  <2> QED BY <1>4, <1>codes, <2>3, <2>4 DEF TcpConnectDone, ops
<1>5. CASE ConnectRequestSent \/ HelloSent
  <2> DEFINE ops == Release(io, {"write"})
  <2>1. ops \in Operations
    BY <1>released
  <2> HIDE DEF ops
  <2>2. UNCHANGED <<proc, close, procEc, closed, calls>>
    BY <1>5 DEF ConnectRequestSent, HelloSent
  <2>3. CASE \E ec \in {"ok", "error", "aborted"} : ConnectEnds(ops, ec) /\ t' = t
    BY <1>typed, <2>1, <2>2, <2>3, EndsTyped
  <2>4. CASE \E pc \in {"reply", "handshake"} : ConnectGoesOn(pc, ops, "read") /\ t' = t
    BY <1>typed, <2>1, <2>2, <2>4, EndsTyped DEF Slots, ConnectState
  <2> QED BY <1>5, <1>codes, <2>3, <2>4 DEF ConnectRequestSent, HelloSent, ops
<1>6. CASE ProxyReplied \/ HandshakeDone
  <2> DEFINE ops == Release(io, {"read"})
  <2>1. ops \in Operations
    BY <1>released
  <2> HIDE DEF ops
  <2>2. UNCHANGED <<proc, close, procEc, closed, calls>>
    BY <1>6 DEF ProxyReplied, HandshakeDone
  <2>3. CASE \E ec \in {"ok", "error", "aborted"} :
               ConnectEnds(ops, ec) /\ t' \in {t, Surplus(t), Established(t)}
    BY <1>typed, <2>1, <2>2, <2>3, EndsTyped, MembersTyped
  <2>4. CASE \E pc \in {"reply", "hello"}, s \in Slots :
               ConnectGoesOn(pc, ops, s) /\ t' \in {t, Surplus(t)}
    BY <1>typed, <2>1, <2>2, <2>4, EndsTyped, MembersTyped DEF ConnectState
  <2> QED BY <1>6, <1>codes, <2>3, <2>4 DEF ProxyReplied, HandshakeDone, ops, Slots
<1>7. CASE MayProcess /\ ProcessCall
  <2>1. calls' \in 0 .. MaxCalls
    BY <1>7, <1>typed, CallsAssumption DEF MayProcess, ProcessCall
  <2>2. CASE ProcessEnds("aborted", io)
    BY <1>7, <1>typed, <2>1, <2>2, EndsTyped DEF ProcessCall
  <2>3. CASE /\ proc' = "writing" /\ procEc' = "none" /\ armed' = ExpiresAfter(io)
             /\ io' = BeginProcess(io, armed', "write")
    <3>1. armed' \in Timers
      BY <1>typed, <2>3, StreamTyped
    <3>2. io' \in Operations
      BY <1>typed, <2>3, <3>1, EndsTyped DEF Slots
    <3> QED BY <1>7, <1>typed, <2>1, <2>3, <3>1, <3>2 DEF ProcessCall
  <2> QED BY <1>7, <2>2, <2>3 DEF ProcessCall
<1>8. CASE WriteDone
  <2>1. CASE ProcessEnds(EntryCode("write"), Release(io, {"write"}))
    BY <1>8, <1>typed, <1>codes, <1>released, <2>1, EndsTyped DEF WriteDone
  <2>2. CASE /\ proc' = "reading" /\ UNCHANGED <<armed, procEc>>
             /\ io' = BeginProcess(Release(io, {"write"}), armed, "read")
    BY <1>8, <1>typed, <1>released, <2>2, EndsTyped DEF WriteDone, Slots
  <2> QED BY <1>8, <2>1, <2>2 DEF WriteDone
<1>9. CASE ReadSome
  BY <1>9, <1>typed, EndsTyped DEF ReadSome, Slots
<1>10. CASE ReadDone
  BY <1>10, <1>typed, <1>codes, <1>released, EndsTyped, MembersTyped DEF ReadDone
<1>11. ASSUME NEW k \in Closes, NEW gr \in BOOLEAN, CloseCall(k, gr)
       PROVE  TypeOKNext
  <2>1. [t EXCEPT !.running = FALSE] \in Members /\ Cancel(io) \in Operations
    BY <1>typed, MembersTyped, StreamTyped
  <2>2. CASE CloseEnds(k, Cancel(io), [t EXCEPT !.running = FALSE])
    BY <1>11, <1>typed, <2>1, <2>2, EndsTyped DEF CloseCall
  <2>3. CASE /\ \E pc \in ShutdownStates \cup {"posted"} :
                   close' = [close EXCEPT ![k] = pc]
             /\ t' = [t EXCEPT !.running = FALSE]
             /\ armed' = ExpiresAfter(io)
             /\ io' \in {io, Cancel(io)}
    <3>1. close' \in [Closes -> CloseState]
      BY <1>typed, <2>3 DEF ShutdownStates, CloseState
    <3> QED BY <1>11, <1>typed, <2>1, <2>3, <3>1, StreamTyped DEF CloseCall
  <2> QED BY <1>11, <2>2, <2>3 DEF CloseCall
<1>12. ASSUME NEW k \in Closes, PostedDone(k) PROVE TypeOKNext
  BY <1>12, <1>typed, EndsTyped DEF PostedDone
<1>13. ASSUME NEW k \in Closes, TcpCloseDone(k) \/ SslCloseDone(k) PROVE TypeOKNext
  <2>1. SocketClosed \in Members
    BY <1>typed, MembersTyped DEF SocketClosed
  <2>2. \A S : Cancel(Release(io, S)) \in Operations
    BY <1>released, StreamTyped
  <2>3. Cancel(io) \in Operations
    BY <1>typed, StreamTyped
  <2>4. PICK ops \in Operations : CloseEnds(k, ops, SocketClosed)
    BY <1>13, <2>2, <2>3 DEF TcpCloseDone, SslCloseDone
  <2> QED BY <1>13, <1>typed, <2>1, <2>4, EndsTyped DEF TcpCloseDone, SslCloseDone
<1>14. ASSUME NEW k \in Closes, SendNotify(k) \/ AwaitNotify(k) PROVE TypeOKNext
  <2>1. k \in Owners /\ t.open \in BOOLEAN
    BY <1>typed DEF Owners, Members
  <2> QED BY <1>14, <1>typed, <2>1, StreamTyped DEF SendNotify, AwaitNotify, Slots, CloseState
<1>15. ASSUME NEW k \in Closes, NotifySent(k) PROVE TypeOKNext
  BY <1>15, <1>typed, <1>released DEF NotifySent, CloseState
<1>16. ASSUME NEW s \in Slots, PeerCompletes(s) PROVE TypeOKNext
  <2>1. io' \in Operations
    BY <1>16, <1>typed DEF PeerCompletes, Operations, IoState
  <2> QED BY <1>16, <1>typed, <2>1 DEF PeerCompletes
<1>17. ASSUME NEW s \in Slots, Timeout(s) PROVE TypeOKNext
  <2>1. [x \in Slots |-> IF io[x].owner = io[s].owner
                         THEN [io[x] EXCEPT !.state = "timeout"]
                         ELSE io[x]] \in Operations
    BY <1>typed DEF Operations, IoState
  <2> QED BY <1>17, <1>typed, <2>1, StreamTyped, MembersTyped DEF Timeout
<1>18. CASE KernelGivesUp
  <2>1. io' \in Operations
    BY <1>18, <1>typed DEF KernelGivesUp, Operations, IoState
  <2> QED BY <1>18, <1>typed, <2>1 DEF KernelGivesUp
<1> QED
  BY <1>1, <1>2, <1>3, <1>4, <1>5, <1>6, <1>7, <1>8, <1>9, <1>10, <1>11, <1>12,
     <1>13, <1>14, <1>15, <1>16, <1>17, <1>18
     DEF Next, ConnectStep, ProcessStep, CloseStep, StreamStep

-----------------------------------------------------------------------------
(***************************************************************************)
(* Who uses the stream.  The slots, seen from the operations: each holds   *)
(* what its owner is waiting for, and nothing else.                        *)
(***************************************************************************)
ConnectUses(s) ==
    IF s = "write" THEN {"connecting", "request", "hello"}
                   ELSE {"connecting", "reply", "handshake"}

Owned ==
    \A s \in Slots :
        /\ io[s].owner = "none" <=> io[s].state = "free"
        /\ io[s].owner = "connect" <=> conn \in ConnectUses(s)
        /\ io[s].owner = "process" <=>
              proc = IF s = "write" THEN "writing" ELSE "reading"
        /\ \A k \in Closes :
              io[s].owner = k <=>
                 close[k] = IF s = "write" THEN "notifying" ELSE "awaiting"

(***************************************************************************)
(* The order of the operations, although closes may come at any time.      *)
(***************************************************************************)

\* A connect and a request never overlap.
OneOperation == conn = "idle" \/ proc = "idle"

\* The notifications of a TLS shutdown are not sent into a connect.
ShutdownAlone ==
    \A k \in Closes :
        close[k] \in {"notify", "notifying", "await", "awaiting"} => conn = "idle"

\* A transport that is being closed does not run.
ClosingStopped == Closing => ~t.running

\* No connect goes on over an established connection.
ConnectingNotReady == conn # "idle" => ~t.ready

\* Only a tunnel talks to a proxy.
ProxyOnly == conn \in {"request", "reply"} => Tunnel

\* A tunnel is closed when idle, and its close leaves a new stream.
TunnelAlone ==
    Tunnel /\ ~t.running =>
        /\ conn = "idle" /\ proc = "idle"
        /\ ~Closing => ~t.ready /\ ~t.dirty

Order ==
    /\ OneOperation /\ ShutdownAlone /\ ClosingStopped
    /\ ConnectingNotReady /\ ProxyOnly /\ TunnelAlone

\* Without an operation, both slots are free.
LEMMA IdleFree ==
    ASSUME TypeOK, Owned, Idle, NEW s \in Slots
    PROVE  io[s].owner = "none" /\ io[s].state = "free"
<1>1. io[s].owner \in Owners
  BY Typed DEF Operations
<1>2. conn \notin ConnectUses(s)
  BY DEF Idle, ConnectUses
<1>3. \A k \in Closes : close[k] \in {"idle", "done"}
  BY DEF Idle, Closing
<1> QED BY <1>1, <1>2, <1>3 DEF Owned, Owners, Idle

\* While a connect is under way no one else has an operation in a slot.
LEMMA ConnectOnly ==
    ASSUME TypeOK, Owned, Order, conn # "idle", NEW s \in Slots
    PROVE  io[s].owner \in {"none", "connect"} /\ proc = "idle"
<1>1. io[s].owner \in Owners
  BY Typed DEF Operations
<1>2. proc = "idle" /\ \A k \in Closes : close[k] \notin {"notifying", "awaiting"}
  BY DEF Order, OneOperation, ShutdownAlone
<1> QED BY <1>1, <1>2 DEF Owned, Owners

\* Steps that change what an operation is at, but not whose it is.
LEMMA OwnersKept ==
    ASSUME Owned, UNCHANGED <<conn, proc>>,
           \A k \in Closes : close'[k] = close[k]
                \/ /\ close[k] \notin {"notifying", "awaiting"}
                   /\ close'[k] \notin {"notifying", "awaiting"},
           \A s \in Slots : /\ io'[s].owner = io[s].owner
                            /\ io'[s].state = "free" <=> io[s].state = "free"
    PROVE  Owned'
<1>1. ASSUME NEW k \in Closes
      PROVE  /\ close'[k] = "notifying" <=> close[k] = "notifying"
             /\ close'[k] = "awaiting" <=> close[k] = "awaiting"
  OBVIOUS
<1> QED BY <1>1 DEF Owned, ConnectUses, Slots

\* A connect moves on: the slots it holds are those its new state says.
LEMMA ConnectOwns ==
    ASSUME TypeOK, Owned, Order, conn # "idle", UNCHANGED <<proc, close>>,
           \A s \in Slots :
              IF conn' \in ConnectUses(s)
              THEN io'[s].owner = "connect" /\ io'[s].state # "free"
              ELSE io'[s].owner = "none" /\ io'[s].state = "free"
    PROVE  Owned'
<1>1. proc = "idle" /\ \A k \in Closes : close[k] \notin {"notifying", "awaiting"}
  BY DEF Order, OneOperation, ShutdownAlone
<1>2. "connect" \notin Closes /\ "none" \notin Closes
  BY ClosesAssumption
<1> QED BY <1>1, <1>2 DEF Owned, ConnectUses, Slots

\* Whatever a connect holds is free once the operation it waited for is over.
LEMMA ConnectReleased ==
    ASSUME TypeOK, Owned, Order, conn # "idle", NEW S,
           \A s \in Slots : conn \in ConnectUses(s) => s \in S, NEW s \in Slots
    PROVE  Release(io, S)[s].owner = "none" /\ Release(io, S)[s].state = "free"
<1>1. io \in Operations
  BY Typed
<1>2. s \notin S => io[s].owner = "none" /\ io[s].state = "free"
  BY ConnectOnly DEF Owned
<1> QED BY <1>1, <1>2 DEF Release, Free

\* It ends there, or goes on with one operation in one slot.
LEMMA ConnectMoves ==
    ASSUME TypeOK, Owned, Order, conn # "idle", UNCHANGED <<proc, close>>,
           NEW ops \in Operations,
           \A s \in Slots : ops[s].owner = "none" /\ ops[s].state = "free",
           \/ \E ec : ConnectEnds(ops, ec)
           \/ \E pc \in {"request", "hello"} : ConnectGoesOn(pc, ops, "write")
           \/ \E pc \in {"reply", "handshake"} : ConnectGoesOn(pc, ops, "read")
    PROVE  Owned'
<1>1. CASE \E ec : ConnectEnds(ops, ec)
  <2>1. conn' = "idle" /\ io' = ops
    BY <1>1 DEF ConnectEnds
  <2> QED BY <2>1, ConnectOwns DEF ConnectUses
<1>2. ASSUME NEW pc, NEW x \in Slots, ConnectGoesOn(pc, ops, x),
             \A s \in Slots : pc \in ConnectUses(s) <=> s = x
      PROVE  Owned'
  <2>1. conn' = pc /\ io' = Begin(ops, armed, x, "connect", t.open)
    BY <1>2 DEF ConnectGoesOn
  <2>2. \A s \in Slots :
          /\ s = x => io'[s].owner = "connect" /\ io'[s].state # "free"
          /\ s # x => io'[s] = ops[s]
    BY <2>1 DEF Begin, Operations
  <2> QED BY <1>2, <2>1, <2>2, ConnectOwns
<1> QED BY <1>1, <1>2 DEF Slots, ConnectUses

\* Every operation takes the slot it needs and leaves it when it is over.
LEMMA OwnedStep == TypeOK /\ Owned /\ Order /\ [Next]_vars => Owned'
<1> SUFFICES ASSUME TypeOK, Owned, Order, [Next]_vars PROVE Owned'
  OBVIOUS
<1>typed. /\ io \in Operations /\ armed \in Timers
          /\ close \in [Closes -> CloseState] /\ "read" \in Slots /\ "write" \in Slots
          /\ \A S : Release(io, S) \in Operations
  BY Typed, StreamTyped DEF Slots
<1>apart. /\ "connect" \notin Closes /\ "process" \notin Closes /\ "none" \notin Closes
  BY ClosesAssumption
<1>1. CASE UNCHANGED vars
  BY <1>1, OwnersKept DEF vars
<1>2. CASE MayConnect /\ ConnectCall
  <2>1. conn = "idle" /\ conn' = "resolving" /\ UNCHANGED <<io, proc, close>>
    BY <1>2 DEF MayConnect, Idle, ConnectCall
  <2> QED BY <2>1 DEF Owned, ConnectUses
<1>3. CASE ResolveDone
  <2>1. conn = "resolving" /\ UNCHANGED <<proc, close>>
    BY <1>3 DEF ResolveDone
  <2>2. \A s \in Slots : io[s].owner = "none" /\ io[s].state = "free"
    BY <2>1, ConnectOnly DEF Owned, ConnectUses
  <2>3. CASE \E ec : ConnectEnds(io, ec)
    BY <1>typed, <2>1, <2>2, <2>3, ConnectMoves
  <2>4. CASE conn' = "idle" /\ UNCHANGED io
    BY <2>1, <2>2, <2>4, ConnectOwns DEF ConnectUses
  <2>5. CASE /\ conn' = "connecting"
             /\ io' = [s \in Slots |-> [owner |-> "connect", timed |-> armed[s],
                                        state |-> "pending"]]
    BY <2>1, <2>5, ConnectOwns DEF ConnectUses
  <2> QED BY <1>3, <2>3, <2>4, <2>5 DEF ResolveDone
<1>4. CASE TcpConnectDone
  <2>1. /\ conn = "connecting" /\ UNCHANGED <<proc, close>>
        /\ \/ \E ec : ConnectEnds(Release(io, Slots), ec)
           \/ \E pc \in {"request", "hello"} :
                 ConnectGoesOn(pc, Release(io, Slots), "write")
    BY <1>4 DEF TcpConnectDone
  <2> QED BY <1>typed, <2>1, ConnectReleased, ConnectMoves
<1>5. CASE ConnectRequestSent \/ HelloSent
  <2>1. /\ conn \in {"request", "hello"} /\ UNCHANGED <<proc, close>>
        /\ \/ \E ec : ConnectEnds(Release(io, {"write"}), ec)
           \/ \E pc \in {"reply", "handshake"} :
                 ConnectGoesOn(pc, Release(io, {"write"}), "read")
    BY <1>5 DEF ConnectRequestSent, HelloSent
  <2>2. \A s \in Slots : conn \in ConnectUses(s) => s \in {"write"}
    BY <2>1 DEF ConnectUses, Slots
  <2> QED BY <1>typed, <2>1, <2>2, ConnectReleased, ConnectMoves
<1>6. CASE ProxyReplied \/ HandshakeDone
  <2>1. /\ conn \in {"reply", "handshake"} /\ UNCHANGED <<proc, close>>
        /\ \/ \E ec : ConnectEnds(Release(io, {"read"}), ec)
           \/ \E pc \in {"request", "hello"} :
                 ConnectGoesOn(pc, Release(io, {"read"}), "write")
           \/ \E pc \in {"reply", "handshake"} :
                 ConnectGoesOn(pc, Release(io, {"read"}), "read")
    BY <1>6 DEF ProxyReplied, HandshakeDone
  <2>2. \A s \in Slots : conn \in ConnectUses(s) => s \in {"read"}
    BY <2>1 DEF ConnectUses, Slots
  <2> QED BY <1>typed, <2>1, <2>2, ConnectReleased, ConnectMoves
<1>7. CASE MayProcess /\ ProcessCall
  <2>1. Idle /\ UNCHANGED <<conn, close>>
    BY <1>7 DEF MayProcess, ProcessCall
  <2>2. \A s \in Slots : io[s].owner = "none" /\ io[s].state = "free"
    BY <2>1, IdleFree
  <2>3. CASE ProcessEnds("aborted", io)
    BY <2>1, <2>2, <2>3 DEF ProcessEnds, Owned, Idle
  <2>4. CASE proc' = "writing" /\ \E up : io' = Begin(io, armed', "write", "process", up)
    <3>1. /\ io'["write"].owner = "process" /\ io'["write"].state # "free"
          /\ io'["read"] = io["read"]
      BY <1>typed, <2>4 DEF Begin, Operations, Slots
    <3> QED BY <1>apart, <2>1, <2>2, <2>4, <3>1 DEF Owned, Idle, Slots
  <2> QED BY <1>7, <2>3, <2>4 DEF ProcessCall, BeginProcess
<1>8. CASE WriteDone
  <2>1. /\ proc = "writing" /\ io["write"].owner = "process" /\ UNCHANGED <<conn, close>>
        /\ conn = "idle"
    BY <1>8, <1>typed DEF WriteDone, Owned, Order, OneOperation, Completed
  <2>2. /\ Release(io, {"write"})["write"] = Free
        /\ Release(io, {"write"})["read"] = io["read"]
    BY <1>typed DEF Release
  <2>3. CASE ProcessEnds(EntryCode("write"), Release(io, {"write"}))
    <3>1. proc' = "idle" /\ io'["write"] = Free /\ io'["read"] = io["read"]
      BY <2>2, <2>3 DEF ProcessEnds
    <3> QED BY <1>apart, <2>1, <3>1 DEF Owned, Free, Slots, ConnectUses
  <2>4. CASE /\ EntryCode("write") = "ok" /\ proc' = "reading"
             /\ \E up : io' = Begin(Release(io, {"write"}), armed, "read", "process", up)
    <3>1. /\ io'["read"].owner = "process" /\ io'["read"].state # "free"
          /\ io'["write"] = Free
      BY <1>typed, <2>2, <2>4 DEF Begin, Operations
    <3>2. t.running
      BY <2>4 DEF EntryCode, Code
    <3>3. \A k \in Closes : close[k] \in {"idle", "done"}
      BY <3>2 DEF Order, ClosingStopped, Closing
    <3> QED BY <1>apart, <2>1, <2>4, <3>1, <3>3 DEF Owned, Free, Slots, ConnectUses
  <2> QED BY <1>8, <2>3, <2>4 DEF WriteDone, BeginProcess
<1>9. CASE ReadSome
  <2>1. /\ io["read"].owner = "process" /\ io["read"].state # "free"
        /\ UNCHANGED <<conn, proc, close>>
        /\ \E up : io' = Begin(io, armed, "read", "process", up)
    BY <1>9 DEF ReadSome, Completed, BeginProcess
  <2>2. \A s \in Slots : /\ io'[s].owner = io[s].owner
                         /\ io'[s].state = "free" <=> io[s].state = "free"
    BY <1>typed, <2>1 DEF Begin, Operations, Slots
  <2> QED BY <2>1, <2>2, OwnersKept
<1>10. CASE ReadDone
  <2>1. /\ proc = "reading" /\ io["read"].owner = "process" /\ UNCHANGED <<conn, close>>
        /\ conn = "idle" /\ proc' = "idle" /\ io' = Release(io, {"read"})
    BY <1>10, <1>typed
       DEF ReadDone, ProcessEnds, Owned, Order, OneOperation, Completed
  <2>2. io'["read"] = Free /\ io'["write"] = io["write"]
    BY <1>typed, <2>1 DEF Release
  <2> QED BY <1>apart, <2>1, <2>2 DEF Owned, Free, Slots, ConnectUses
<1>11. ASSUME NEW k \in Closes, NEW gr \in BOOLEAN, CloseCall(k, gr) PROVE Owned'
  <2>1. /\ close[k] = "idle" /\ UNCHANGED <<conn, proc>> /\ io' \in {io, Cancel(io)}
        /\ \E pc \in ShutdownStates \cup {"posted", "done"} :
              close' = [close EXCEPT ![k] = pc]
    BY <1>11 DEF CloseCall, CloseEnds
  <2>2. \A s \in Slots : /\ io'[s].owner = io[s].owner
                         /\ io'[s].state = "free" <=> io[s].state = "free"
    BY <1>typed, <2>1 DEF Cancel, Operations
  <2>3. \A c \in Closes : close'[c] = close[c]
           \/ /\ close[c] \notin {"notifying", "awaiting"}
              /\ close'[c] \notin {"notifying", "awaiting"}
    BY <1>typed, <2>1 DEF ShutdownStates
  <2> QED BY <2>1, <2>2, <2>3, OwnersKept
<1>12. ASSUME NEW k \in Closes, PostedDone(k) \/ TcpCloseDone(k) PROVE Owned'
  <2>1. /\ close[k] \in {"posted", "posted_close"} /\ UNCHANGED <<conn, proc>>
        /\ io' \in {io, Cancel(io)} /\ close' = [close EXCEPT ![k] = "done"]
    BY <1>12 DEF PostedDone, TcpCloseDone, CloseEnds
  <2>2. \A s \in Slots : /\ io'[s].owner = io[s].owner
                         /\ io'[s].state = "free" <=> io[s].state = "free"
    BY <1>typed, <2>1 DEF Cancel, Operations
  <2> QED BY <1>typed, <2>1, <2>2, OwnersKept
<1>13. ASSUME NEW k \in Closes, SslCloseDone(k) PROVE Owned'
  <2> DEFINE S == {s \in Slots : io[s].owner = k}
  <2>1. /\ UNCHANGED <<conn, proc>> /\ close' = [close EXCEPT ![k] = "done"]
        /\ io' = Cancel(Release(io, S))
    BY <1>13 DEF SslCloseDone, CloseEnds
  <2>2. \A s \in Slots :
          /\ io[s].owner = k => io'[s].owner = "none" /\ io'[s].state = "free"
          /\ io[s].owner # k => /\ io'[s].owner = io[s].owner
                                /\ io'[s].state = "free" <=> io[s].state = "free"
    <3> TAKE s \in Slots
    <3>1. Release(io, S)[s] = IF io[s].owner = k THEN Free ELSE io[s]
      BY DEF Release
    <3>2. /\ io'[s].owner = Release(io, S)[s].owner
          /\ io'[s].state = "free" <=> Release(io, S)[s].state = "free"
      BY <1>typed, <2>1 DEF Cancel, Operations
    <3> QED BY <3>1, <3>2 DEF Free
  <2>3. close'[k] = "done" /\ \A c \in Closes \ {k} : close'[c] = close[c]
    BY <1>typed, <2>1
  <2> HIDE DEF S
  <2>4. ASSUME NEW s \in Slots
        PROVE  /\ io'[s].owner = "none" <=> io'[s].state = "free"
               /\ io'[s].owner = "connect" <=> conn' \in ConnectUses(s)
               /\ io'[s].owner = "process" <=>
                     proc' = IF s = "write" THEN "writing" ELSE "reading"
    <3>1. CASE io[s].owner = k
      BY <1>apart, <2>1, <2>2, <3>1 DEF Owned
    <3>2. CASE io[s].owner # k
      BY <2>1, <2>2, <3>2 DEF Owned
    <3> QED BY <3>1, <3>2
  <2>5. ASSUME NEW s \in Slots, NEW c \in Closes
        PROVE  io'[s].owner = c <=>
                  close'[c] = IF s = "write" THEN "notifying" ELSE "awaiting"
    <3>1. CASE c = k
      BY <1>apart, <2>2, <2>3, <3>1
    <3>2. CASE c # k
      BY <1>apart, <2>2, <2>3, <3>2 DEF Owned
    <3> QED BY <3>1, <3>2
  <2> QED BY <2>4, <2>5 DEF Owned, ConnectUses
<1>14. ASSUME NEW k \in Closes, NEW s \in Slots, NEW pc, NEW pc1,
              pc = IF s = "write" THEN "notifying" ELSE "awaiting",
              pc1 \in {"notify", "await"}, close[k] = pc1, ~Busy(io, s),
              close' = [close EXCEPT ![k] = pc],
              io' = Begin(io, armed, s, k, t.open), UNCHANGED <<conn, proc>>
       PROVE  Owned'
  <2>1. /\ io'[s].owner = k /\ io'[s].state # "free"
        /\ \A x \in Slots \ {s} : io'[x] = io[x]
        /\ io[s].owner = "none"
    BY <1>typed, <1>14 DEF Busy, Owned, Begin, Operations
  <2>2. close'[k] = pc /\ \A c \in Closes \ {k} : close'[c] = close[c]
    BY <1>typed, <1>14
  <2> QED BY <1>apart, <1>14, <2>1, <2>2 DEF Owned, ConnectUses, Slots
<1>15. ASSUME NEW k \in Closes, SendNotify(k) \/ AwaitNotify(k) PROVE Owned'
  BY <1>14, <1>15, <1>typed DEF SendNotify, AwaitNotify
<1>16. ASSUME NEW k \in Closes, NotifySent(k) PROVE Owned'
  <2>1. /\ close[k] = "notifying" /\ io["write"].owner = k /\ UNCHANGED <<conn, proc>>
        /\ close' = [close EXCEPT ![k] = "await"] /\ io' = Release(io, {"write"})
    BY <1>16 DEF NotifySent, Completed
  <2>2. io'["write"] = Free /\ io'["read"] = io["read"]
    BY <1>typed, <2>1 DEF Release
  <2>3. close'[k] = "await" /\ \A c \in Closes \ {k} : close'[c] = close[c]
    BY <1>typed, <2>1
  <2> QED BY <1>apart, <2>1, <2>2, <2>3 DEF Owned, Free, ConnectUses, Slots
<1>17. ASSUME NEW s \in Slots, PeerCompletes(s) PROVE Owned'
  <2>1. \A x \in Slots : /\ io'[x].owner = io[x].owner
                         /\ io'[x].state = "free" <=> io[x].state = "free"
    BY <1>17, <1>typed DEF PeerCompletes, Operations
  <2> QED BY <1>17, <2>1, OwnersKept DEF PeerCompletes
<1>18. ASSUME NEW s \in Slots, Timeout(s) PROVE Owned'
  <2> DEFINE ops == [x \in Slots |-> IF io[x].owner = io[s].owner
                                     THEN [io[x] EXCEPT !.state = "timeout"]
                                     ELSE io[x]]
  <2>1. io[s].owner # "none"
    BY <1>18 DEF Timeout, Owned
  <2>2. ops \in Operations
    BY <1>typed DEF Operations, IoState
  <2>3. \A x \in Slots : /\ ops[x].owner = io[x].owner
                         /\ ops[x].state = "free" <=> io[x].state = "free"
    BY <1>typed, <2>1 DEF Operations, Owned
  <2>4. io' = Cancel(ops) /\ UNCHANGED <<conn, proc, close>>
    BY <1>18 DEF Timeout
  <2> HIDE DEF ops
  <2>5. \A x \in Slots : /\ io'[x].owner = io[x].owner
                         /\ io'[x].state = "free" <=> io[x].state = "free"
    BY <2>2, <2>3, <2>4 DEF Cancel, Operations
  <2> QED BY <2>4, <2>5, OwnersKept
<1>19. CASE KernelGivesUp
  <2>1. \A x \in Slots : io[x].owner = "connect" /\ io[x].state # "free"
    BY <1>19 DEF KernelGivesUp, Owned, ConnectUses
  <2>2. \A x \in Slots : /\ io'[x].owner = io[x].owner
                         /\ io'[x].state = "free" <=> io[x].state = "free"
    BY <1>19, <1>typed, <2>1 DEF KernelGivesUp, Operations
  <2> QED BY <1>19, <2>2, OwnersKept DEF KernelGivesUp
<1> QED
  BY <1>1, <1>2, <1>3, <1>4, <1>5, <1>6, <1>7, <1>8, <1>9, <1>10, <1>11, <1>12,
     <1>13, <1>15, <1>16, <1>17, <1>18, <1>19
     DEF Next, ConnectStep, ProcessStep, CloseStep, StreamStep

\* Steps of the stream, which end operations and may close the socket.
LEMMA StreamAlone ==
    ASSUME TypeOK, StreamStep
    PROVE  /\ UNCHANGED <<armed, conn, proc, close, callerVars>>
           /\ t' \in {t, [t EXCEPT !.open = FALSE]}
BY Typed DEF StreamStep, PeerCompletes, Timeout, KernelGivesUp

\* What they do to the slots.  A timeout ends what its owner has
\* in the slots, and aborts what another one waits for.
LEMMA StreamSlots ==
    ASSUME TypeOK, StreamStep, NEW x \in Slots
    PROVE  /\ io'[x].owner = io[x].owner /\ io'[x].timed = io[x].timed
           /\ io'[x].state = "pending" => io[x].state = "pending"
           /\ io'[x].state = "ok" => io[x].state \in {"pending", "ok"}
           /\ \/ t' = t /\ (io'[x].state = "aborted" => io[x].state = "aborted")
              \/ /\ t' = [t EXCEPT !.open = FALSE]
                 /\ \E s \in Slots :
                      /\ io[s].state # "free"
                      /\ io[x].owner = io[s].owner => io'[x].state = "timeout"
                      /\ io[x].owner # io[s].owner =>
                           io'[x].state = IF io[x].state = "pending" THEN "aborted"
                                          ELSE io[x].state
<1>1. io \in Operations
  BY Typed
<1>2. ASSUME NEW s \in Slots, PeerCompletes(s)
      PROVE  /\ io'[x].owner = io[x].owner /\ io'[x].timed = io[x].timed
             /\ io'[x].state \in {io[x].state, "ok", "error"}
             /\ io'[x].state # io[x].state => io[x].state = "pending"
             /\ t' = t
  BY <1>1, <1>2 DEF PeerCompletes, Operations
<1>3. CASE KernelGivesUp
  BY <1>1, <1>3 DEF KernelGivesUp, Operations
<1>4. ASSUME NEW s \in Slots, Timeout(s)
      PROVE  /\ io'[x].owner = io[x].owner /\ io'[x].timed = io[x].timed
             /\ io[s].state # "free"
             /\ io[x].owner = io[s].owner => io'[x].state = "timeout"
             /\ io[x].owner # io[s].owner =>
                  io'[x].state = IF io[x].state = "pending" THEN "aborted"
                                 ELSE io[x].state
  <2> DEFINE ops == [y \in Slots |-> IF io[y].owner = io[s].owner
                                     THEN [io[y] EXCEPT !.state = "timeout"]
                                     ELSE io[y]]
  <2>1. /\ ops[x].owner = io[x].owner /\ ops[x].timed = io[x].timed
        /\ ops[x].state = IF io[x].owner = io[s].owner THEN "timeout" ELSE io[x].state
        /\ ops[x] \in [owner : Owners, state : IoState, timed : BOOLEAN]
    BY <1>1 DEF Operations, IoState
  <2>2. io' = Cancel(ops) /\ io[s].state # "free"
    BY <1>4 DEF Timeout
  <2> HIDE DEF ops
  <2>3. io'[x] = IF ops[x].state = "pending" THEN [ops[x] EXCEPT !.state = "aborted"]
                                             ELSE ops[x]
    BY <2>2 DEF Cancel
  <2> QED BY <2>1, <2>2, <2>3
<1>5. CASE \E s \in Slots : PeerCompletes(s)
  BY <1>2, <1>5
<1>6. CASE \E s \in Slots : Timeout(s)
  <2>1. PICK s \in Slots : Timeout(s)
    BY <1>6
  <2>2. t' = [t EXCEPT !.open = FALSE]
    BY <2>1 DEF Timeout
  <2>3. /\ io'[x].owner = io[x].owner /\ io'[x].timed = io[x].timed
        /\ io[s].state # "free"
        /\ io[x].owner = io[s].owner => io'[x].state = "timeout"
        /\ io[x].owner # io[s].owner =>
             io'[x].state = IF io[x].state = "pending" THEN "aborted"
                            ELSE io[x].state
    BY <1>4, <2>1
  <2> QED BY <2>2, <2>3
<1> QED BY <1>3, <1>5, <1>6 DEF StreamStep

\* A connect that is under way goes on or ends; the rest stands still.
LEMMA ConnectAlone ==
    ASSUME TypeOK, Owned, Order, ConnectStep
    PROVE  /\ conn # "idle" /\ UNCHANGED <<proc, close, procEc, closed, calls>>
           /\ t'.kind = t.kind /\ t'.running = t.running
           /\ conn' # "idle" => t'.ready = t.ready
           /\ conn' \in {"request", "reply"} => Tunnel
           /\ t'.ready => conn' = "idle"
           /\ t'.dirty = t.dirty /\ (t'.extra => t.extra \/ Tunnel)
<1> USE DEF Members
<1>1. conn # "idle" /\ UNCHANGED <<proc, close, procEc, closed, calls>>
  BY DEF ConnectStep, ResolveDone, TcpConnectDone, ConnectRequestSent,
         ProxyReplied, HelloSent, HandshakeDone
<1>2. t \in Members /\ ~t.ready
  BY <1>1, Typed DEF Order, ConnectingNotReady
<1>3. \A ops, ec : ConnectEnds(ops, ec) => conn' = "idle"
  BY DEF ConnectEnds
<1>4. \A pc, ops, s : ConnectGoesOn(pc, ops, s) => conn' = pc
  BY DEF ConnectGoesOn
<1>5. \/ t' \in {t, [t EXCEPT !.open = TRUE], Established(t)}
      \/ t' = Surplus(t) /\ Tunnel
  BY DEF ConnectStep, ResolveDone, TcpConnectDone, ConnectRequestSent,
         ProxyReplied, HelloSent, HandshakeDone, Order, ProxyOnly
<1>6. t' = Established(t) => conn' = "idle" \/ t' = t
  <2>1. Established(t) # t /\ Established(t) # [t EXCEPT !.open = TRUE]
        /\ Established(t) # Surplus(t)
    BY <1>2 DEF Established, Surplus
  <2> QED
    BY <1>3, <1>4, <2>1
       DEF ConnectStep, ResolveDone, TcpConnectDone, ConnectRequestSent,
           ProxyReplied, HelloSent, HandshakeDone
<1>7. /\ t'.kind = t.kind /\ t'.running = t.running
      /\ t'.ready => conn' = "idle"
      /\ conn' # "idle" => t'.ready = t.ready
      /\ t'.dirty = t.dirty /\ (t'.extra => t.extra \/ Tunnel)
  BY <1>2, <1>5, <1>6 DEF Established, Surplus
<1>8. conn' \in {"request", "reply"} => Tunnel
  BY <1>3, <1>4
     DEF ConnectStep, ResolveDone, TcpConnectDone, ConnectRequestSent,
         ProxyReplied, HelloSent, HandshakeDone, Order, ProxyOnly
<1> QED BY <1>1, <1>7, <1>8

\* transport_op goes on or ends.
LEMMA ProcessAlone ==
    ASSUME TypeOK, ProcessStep
    PROVE  /\ proc # "idle" /\ UNCHANGED <<conn, close, connEc, closed, calls>>
           /\ t' \in {t, Soiled(t), [Surplus(t) EXCEPT !.used = TRUE]}
           /\ t'.kind = t.kind /\ t'.running = t.running
           /\ t'.open = t.open /\ t'.ready = t.ready
<1>1. /\ proc # "idle" /\ UNCHANGED <<conn, close, connEc, closed, calls>>
      /\ t' \in {t, Soiled(t), [Surplus(t) EXCEPT !.used = TRUE]}
  BY DEF ProcessStep, WriteDone, ReadSome, ReadDone, ProcessEnds, callerVars
<1>2. t \in Members
  BY Typed
<1> QED BY <1>1, <1>2 DEF Members, Soiled, Surplus

\* A close begins: the transport stops running.
LEMMA CloseCallAlone ==
    ASSUME TypeOK, NEW k \in Closes, NEW gr \in BOOLEAN, CloseCall(k, gr)
    PROVE  /\ close[k] = "idle" /\ UNCHANGED <<conn, proc, connEc, procEc, calls>>
           /\ closed' = TRUE /\ ~t'.running /\ t'.kind = t.kind
           /\ t'.ready => t.ready
           /\ t'.dirty => t.dirty
           /\ close' = [close EXCEPT ![k] = close'[k]]
           /\ close'[k] \in {"posted", "posted_close", "notify", "failed", "done"}
           /\ close'[k] = "notify" => t.ready /\ t.kind # "tcp"
           /\ close'[k] = "done" /\ Tunnel => ~t'.ready /\ ~t'.dirty
<1>1. t \in Members /\ close \in [Closes -> CloseState]
  BY Typed
<1>2. CASE CloseEnds(k, Cancel(io), [t EXCEPT !.running = FALSE])
  BY <1>1, <1>2 DEF CloseCall, CloseEnds, Members, Reset, Tunnel
<1>3. CASE /\ t' = [t EXCEPT !.running = FALSE]
           /\ \E pc \in ShutdownStates \cup {"posted"} : close' = [close EXCEPT ![k] = pc]
  BY <1>1, <1>3 DEF CloseCall, ShutdownStates, Secure, Members
<1> QED BY <1>2, <1>3 DEF CloseCall

\* A close goes on or ends.
LEMMA CloseAlone ==
    ASSUME TypeOK, NEW k \in Closes, CloseStep(k)
    PROVE  /\ close[k] \notin {"idle", "done"}
           /\ UNCHANGED <<conn, proc, callerVars>>
           /\ t'.running = t.running /\ t'.kind = t.kind
           /\ t'.ready => t.ready
           /\ t'.dirty => t.dirty
           /\ close' = [close EXCEPT ![k] = close'[k]]
           /\ close'[k] \in {"notifying", "await", "awaiting"} =>
                close[k] \in {"notify", "notifying", "await"}
           /\ close'[k] \in {"notifying", "await", "awaiting", "done"}
           /\ close'[k] = "done" /\ Tunnel => ~t'.ready /\ ~t'.dirty
<1>1. t \in Members /\ close \in [Closes -> CloseState]
  BY Typed
<1>2. ASSUME NEW ops, NEW u \in {t, SocketClosed}, CloseEnds(k, ops, u)
      PROVE  /\ t'.running = t.running /\ t'.kind = t.kind
             /\ t'.ready => t.ready
             /\ t'.dirty => t.dirty
             /\ close'[k] = "done" /\ close' = [close EXCEPT ![k] = close'[k]]
             /\ Tunnel => ~t'.ready /\ ~t'.dirty
  BY <1>1, <1>2 DEF CloseEnds, Members, Reset, SocketClosed
<1>3. CASE PostedDone(k) \/ TcpCloseDone(k) \/ SslCloseDone(k)
  <2>1. /\ close[k] \notin {"idle", "done"}
        /\ UNCHANGED <<conn, proc, callerVars>>
        /\ \E ops : CloseEnds(k, ops, t) \/ CloseEnds(k, ops, SocketClosed)
    BY <1>3 DEF PostedDone, TcpCloseDone, SslCloseDone
  <2> QED BY <1>2, <2>1
<1>4. CASE SendNotify(k) \/ NotifySent(k) \/ AwaitNotify(k)
  BY <1>1, <1>4 DEF SendNotify, NotifySent, AwaitNotify, callerVars
<1> QED BY <1>3, <1>4 DEF CloseStep

\* The operations keep their order: a connect or a request begins only when
\* nothing is under way, and what a close may interrupt it interrupts cleanly.
LEMMA OrderStep == TypeOK /\ Owned /\ Order /\ [Next]_vars => Order'
<1> SUFFICES ASSUME TypeOK, Owned, Order, [Next]_vars PROVE Order'
  OBVIOUS
<1>typed. t \in Members /\ close \in [Closes -> CloseState]
  BY Typed
<1> USE DEF Order, OneOperation, ShutdownAlone, ClosingStopped,
            ConnectingNotReady, ProxyOnly, TunnelAlone, callerVars
<1>1. CASE UNCHANGED vars
  BY <1>1 DEF vars, Closing, Tunnel
<1>2. CASE MayConnect /\ ConnectCall
  <2>1. /\ conn = "idle" /\ proc = "idle" /\ ~Closing /\ conn' = "resolving"
        /\ UNCHANGED <<proc, close>>
        /\ t' = [(IF Resets THEN Reset(t) ELSE t) EXCEPT !.running = TRUE]
        /\ t.running => ~t.ready
    BY <1>2 DEF MayConnect, Idle, ConnectCall
  <2>2. ~t'.ready /\ t'.running /\ t'.kind = t.kind
    <3>1. CASE Resets
      BY <1>typed, <2>1, <3>1 DEF Members, Reset
    <3>2. CASE ~Resets
      BY <1>typed, <2>1, <3>2 DEF Members, Resets
    <3> QED BY <3>1, <3>2
  <2>3. \A k \in Closes : close[k] \in {"idle", "done"}
    BY <2>1 DEF Closing
  <2> QED BY <2>1, <2>2, <2>3 DEF Closing, Tunnel
<1>3. CASE ConnectStep
  <2>1. /\ conn # "idle" /\ UNCHANGED <<proc, close>>
        /\ t'.kind = t.kind /\ t'.running = t.running
        /\ conn' # "idle" => ~t'.ready
        /\ conn' \in {"request", "reply"} => Tunnel
    BY <1>3, ConnectAlone
  <2> QED BY <2>1 DEF Closing, Tunnel
<1>4. CASE MayProcess /\ ProcessCall
  <2>1. /\ conn = "idle" /\ ~Closing /\ UNCHANGED <<t, conn, close>>
        /\ ~t.running => proc' = "idle"
    BY <1>4 DEF MayProcess, Idle, ProcessCall, ProcessEnds
  <2> QED BY <2>1 DEF Closing, Tunnel
<1>5. CASE ProcessStep
  <2>1. /\ proc # "idle" /\ UNCHANGED <<conn, close>>
        /\ t'.kind = t.kind /\ t'.running = t.running
    BY <1>5, <1>typed, ProcessAlone DEF Members
  <2> QED BY <2>1 DEF Closing, Tunnel
<1>6. ASSUME NEW k \in Closes, NEW gr \in BOOLEAN, MayClose(k), CloseCall(k, gr)
      PROVE  Order'
  <2>1. /\ UNCHANGED <<conn, proc>> /\ ~t'.running /\ t'.kind = t.kind
        /\ t'.ready => t.ready
        /\ \A c \in Closes \ {k} : close'[c] = close[c]
        /\ close'[k] \in {"posted", "posted_close", "notify", "failed", "done"}
        /\ close'[k] = "notify" => t.ready
        /\ close'[k] = "done" /\ Tunnel => ~t'.ready /\ ~t'.dirty
    BY <1>6, <1>typed, CloseCallAlone
  <2>2. Tunnel => conn = "idle" /\ proc = "idle"
    BY <1>6 DEF MayClose, Idle
  <2>3. ~Closing' => close'[k] = "done"
    BY <2>1 DEF Closing
  <2> QED BY <2>1, <2>2, <2>3 DEF Tunnel
<1>7. ASSUME NEW k \in Closes, CloseStep(k) PROVE Order'
  <2>1. /\ close[k] \notin {"idle", "done"} /\ UNCHANGED <<conn, proc>>
        /\ t'.running = t.running /\ t'.kind = t.kind
        /\ t'.ready => t.ready
        /\ \A c \in Closes \ {k} : close'[c] = close[c]
        /\ close'[k] \in {"notifying", "await", "awaiting"} =>
             close[k] \in {"notify", "notifying", "await"}
        /\ close'[k] \in {"notifying", "await", "awaiting", "done"}
        /\ close'[k] = "done" /\ Tunnel => ~t'.ready /\ ~t'.dirty
    BY <1>7, <1>typed, CloseAlone
  <2>2. Closing /\ ~t.running
    BY <2>1 DEF Closing
  <2>3. ~Closing' => close'[k] = "done"
    BY <2>1 DEF Closing
  <2> QED BY <2>1, <2>2, <2>3 DEF Tunnel
<1>8. CASE StreamStep
  <2>1. /\ UNCHANGED <<conn, proc, close>>
        /\ t'.kind = t.kind /\ t'.running = t.running
        /\ t'.ready = t.ready /\ t'.dirty = t.dirty
    BY <1>8, <1>typed, StreamAlone DEF Members
  <2> QED BY <2>1 DEF Closing, Tunnel
<1> QED BY <1>1, <1>2, <1>3, <1>4, <1>5, <1>6, <1>7, <1>8 DEF Next

-----------------------------------------------------------------------------
(***************************************************************************)
(* The timers.                                                             *)
(***************************************************************************)

\* While a running transport works, both of its slots are timed.
Timed ==
    t.running =>
        /\ conn # "idle" \/ proc # "idle" => \A s \in Slots : armed[s]
        /\ \A s \in Slots : io[s].state = "pending" => io[s].timed

\* The timers of an idle transport are not set, but for a tunnel that could
\* not set the server name.
Disarmed == Idle => \A s \in Slots : armed[s] => Tunnel /\ ~t.ready

\* Whatever ends an operation that was the last one leaves no timer set.
LEMMA LastDisarms ==
    ASSUME Owned', TypeOK', armed' = ExpiresNever(io')
    PROVE  Disarmed'
<1>1. ASSUME Idle', NEW s \in Slots PROVE ~armed'[s]
  <2>1. io'[s].owner \in Owners
    BY DEF TypeOK
  <2>2. conn' = "idle" /\ proc' = "idle" /\ \A k \in Closes : close'[k] \in {"idle", "done"}
    BY <1>1 DEF Idle, Closing
  <2>3. io'[s].state = "free"
    BY <2>1, <2>2 DEF Owned, Owners, ConnectUses, Slots
  <2> QED BY <2>3 DEF ExpiresNever, Busy
<1> QED BY <1>1 DEF Disarmed

LEMMA DisarmedStep ==
    ASSUME TypeOK, Owned, Order, Disarmed, [Next]_vars PROVE Disarmed'
<1>typed. t \in Members /\ TypeOK' /\ Owned' /\ Order'
  BY Typed, TypeStep, OwnedStep, OrderStep
<1>1. CASE UNCHANGED vars
  BY <1>1 DEF vars, Disarmed, Idle, Closing, Tunnel
<1>2. CASE MayConnect /\ ConnectCall
  BY <1>2 DEF ConnectCall, Disarmed, Idle
<1>3. CASE ConnectStep
  <2>1. CASE \E ops, ec : ConnectEnds(ops, ec)
    BY <1>typed, <2>1, LastDisarms DEF ConnectEnds
  <2>2. CASE \E pc, ops, s : ConnectGoesOn(pc, ops, s) /\ pc # "idle"
    BY <2>2 DEF ConnectGoesOn, Disarmed, Idle
  <2>3. CASE conn' = "connecting"
    BY <2>3 DEF Disarmed, Idle
  <2>4. CASE Tunnel /\ UNCHANGED t
    <3>1. ~t.ready
      BY <1>3, ConnectAlone DEF Order, ConnectingNotReady
    <3> QED BY <2>4, <3>1 DEF Disarmed, Tunnel
  <2> QED
    BY <1>3, <2>1, <2>2, <2>3, <2>4
       DEF ConnectStep, ResolveDone, TcpConnectDone, ConnectRequestSent,
           ProxyReplied, HelloSent, HandshakeDone
<1>4. CASE (MayProcess /\ ProcessCall) \/ ProcessStep
  <2>1. CASE \E ec, ops : ProcessEnds(ec, ops)
    BY <1>typed, <2>1, LastDisarms DEF ProcessEnds
  <2>2. CASE proc' # "idle"
    BY <2>2 DEF Disarmed, Idle
  <2> QED
    BY <1>4, <2>1, <2>2
       DEF ProcessCall, ProcessStep, WriteDone, ReadSome, ReadDone
<1>5. ASSUME NEW k \in Closes, (\E gr \in BOOLEAN : CloseCall(k, gr)) \/ CloseStep(k)
      PROVE  Disarmed'
  <2>1. CASE \E ops, u : CloseEnds(k, ops, u)
    BY <1>typed, <2>1, LastDisarms DEF CloseEnds
  <2>2. CASE close'[k] \notin {"idle", "done"}
    BY <2>2 DEF Disarmed, Idle, Closing
  <2>3. \/ \E ops, u : CloseEnds(k, ops, u)
        \/ \E pc \in CloseState \ {"idle", "done"} : close' = [close EXCEPT ![k] = pc]
    BY <1>5 DEF CloseCall, CloseStep, PostedDone, TcpCloseDone, SendNotify,
                NotifySent, AwaitNotify, SslCloseDone, ShutdownStates, CloseState
  <2>4. close \in [Closes -> CloseState]
    BY Typed
  <2> QED BY <2>1, <2>2, <2>3, <2>4
<1>6. CASE StreamStep
  <2>1. /\ UNCHANGED <<armed, conn, proc, close>>
        /\ t'.kind = t.kind /\ t'.ready = t.ready
    BY <1>6, <1>typed, StreamAlone DEF Members
  <2> QED BY <2>1 DEF Disarmed, Idle, Closing, Tunnel
<1> QED BY <1>1, <1>2, <1>3, <1>4, <1>5, <1>6 DEF Next

\* Operations begin under the timers that their call has set.
LEMMA TimedStep ==
    ASSUME TypeOK, Owned, Order, Timed, [Next]_vars PROVE Timed'
<1>typed. /\ t \in Members /\ armed \in Timers /\ io \in Operations
          /\ close \in [Closes -> CloseState]
  BY Typed
<1>1. CASE UNCHANGED vars
  BY <1>1 DEF vars, Timed
<1>2. CASE MayConnect /\ ConnectCall
  <2>1. Idle /\ UNCHANGED io /\ armed' = ExpiresAfter(io)
    BY <1>2 DEF MayConnect, ConnectCall
  <2>2. \A s \in Slots : io[s].state = "free"
    BY <2>1, IdleFree
  <2>3. \A s \in Slots : armed'[s]
    BY <2>1, <2>2 DEF ExpiresAfter, Busy
  <2> QED BY <2>1, <2>2, <2>3 DEF Timed
<1>3. CASE ConnectStep
  <2>1. conn # "idle" /\ UNCHANGED proc /\ proc = "idle" /\ t'.running = t.running
    BY <1>3, ConnectAlone DEF Order, OneOperation
  <2>2. ASSUME NEW S, NEW ops, ops = Release(io, S), NEW s \in Slots,
               ops[s].state = "pending"
        PROVE  io[s].state = "pending" /\ ops[s].timed = io[s].timed
    BY <2>2 DEF Release, Free
  <2>3. CASE \E S, ec : ConnectEnds(Release(io, S), ec)
    <3>1. conn' = "idle" /\ \E S : io' = Release(io, S)
      BY <2>3 DEF ConnectEnds
    <3> QED BY <2>1, <2>2, <3>1 DEF Timed
  <2>4. ASSUME NEW S, NEW pc, NEW x \in Slots, ConnectGoesOn(pc, Release(io, S), x)
        PROVE  Timed'
    <3>1. UNCHANGED armed /\ io' = Begin(Release(io, S), armed, x, "connect", t.open)
      BY <2>4 DEF ConnectGoesOn
    <3>2. Release(io, S) \in Operations
      BY <1>typed, StreamTyped
    <3>3. \A s \in Slots : io'[s].timed = armed[s] \/ io'[s] = Release(io, S)[s]
      BY <3>1, <3>2 DEF Begin, Operations
    <3> QED BY <2>1, <2>2, <3>1, <3>3 DEF Timed
  <2>5. CASE /\ conn' = "connecting" /\ UNCHANGED armed
             /\ io' = [s \in Slots |-> [owner |-> "connect", timed |-> armed[s],
                                        state |-> "pending"]]
    BY <2>1, <2>5 DEF Timed
  <2>6. CASE conn' = "idle" /\ UNCHANGED io
    BY <2>1, <2>6 DEF Timed
  <2>7. ResolveDone => Timed'
    BY <2>5, <2>6 DEF ResolveDone, ConnectEnds
  <2> QED
    BY <1>3, <2>3, <2>4, <2>7
       DEF ConnectStep, TcpConnectDone, ConnectRequestSent, ProxyReplied,
           HelloSent, HandshakeDone, Slots
<1>4. CASE MayProcess /\ ProcessCall
  <2>1. Idle /\ UNCHANGED <<t, conn>>
    BY <1>4 DEF MayProcess, ProcessCall
  <2>2. \A s \in Slots : io[s].state = "free"
    BY <2>1, IdleFree
  <2>3. CASE t.running
    <3>1. armed' = ExpiresAfter(io) /\ \E up : io' = Begin(io, armed', "write", "process", up)
      BY <1>4, <2>3 DEF ProcessCall, BeginProcess
    <3>2. \A s \in Slots : armed'[s]
      BY <2>2, <3>1 DEF ExpiresAfter, Busy
    <3>3. \A s \in Slots : io'[s].timed = armed'[s] \/ io'[s] = io[s]
      BY <1>typed, <3>1 DEF Begin, Operations
    <3> QED BY <2>2, <3>2, <3>3 DEF Timed
  <2> QED BY <2>1, <2>3 DEF Timed
<1>5. CASE ProcessStep
  <2>1. /\ proc # "idle" /\ UNCHANGED conn /\ conn = "idle" /\ t'.running = t.running
    BY <1>5, <1>typed, ProcessAlone DEF Order, OneOperation, Members
  <2>2. ASSUME NEW S, NEW ops, ops = Release(io, S), NEW s \in Slots,
               ops[s].state = "pending"
        PROVE  io[s].state = "pending" /\ ops[s].timed = io[s].timed
    BY <2>2 DEF Release, Free
  <2>3. CASE \E S, ec : ProcessEnds(ec, Release(io, S))
    <3>1. proc' = "idle" /\ \E S : io' = Release(io, S)
      BY <2>3 DEF ProcessEnds
    <3> QED BY <2>1, <2>2, <3>1 DEF Timed
  <2>4. ASSUME NEW S, NEW ops \in Operations, ops = Release(io, S) \/ ops = io,
               NEW up, io' = Begin(ops, armed, "read", "process", up), UNCHANGED armed
        PROVE  Timed'
    <3>1. \A s \in Slots : io'[s].timed = armed[s] \/ io'[s] = ops[s]
      BY <2>4 DEF Begin, Operations
    <3> QED BY <2>1, <2>2, <2>4, <3>1 DEF Timed
  <2>5. Release(io, {"write"}) \in Operations
    BY <1>typed, StreamTyped
  <2> QED BY <1>5, <1>typed, <2>3, <2>4, <2>5
          DEF ProcessStep, WriteDone, ReadSome, ReadDone, BeginProcess
<1>6. ASSUME NEW k \in Closes, NEW gr \in BOOLEAN, CloseCall(k, gr) PROVE Timed'
  BY <1>6, CloseCallAlone DEF Timed
<1>7. ASSUME NEW k \in Closes, CloseStep(k) PROVE Timed'
  BY <1>7, CloseAlone DEF Timed, Order, ClosingStopped, Closing
<1>8. CASE StreamStep
  <2>1. UNCHANGED <<armed, conn, proc>> /\ t'.running = t.running
    BY <1>8, <1>typed, StreamAlone DEF Members
  <2>2. \A s \in Slots : io'[s].state = "pending" =>
                            io[s].state = "pending" /\ io'[s].timed = io[s].timed
    BY <1>8, StreamSlots
  <2> QED BY <2>1, <2>2 DEF Timed
<1> QED BY <1>1, <1>2, <1>3, <1>4, <1>5, <1>6, <1>7, <1>8 DEF Next

-----------------------------------------------------------------------------
\* A new transport is idle and its slots are free.
LEMMA InitEstablishes ==
    Init => TypeOK /\ Owned /\ Order /\ Disarmed /\ Timed
<1> SUFFICES ASSUME Init PROVE TypeOK /\ Owned /\ Order /\ Disarmed /\ Timed
  OBVIOUS
<1>1. TypeOK
  <2>1. t \in [kind : Kinds, running : BOOLEAN, open : BOOLEAN, ready : BOOLEAN,
               dirty : BOOLEAN, extra : BOOLEAN, used : BOOLEAN]
    BY DEF Init
  <2>2. io \in [Slots -> [owner : Owners, state : IoState, timed : BOOLEAN]]
    BY DEF Init, Free, Owners, IoState
  <2>3. calls \in 0 .. MaxCalls
    BY CallsAssumption DEF Init
  <2>4. armed \in [Slots -> BOOLEAN] /\ closed \in BOOLEAN
    BY DEF Init
  <2>5. {connEc, procEc} \subseteq {"none", "ok", "error", "aborted"}
    BY DEF Init
  <2> QED BY <2>1, <2>2, <2>3, <2>4, <2>5 DEF Init, TypeOK
<1>2. ~Closing
  BY DEF Init, Closing
<1>3. Owned
  BY ClosesAssumption DEF Init, Owned, ConnectUses, Free
<1>4. Order
  BY <1>2 DEF Init, Order, OneOperation, ShutdownAlone, ClosingStopped,
              ConnectingNotReady, ProxyOnly, TunnelAlone
<1>5. Disarmed /\ Timed
  BY DEF Init, Disarmed, Timed, Free
<1> QED BY <1>1, <1>3, <1>4, <1>5

Ordered == TypeOK /\ Owned /\ Order

\* The inductive invariant: who uses the stream, in which order.
LEMMA OrderedInvariant == Spec => []Ordered
<1>1. Init => Ordered
  BY InitEstablishes DEF Ordered
<1>2. Ordered /\ [Next]_vars => Ordered'
  BY TypeStep, OwnedStep, OrderStep DEF Ordered
<1> QED BY <1>1, <1>2, PTL DEF Spec

(***************************************************************************)
(* The transport never leaves its types.                                   *)
(***************************************************************************)
THEOREM TransportTypes == Spec => []TypeOK
<1>1. Ordered => TypeOK
  BY DEF Ordered
<1> QED BY <1>1, OrderedInvariant, PTL

(***************************************************************************)
(* Whatever the order in which a connect, a request and any number of      *)
(* closes end, the last one leaves the stream without an operation and an  *)
(* established connection without a deadline.                              *)
(***************************************************************************)
THEOREM IdleIsDisarmed == Spec => []IdleMeansDisarmed
<1>1. Init => Disarmed
  BY InitEstablishes
<1>2. Ordered /\ Disarmed /\ [Next]_vars => Disarmed'
  BY DisarmedStep DEF Ordered
<1>3. Ordered /\ Disarmed => IdleMeansDisarmed
  BY IdleFree DEF Ordered, Disarmed, IdleMeansDisarmed, Busy
<1> QED BY <1>1, <1>2, <1>3, OrderedInvariant, PTL DEF Spec

(***************************************************************************)
(* While the transport runs, nothing waits on the peer without a timer,    *)
(* although every completion cancels the timers of the stream.             *)
(***************************************************************************)
THEOREM RunningIsTimed == Spec => []TimedWhileRunning
<1>1. Init => Timed
  BY InitEstablishes
<1>2. Ordered /\ Timed /\ [Next]_vars => Timed'
  BY TimedStep DEF Ordered
<1>3. Timed => TimedWhileRunning
  BY DEF Timed, TimedWhileRunning
<1> QED BY <1>1, <1>2, <1>3, OrderedInvariant, PTL DEF Spec

-----------------------------------------------------------------------------
(***************************************************************************)
(* What the operations answer.                                             *)
(***************************************************************************)

\* An operation that may still succeed, or did, has its socket; what belongs
\* to a request has its connection as well.  Only a close aborts.
Sound ==
    \A s \in Slots :
        /\ io[s].owner = "process" /\ io[s].state \in {"pending", "ok"} /\ t.running
             => t.open /\ t.ready
        /\ io[s].owner = "connect" /\ io[s].state \in {"pending", "ok"} => t.open
        /\ io[s].state = "aborted" => ~t.running

\* A request under way has no answer yet.
NotAnswered == proc # "idle" => procEc = "none"

\* A request that was closed under is not read on.
ClosedStopped == closed /\ proc # "idle" => ~t.running

\* The rest of a response is not in the buffer of a running transport, once
\* its caller has dealt with the failure; what came behind a response stays
\* as long as its connection does.
Clean ==
    t.running => /\ procEc \in {"none", "ok"} => ~t.dirty
                 /\ t.extra => Tunnel \/ (t.ready /\ t.used)

\* While the transport runs, or connects, one operation has all busy slots.
LEMMA SameOwner ==
    ASSUME TypeOK, Owned, Order, t.running \/ conn # "idle",
           NEW s \in Slots, NEW x \in Slots,
           io[s].state # "free", io[x].state # "free"
    PROVE  io[x].owner = io[s].owner
<1>1. CASE conn # "idle"
  BY <1>1, ConnectOnly DEF Owned
<1>2. CASE conn = "idle" /\ t.running
  <2>1. \A k \in Closes : close[k] \in {"idle", "done"}
    BY <1>2 DEF Order, ClosingStopped, Closing
  <2>2. io[s].owner \in Owners /\ io[x].owner \in Owners
    BY Typed DEF Operations
  <2>3. conn \notin ConnectUses(s) /\ conn \notin ConnectUses(x)
    BY <1>2 DEF ConnectUses
  <2> QED BY <2>1, <2>2, <2>3 DEF Owned, Owners
<1> QED BY <1>1, <1>2

\* Steps that keep the slots, or free them, keep Sound.
LEMMA SoundFrame ==
    ASSUME Sound, t'.running = t.running, t'.open = t.open, t'.ready = t.ready,
           \A s \in Slots : io'[s] = io[s] \/ io'[s] = Free
    PROVE  Sound'
BY DEF Sound, Free

LEMMA SoundStep ==
    ASSUME TypeOK, Owned, Order, Sound, [Next]_vars PROVE Sound'
<1>typed. t \in Members /\ io \in Operations /\ close \in [Closes -> CloseState]
  BY Typed
<1>next. Owned' /\ Order'
  BY OwnedStep, OrderStep
<1>released. \A S : \A s \in Slots : Release(io, S)[s] = io[s] \/ Release(io, S)[s] = Free
  BY DEF Release
<1>relTyped. \A S : Release(io, S) \in Operations
  BY <1>typed, StreamTyped
<1>1. CASE UNCHANGED vars
  BY <1>1 DEF vars, Sound
<1>2. CASE MayConnect /\ ConnectCall
  <2>1. Idle /\ UNCHANGED io
    BY <1>2 DEF MayConnect, ConnectCall
  <2>2. \A s \in Slots : io[s].owner = "none" /\ io[s].state = "free"
    BY <2>1, IdleFree
  <2> QED BY <2>1, <2>2 DEF Sound
<1>3. CASE ConnectStep
  <2>1. /\ conn # "idle" /\ proc' = "idle" /\ t'.running = t.running
        /\ \A s \in Slots : io'[s].owner # "process"
    BY <1>3, <1>next, ConnectAlone DEF Order, OneOperation, Owned
  <2>2. ASSUME NEW S, NEW ec, ConnectEnds(Release(io, S), ec), t'.open = t.open
        PROVE  Sound'
    <3>1. io' = Release(io, S)
      BY <2>2 DEF ConnectEnds
    <3> QED BY <1>released, <2>1, <2>2, <3>1 DEF Sound, Free
  <2>3. ASSUME NEW S, NEW pc, NEW x \in Slots, ConnectGoesOn(pc, Release(io, S), x),
               t'.open = t.open
        PROVE  Sound'
    <3>1. io' = Begin(Release(io, S), armed, x, "connect", t.open)
      BY <2>3 DEF ConnectGoesOn
    <3>2. \A s \in Slots :
             \/ io'[s] = Release(io, S)[s]
             \/ io'[s].state = IF t.open THEN "pending" ELSE "error"
      BY <1>relTyped, <3>1 DEF Begin, Operations
    <3> QED BY <1>released, <2>1, <2>3, <3>1, <3>2 DEF Sound, Free
  <2>4. CASE ResolveDone
    <3>1. CASE UNCHANGED <<io, t>>
      BY <2>1, <3>1 DEF Sound
    <3>2. CASE /\ t' = [t EXCEPT !.open = TRUE]
               /\ io' = [s \in Slots |-> [owner |-> "connect", timed |-> armed[s],
                                          state |-> "pending"]]
      BY <1>typed, <3>2 DEF Sound, Members
    <3> QED BY <2>4, <3>1, <3>2 DEF ResolveDone, ConnectEnds
  <2>5. t' \in {t, Established(t), Surplus(t)} => t'.open = t.open
    BY <1>typed DEF Established, Surplus, Members
  <2> QED
    BY <1>3, <2>2, <2>3, <2>4, <2>5
       DEF ConnectStep, TcpConnectDone, ConnectRequestSent, ProxyReplied,
           HelloSent, HandshakeDone, Slots
<1>4. CASE MayProcess /\ ProcessCall
  <2>1. Idle /\ UNCHANGED t
    BY <1>4 DEF MayProcess, ProcessCall
  <2>2. \A s \in Slots : io[s].owner = "none" /\ io[s].state = "free"
    BY <2>1, IdleFree
  <2>3. CASE ProcessEnds("aborted", io)
    BY <2>2, <2>3 DEF ProcessEnds, Sound
  <2>4. CASE io' = BeginProcess(io, armed', "write")
    <3>1. \A s \in Slots :
             \/ io'[s] = io[s]
             \/ /\ io'[s].owner = "process"
                /\ io'[s].state = IF t.open /\ t.ready THEN "pending" ELSE "error"
      BY <1>typed, <2>4 DEF BeginProcess, Begin, Operations
    <3> QED BY <2>1, <2>2, <3>1 DEF Sound
  <2> QED BY <1>4, <2>3, <2>4 DEF ProcessCall
<1>5. CASE ProcessStep
  <2>1. t'.running = t.running /\ t'.open = t.open /\ t'.ready = t.ready
    BY <1>5, <1>typed, ProcessAlone DEF Members
  <2>2. CASE \E S, ec : ProcessEnds(ec, Release(io, S))
    BY <1>released, <2>1, <2>2, SoundFrame DEF ProcessEnds
  <2>3. ASSUME NEW ops \in Operations, io' = BeginProcess(ops, armed, "read"),
               \A s \in Slots : ops[s] = io[s] \/ ops[s] = Free
        PROVE  Sound'
    <3>1. \A s \in Slots :
             \/ io'[s] = ops[s]
             \/ /\ io'[s].owner = "process"
                /\ io'[s].state = IF t.open /\ t.ready THEN "pending" ELSE "error"
      BY <2>3 DEF BeginProcess, Begin, Operations
    <3> QED BY <2>1, <2>3, <3>1 DEF Sound, Free
  <2> QED BY <1>5, <1>typed, <1>released, <1>relTyped, <2>2, <2>3
          DEF ProcessStep, WriteDone, ReadSome, ReadDone
<1>6. ASSUME NEW k \in Closes, NEW gr \in BOOLEAN, MayClose(k), CloseCall(k, gr)
      PROVE  Sound'
  <2>1. ~t'.running /\ UNCHANGED conn
    BY <1>6, CloseCallAlone
  <2>2. ASSUME NEW s \in Slots, io'[s].owner = "connect",
               io'[s].state \in {"pending", "ok"}
        PROVE  t'.open
    <3>1. conn # "idle" /\ ~Tunnel
      BY <1>next, <1>6, <2>1, <2>2 DEF Owned, ConnectUses, MayClose, Idle
    <3>2. io'[s] = io[s] \/ (io' = Cancel(io) /\ t.open)
      BY <1>6 DEF CloseCall, CloseEnds
    <3>3. io[s].owner = "connect" /\ io[s].state \in {"pending", "ok"}
      BY <1>typed, <2>2, <3>2 DEF Cancel, Operations
    <3>4. t' = [t EXCEPT !.running = FALSE]
      BY <1>6, <3>1 DEF CloseCall, CloseEnds
    <3> QED BY <1>typed, <3>3, <3>4 DEF Sound, Members
  <2> QED BY <2>1, <2>2 DEF Sound
<1>7. ASSUME NEW k \in Closes, CloseStep(k) PROVE Sound'
  <2>1. ~t'.running /\ UNCHANGED conn /\ ~t.running
    BY <1>7, CloseAlone DEF Order, ClosingStopped, Closing
  <2>2. ASSUME NEW s \in Slots, io'[s].owner = "connect",
               io'[s].state \in {"pending", "ok"}
        PROVE  t'.open
    <3>1. conn # "idle" /\ ~Tunnel
      BY <1>next, <2>1, <2>2 DEF Owned, ConnectUses, Order, TunnelAlone
    <3>2. close[k] \in {"posted", "posted_close", "failed"}
      BY <1>7, <1>typed, <3>1, CloseAlone DEF Order, ShutdownAlone, CloseState
    <3>3. CASE PostedDone(k)
      BY <2>2, <3>1, <3>3 DEF PostedDone, CloseEnds, Sound
    <3>4. CASE Delivered /\ \E S : io' = Cancel(Release(io, S)) \/ io' = Cancel(io)
      <4>1. PICK ops \in Operations : /\ io' = Cancel(ops)
                                      /\ ops[s] = io[s] \/ ops[s] = Free
        BY <1>typed, <1>relTyped, <1>released, <3>4
      <4>2. ops[s].state \in {"free", "pending"}
        BY <3>4, <4>1 DEF Delivered, Free
      <4>3. io'[s].state \in {"free", "aborted"}
        BY <4>1, <4>2 DEF Cancel, Operations
      <4> QED BY <2>2, <4>3
    <3> QED BY <1>7, <3>2, <3>3, <3>4
            DEF CloseStep, TcpCloseDone, SslCloseDone, SendNotify, NotifySent,
                AwaitNotify, CloseEnds
  <2> QED BY <2>1, <2>2 DEF Sound
<1>8. CASE StreamStep
  <2>1. /\ UNCHANGED <<conn, proc, close>>
        /\ t'.running = t.running /\ t'.ready = t.ready
    BY <1>8, <1>typed, StreamAlone DEF Members
  <2> SUFFICES ASSUME NEW x \in Slots
               PROVE  Sound!(x)'
    BY DEF Sound
  <2>2. /\ io'[x].owner = io[x].owner
        /\ io'[x].state = "pending" => io[x].state = "pending"
        /\ io'[x].state = "ok" => io[x].state \in {"pending", "ok"}
        /\ \/ t' = t /\ (io'[x].state = "aborted" => io[x].state = "aborted")
           \/ \E s \in Slots :
                /\ io[s].state # "free"
                /\ io[x].owner = io[s].owner => io'[x].state = "timeout"
                /\ io[x].owner # io[s].owner =>
                     io'[x].state = IF io[x].state = "pending" THEN "aborted"
                                    ELSE io[x].state
    BY <1>8, StreamSlots
  <2>3. CASE t' = t /\ (io'[x].state = "aborted" => io[x].state = "aborted")
    BY <2>2, <2>3 DEF Sound
  <2>4. ASSUME NEW s \in Slots, io[s].state # "free",
               io[x].owner = io[s].owner => io'[x].state = "timeout",
               io[x].owner # io[s].owner =>
                  io'[x].state = IF io[x].state = "pending" THEN "aborted"
                                 ELSE io[x].state
        PROVE  Sound!(x)'
    <3>1. CASE io[x].owner = io[s].owner
      BY <2>4, <3>1 DEF Sound
    <3>2. CASE io[x].owner # io[s].owner /\ io[x].state # "free"
      <4>1. ~t.running /\ conn = "idle"
        BY <2>4, <3>2, SameOwner
      <4>2. io[x].owner # "connect"
        BY <4>1 DEF Owned, ConnectUses
      <4> QED BY <2>1, <2>2, <4>1, <4>2
    <3>3. CASE io[x].owner # io[s].owner /\ io[x].state = "free"
      BY <2>2, <2>4, <3>3
    <3> QED BY <3>1, <3>2, <3>3
  <2> QED BY <2>2, <2>3, <2>4
<1> QED BY <1>1, <1>2, <1>3, <1>4, <1>5, <1>6, <1>7, <1>8 DEF Next

\* Answers come from requests only, and a close makes them aborts.
LEMMA RequestStep ==
    ASSUME TypeOK, Owned, Order, NotAnswered, ClosedStopped, [Next]_vars
    PROVE  NotAnswered' /\ ClosedStopped'
<1>typed. t \in Members
  BY Typed
<1> USE DEF NotAnswered, ClosedStopped, callerVars
<1>1. CASE UNCHANGED vars
  BY <1>1 DEF vars
<1>2. CASE MayConnect /\ ConnectCall
  BY <1>2 DEF MayConnect, Idle, ConnectCall
<1>3. CASE ConnectStep
  BY <1>3, ConnectAlone
<1>4. CASE MayProcess /\ ProcessCall
  BY <1>4 DEF ProcessCall, ProcessEnds
<1>5. CASE ProcessStep
  <2>1. UNCHANGED closed /\ proc # "idle" /\ t'.running = t.running
    BY <1>5, <1>typed, ProcessAlone DEF Members
  <2>2. proc' = "idle" \/ UNCHANGED procEc
    BY <1>5 DEF ProcessStep, WriteDone, ReadSome, ReadDone, ProcessEnds
  <2> QED BY <2>1, <2>2
<1>6. ASSUME NEW k \in Closes, NEW gr \in BOOLEAN, CloseCall(k, gr)
      PROVE  NotAnswered' /\ ClosedStopped'
  BY <1>6, CloseCallAlone
<1>7. ASSUME NEW k \in Closes, CloseStep(k) PROVE NotAnswered' /\ ClosedStopped'
  BY <1>7, CloseAlone
<1>8. CASE StreamStep
  BY <1>8, <1>typed, StreamAlone DEF Members
<1> QED BY <1>1, <1>2, <1>3, <1>4, <1>5, <1>6, <1>7, <1>8 DEF Next

\* What a failed response left is cleared on the way to the next connection,
\* and on a direct one what a complete response left as well.
LEMMA CleanStep ==
    ASSUME TypeOK, Owned, Order, Sound, NotAnswered, Clean, [Next]_vars
    PROVE  Clean'
<1>typed. t \in Members
  BY Typed
<1>1. CASE UNCHANGED vars
  BY <1>1 DEF vars, callerVars, Clean, Tunnel
<1>2. CASE MayConnect /\ ConnectCall
  <2>1. /\ ~Closing
        /\ t' = [(IF Resets THEN Reset(t) ELSE t) EXCEPT !.running = TRUE]
        /\ t.running => procEc \in {"none", "ok"} /\ ~t.ready
    BY <1>2 DEF MayConnect, Idle, ConnectCall
  <2>2. CASE Resets
    BY <1>typed, <2>1, <2>2 DEF Clean, Members, Reset
  <2>3. CASE ~Resets
    <3>1. t' = [t EXCEPT !.running = TRUE]
      BY <2>1, <2>3
    <3>2. ~t.dirty /\ (t.extra => Tunnel)
      BY <2>1, <2>3 DEF Resets, Clean, Order, TunnelAlone
    <3> QED BY <1>typed, <3>1, <3>2 DEF Clean, Members, Tunnel
  <2> QED BY <2>2, <2>3
<1>3. CASE ConnectStep
  <2>1. /\ conn # "idle" /\ UNCHANGED procEc /\ ~t.ready
        /\ t'.kind = t.kind /\ t'.running = t.running
        /\ t'.dirty = t.dirty /\ (t'.extra => t.extra \/ Tunnel)
    BY <1>3, ConnectAlone DEF Order, ConnectingNotReady
  <2> QED BY <2>1 DEF Clean, Tunnel
<1>4. CASE MayProcess /\ ProcessCall
  BY <1>4 DEF MayProcess, ProcessCall, Clean, Tunnel
<1>5. CASE ProcessStep
  <2>1. /\ proc # "idle" /\ procEc = "none"
        /\ t'.kind = t.kind /\ t'.running = t.running /\ t'.ready = t.ready
    BY <1>5, ProcessAlone DEF NotAnswered
  <2>2. CASE t' = t
    BY <2>1, <2>2 DEF Clean, Tunnel
  <2>3. CASE ReadDone
    <3>1. CASE EntryCode("read") = "ok"
      <4>1. io["read"].owner = "process" /\ io["read"].state = "ok" /\ t.running
        BY <2>3, <3>1 DEF ReadDone, Completed, EntryCode, Code
      <4>2. t.ready
        BY <4>1 DEF Sound, Slots
      <4>3. t' = [Surplus(t) EXCEPT !.used = TRUE]
        BY <2>3, <3>1 DEF ReadDone
      <4>4. t'.used /\ t'.dirty = t.dirty
        BY <1>typed, <4>3 DEF Members, Surplus
      <4> QED BY <2>1, <4>2, <4>4 DEF Clean
    <3>2. CASE EntryCode("read") # "ok"
      <4>1. procEc' = EntryCode("read") /\ t' = Soiled(t)
        BY <2>3, <3>2 DEF ReadDone, ProcessEnds
      <4>2. procEc' \notin {"none", "ok"}
        BY <3>2, <4>1 DEF EntryCode, Code
      <4>3. t'.extra = t.extra /\ t'.used = t.used
        BY <1>typed, <4>1 DEF Members, Soiled
      <4> QED BY <2>1, <4>2, <4>3 DEF Clean, Tunnel
    <3> QED BY <3>1, <3>2
  <2> QED BY <1>5, <2>2, <2>3 DEF ProcessStep, WriteDone, ReadSome
<1>6. ASSUME NEW k \in Closes, NEW gr \in BOOLEAN, CloseCall(k, gr) PROVE Clean'
  BY <1>6, CloseCallAlone DEF Clean
<1>7. ASSUME NEW k \in Closes, CloseStep(k) PROVE Clean'
  BY <1>7, CloseAlone DEF Clean, Order, ClosingStopped, Closing
<1>8. CASE StreamStep
  BY <1>8, <1>typed, StreamAlone DEF Members, Clean, Tunnel, callerVars
<1> QED BY <1>1, <1>2, <1>3, <1>4, <1>5, <1>6, <1>7, <1>8 DEF Next

Answers == Sound /\ NotAnswered /\ ClosedStopped /\ Clean

LEMMA InitAnswers == ASSUME Init PROVE Answers
<1>1. t.dirty = FALSE /\ t.extra = FALSE
  BY DEF Init
<1>2. \A s \in Slots : io[s].owner = "none" /\ io[s].state = "free"
  BY DEF Init, Free
<1>3. Sound
  BY <1>2 DEF Sound
<1>4. NotAnswered /\ ClosedStopped
  BY DEF Init, NotAnswered, ClosedStopped
<1> QED BY <1>1, <1>3, <1>4 DEF Answers, Clean

\* The inductive invariant about the answers.
LEMMA AnswersInvariant == Spec => [](Ordered /\ Answers)
<1>1. Init => Answers
  BY InitAnswers
<1>2. Ordered /\ Answers /\ [Next]_vars => Answers'
  BY SoundStep, RequestStep, CleanStep DEF Ordered, Answers
<1> QED BY <1>1, <1>2, OrderedInvariant, PTL DEF Spec

\* What transport_op ends with.
LEMMA ProcessAnswer ==
    ASSUME Ordered, Sound, ProcessStep, proc' = "idle"
    PROVE  \/ /\ procEc' = "ok" /\ t' = [Surplus(t) EXCEPT !.used = TRUE]
              /\ t.running /\ t.open /\ t.ready
           \/ /\ procEc' \in {"error", "aborted"}
              /\ procEc' = "aborted" => ~t.running
              /\ t' = t \/ t' = Soiled(t)
<1>1. /\ TypeOK /\ Owned /\ Order /\ "read" \in Slots /\ "write" \in Slots
  BY DEF Ordered, Slots
<1>2. ASSUME NEW s \in Slots
      PROVE  /\ EntryCode(s) \in {"ok", "error", "aborted"}
             /\ EntryCode(s) = "ok" => t.running /\ io[s].state = "ok"
             /\ EntryCode(s) = "aborted" => ~t.running
  BY <1>1 DEF EntryCode, Code, Sound
<1>3. CASE WriteDone
  BY <1>1, <1>2, <1>3 DEF WriteDone, ProcessEnds
<1>4. CASE ReadSome
  BY <1>4 DEF ReadSome
<1>5. CASE ReadDone
  <2>1. CASE EntryCode("read") = "ok"
    <3>1. io["read"].owner = "process" /\ io["read"].state = "ok" /\ t.running
      BY <1>1, <1>2, <1>5, <2>1 DEF ReadDone, Completed
    <3>2. t.open /\ t.ready
      BY <1>1, <3>1 DEF Sound
    <3> QED BY <1>5, <2>1, <3>1, <3>2 DEF ReadDone, ProcessEnds
  <2>2. CASE EntryCode("read") # "ok"
    BY <1>1, <1>2, <1>5, <2>2 DEF ReadDone, ProcessEnds
  <2> QED BY <2>1, <2>2
<1> QED BY <1>3, <1>4, <1>5 DEF ProcessStep

\* A request that ends successfully was read over a running transport.
LEMMA SuccessfulRead ==
    ASSUME Ordered, Answers, [Next]_vars, proc = "reading", proc' = "idle", procEc' = "ok"
    PROVE  t.running /\ t.open /\ t.ready /\ procEc = "none" /\ ReadDone
<1>1. ReadDone
  BY ConnectAlone, CloseCallAlone, CloseAlone, StreamAlone
     DEF Ordered, Next, vars, MayConnect, MayProcess, Idle, ProcessStep, WriteDone,
         ReadSome
<1>2. /\ io["read"].state = "ok" /\ t.running
      /\ io["read"].owner = "process" /\ "read" \in Slots
  BY <1>1 DEF ReadDone, ProcessEnds, EntryCode, Code, Completed, Slots
<1> QED BY <1>1, <1>2 DEF Answers, Sound, NotAnswered

(***************************************************************************)
(* The caller that closed never sees a success afterwards: a response that *)
(* completes after async_close was called is reported as aborted.          *)
(***************************************************************************)
THEOREM ClosedIsAborted == Spec => ClosedNeverOk
<1>1. Ordered /\ Answers /\ [Next]_vars
        => [proc = "reading" /\ proc' = "idle" /\ closed => procEc' # "ok"]_vars
  BY SuccessfulRead DEF Answers, ClosedStopped
<1> QED BY <1>1, AnswersInvariant, PTL DEF Spec, ClosedNeverOk

(***************************************************************************)
(* No response is read over the rest of one whose request failed, and the  *)
(* first of a direct connection over nothing an earlier connection left.   *)
(***************************************************************************)
THEOREM ResponsesAreClean == Spec => CleanResponse
<1>1. Ordered /\ Answers /\ [Next]_vars
        => [proc = "reading" /\ proc' = "idle" /\ procEc' = "ok" =>
              ~t.dirty /\ (t.extra => Tunnel \/ t.used)]_vars
  BY SuccessfulRead DEF Answers, Clean
<1> QED BY <1>1, AnswersInvariant, PTL DEF Spec, CleanResponse

=============================================================================
