----------------------------- MODULE Transport -----------------------------
(***************************************************************************)
(* basic_async_transport over a TCP or a TLS stream, or the transport that *)
(* tunnels TLS through a proxy: async_connect, async_process_one and       *)
(* async_close with the stream's timers.                                   *)
(*                                                                         *)
(* The stream is Beast's: a read and a write slot, each with at most one   *)
(* operation and its own timer.  expires_after and expires_never act on    *)
(* the slots that have no operation, an operation is timed if the timer of *)
(* its slot is set when it starts, and a timeout closes the socket.  An    *)
(* operation that has completed keeps its slot until its handler runs; a   *)
(* timer that fires in between still turns it into a timeout.              *)
(***************************************************************************)
EXTENDS Naturals

CONSTANTS
    Kinds,         \* the kinds of transport: "tcp", "ssl", "tunnel"
    Closes,        \* the calls of async_close
    BusyCloses,    \* those that may be made while an operation runs
    MaxCalls       \* bound on the calls of async_connect and process_one

ASSUME KindAssumption == Kinds \subseteq {"tcp", "ssl", "tunnel"}
ASSUME BusyAssumption == BusyCloses \subseteq Closes
ASSUME CallsAssumption == MaxCalls \in Nat
ASSUME ClosesAssumption == Closes \cap {"none", "connect", "process"} = {}

VARIABLES
    t,            \* the members of the transport, see Init
    armed,        \* per slot: is the timer set?
    io,           \* per slot: the operation in it
    conn,         \* where the connect operation stands
    proc,         \* where transport_op stands
    close,        \* where each async_close stands
    connEc,       \* what the last async_connect answered
    procEc,       \* what transport_op last answered since then
    closed,       \* history: async_close was called since transport_op began
    calls         \* number of connect and process calls made

callerVars == <<connEc, procEc, closed, calls>>
vars == <<t, armed, io, conn, proc, close, callerVars>>

Slots == {"read", "write"}
IoState == {"free", "pending", "ok", "error", "aborted", "timeout"}
Owners == {"none", "connect", "process"} \cup Closes
Free == [owner |-> "none", state |-> "free", timed |-> FALSE]

-----------------------------------------------------------------------------
(***************************************************************************)
(* The stream (Beast and Asio, external): functions of its slots.          *)
(***************************************************************************)
Busy(ops, s) == ops[s].state # "free"
Release(ops, S) == [s \in Slots |-> IF s \in S THEN Free ELSE ops[s]]

\* Faulty variants: the timers are not armed, or not cancelled.
FaultyExpiresAfter(ops) == armed
FaultyExpiresNever(ops) == armed

ExpiresAfter(ops) == [s \in Slots |-> IF Busy(ops, s) THEN armed[s] ELSE TRUE]
ExpiresNever(ops) == [s \in Slots |-> IF Busy(ops, s) THEN armed[s] ELSE FALSE]

\* socket::cancel and socket::close end what is still pending.
Cancel(ops) == [s \in Slots |-> IF ops[s].state = "pending"
                                THEN [ops[s] EXCEPT !.state = "aborted"]
                                ELSE ops[s]]

\* An operation of owner o starts in slot s: it fails at once if the stream is
\* not up.
Begin(ops, timers, s, o, up) ==
    [ops EXCEPT ![s] = [owner |-> o, timed |-> timers[s],
                        state |-> IF up THEN "pending" ELSE "error"]]

Completed(s, o) == io[s].owner = o /\ io[s].state \notin {"free", "pending"}

\* Completions are delivered in the order they were queued: what is posted
\* after them runs when no slot holds one.
Delivered == \A s \in Slots : io[s].state \in {"free", "pending"}

\* The code a completion handler is given.
Code(st) == IF st \in {"ok", "aborted"} THEN st ELSE "error"

\* The peer (or the kernel) ends a pending operation; what the buffer already
\* holds when a read begins counts as sent by the peer.
PeerCompletes(s) ==
    /\ io[s].state = "pending"
    /\ \E st \in {"ok", "error"} :
        io' = [x \in Slots |-> IF io[x].state = "pending" /\ io[x].owner = io[s].owner
                               THEN [io[x] EXCEPT !.state = st] ELSE io[x]]
    /\ UNCHANGED <<t, armed, conn, proc, close, callerVars>>

\* The timer of a timed operation fires: the stream is closed.
Timeout(s) ==
    /\ io[s].state \notin {"free", "timeout"} /\ io[s].timed
    /\ t' = [t EXCEPT !.open = FALSE]
    /\ io' = Cancel([x \in Slots |-> IF io[x].owner = io[s].owner
                                     THEN [io[x] EXCEPT !.state = "timeout"]
                                     ELSE io[x]])
    /\ UNCHANGED <<armed, conn, proc, close, callerVars>>

\* Without a timer the kernel still gives up an unanswered TCP connect.
KernelGivesUp ==
    /\ conn = "connecting" /\ io["write"].state = "pending"
    /\ io' = [s \in Slots |-> [io[s] EXCEPT !.state = "error"]]
    /\ UNCHANGED <<t, armed, conn, proc, close, callerVars>>

-----------------------------------------------------------------------------
(***************************************************************************)
(* running: running_; open: socket().is_open(); ready: the stream can      *)
(* carry a request (connected, and its handshake complete); dirty: buffer_ *)
(* may hold the rest of a response whose request failed; extra: it may     *)
(* hold bytes that came behind a complete response, or that a CONNECT      *)
(* left; used: a response was read over the current connection.            *)
(***************************************************************************)
Init ==
    /\ t \in [kind : Kinds, running : {TRUE}, open : {FALSE}, ready : {FALSE},
              dirty : {FALSE}, extra : {FALSE}, used : {FALSE}]
    /\ armed = [s \in Slots |-> FALSE]
    /\ io = [s \in Slots |-> Free]
    /\ conn = "idle"
    /\ proc = "idle"
    /\ close = [k \in Closes |-> "idle"]
    /\ connEc = "none"
    /\ procEc = "none"
    /\ closed = FALSE
    /\ calls = 0

Secure == t.kind # "tcp"
Tunnel == t.kind = "tunnel"
Closing == \E k \in Closes : close[k] \notin {"idle", "done"}

\* Faulty variant: the stream is replaced and the buffer kept.
FaultyReset(u) == [u EXCEPT !.open = FALSE, !.ready = FALSE, !.used = FALSE]

\* reset: a new stream and an empty buffer.
Reset(u) == [u EXCEPT !.open = FALSE, !.ready = FALSE, !.used = FALSE,
                      !.dirty = FALSE, !.extra = FALSE]

\* A read that failed may leave a part of the response in the buffer.
Soiled(u) == [u EXCEPT !.dirty = TRUE]

\* A message was read to its end, the bytes behind it stay in the buffer.
Surplus(u) == [u EXCEPT !.extra = TRUE]

\* The connection can carry requests.
Established(u) == [u EXCEPT !.ready = TRUE, !.used = FALSE]

(***************************************************************************)
(* async_connect.  A TCP or TLS transport that was closed is reset now:    *)
(* its stream is replaced.  A tunnel was reset by its close.               *)
(***************************************************************************)
Resets == ~t.running /\ ~Tunnel

ConnectCall ==
    /\ t' = [(IF Resets THEN Reset(t) ELSE t) EXCEPT !.running = TRUE]
    /\ armed' = ExpiresAfter(io)
    /\ conn' = "resolving"
    /\ connEc' = "none" /\ procEc' = "none"
    /\ calls' = calls + 1
    /\ UNCHANGED <<io, proc, close, closed>>

\* The connect operation completes with ec: its timer is cancelled.
ConnectEnds(ops, ec) ==
    /\ conn' = "idle"
    /\ connEc' = ec
    /\ io' = ops
    /\ armed' = ExpiresNever(ops)

\* It goes on in state pc with an operation in slot s.
ConnectGoesOn(pc, ops, s) ==
    /\ conn' = pc
    /\ io' = Begin(ops, armed, s, "connect", t.open)
    /\ UNCHANGED <<armed, connEc>>

(***************************************************************************)
(* The resolver's answer; resolver.cancel() may come too late to stop it.  *)
(* TLS sets the server name first.  When that fails a tunnel answers and   *)
(* leaves its timer set.                                                   *)
(***************************************************************************)
ResolveDone ==
    /\ conn = "resolving"
    /\ \/ /\ \E ec \in {"error"} \cup (IF t.running THEN {} ELSE {"aborted"}) :
                ConnectEnds(io, ec)
          /\ UNCHANGED t
       \/ /\ Tunnel
          /\ conn' = "idle" /\ connEc' = "error"
          /\ UNCHANGED <<t, io, armed>>
       \/ /\ conn' = "connecting"
          /\ t' = [t EXCEPT !.open = TRUE]
          /\ io' = [s \in Slots |-> [owner |-> "connect", timed |-> armed[s],
                                     state |-> "pending"]]
          /\ UNCHANGED <<armed, connEc>>
    /\ UNCHANGED <<proc, close, procEc, closed, calls>>

\* Faulty variant: a connection that failed is not reported.
FaultyTcpConnectDone ==
    /\ conn = "connecting" /\ Completed("write", "connect")
    /\ io["write"].state = "ok" /\ ~Secure
    /\ ConnectEnds(Release(io, Slots), "ok")
    /\ t' = Established(t)
    /\ UNCHANGED <<proc, close, procEc, closed, calls>>

\* The TCP connection ended: TLS goes on with the handshake's first flight, a
\* tunnel with its CONNECT request (stream_op and parser_op).
TcpConnectDone ==
    /\ conn = "connecting" /\ Completed("write", "connect")
    /\ LET ops == Release(io, Slots) IN
        \/ /\ io["write"].state # "ok"
           /\ ConnectEnds(ops, Code(io["write"].state))
           /\ UNCHANGED t
        \/ /\ io["write"].state = "ok" /\ ~Secure
           /\ ConnectEnds(ops, "ok")
           /\ t' = Established(t)
        \/ /\ io["write"].state = "ok" /\ Secure
           /\ ConnectGoesOn(IF Tunnel THEN "request" ELSE "hello", ops, "write")
           /\ UNCHANGED t
    /\ UNCHANGED <<proc, close, procEc, closed, calls>>

\* The CONNECT was sent, its reply is read next.
ConnectRequestSent ==
    /\ conn = "request" /\ Completed("write", "connect")
    /\ LET ops == Release(io, {"write"}) IN
        \/ /\ io["write"].state # "ok"
           /\ ConnectEnds(ops, Code(io["write"].state))
           /\ UNCHANGED t
        \/ /\ io["write"].state = "ok"
           /\ ConnectGoesOn("reply", ops, "read")
           /\ UNCHANGED t
    /\ UNCHANGED <<proc, close, procEc, closed, calls>>

\* Faulty variant: a refused CONNECT, or no reply at all, is not reported.
FaultyProxyReplied ==
    /\ conn = "reply" /\ Completed("read", "connect")
    /\ io["read"].state = "ok"
    /\ ConnectGoesOn("hello", Release(io, {"read"}), "write")
    /\ UNCHANGED <<t, proc, close, procEc, closed, calls>>

(***************************************************************************)
(* The proxy's reply came, whole or in part.  It refuses the CONNECT, or   *)
(* the handshake begins.  Only its header is read: the body of a refusal,  *)
(* and whatever came behind an acceptance, stay in the buffer.             *)
(***************************************************************************)
ProxyReplied ==
    /\ conn = "reply" /\ Completed("read", "connect")
    /\ LET ops == Release(io, {"read"}) IN
        \/ /\ ConnectEnds(ops, IF io["read"].state = "ok" THEN "error"
                               ELSE Code(io["read"].state))
           /\ t' = Surplus(t)
        \/ /\ io["read"].state = "ok"
           /\ ConnectGoesOn("reply", ops, "read")
           /\ UNCHANGED t
        \/ /\ io["read"].state = "ok"
           /\ ConnectGoesOn("hello", ops, "write")
           /\ t' = Surplus(t)
    /\ UNCHANGED <<proc, close, procEc, closed, calls>>

HelloSent ==
    /\ conn = "hello" /\ Completed("write", "connect")
    /\ LET ops == Release(io, {"write"}) IN
        \/ /\ io["write"].state # "ok"
           /\ ConnectEnds(ops, Code(io["write"].state))
           /\ UNCHANGED t
        \/ /\ io["write"].state = "ok"
           /\ ~Busy(ops, "read")
           /\ ConnectGoesOn("handshake", ops, "read")
           /\ UNCHANGED t
    /\ UNCHANGED <<proc, close, procEc, closed, calls>>

\* The peer's flight came: it is the last, asks for another of ours, or is not
\* acceptable (its certificate, say).
HandshakeDone ==
    /\ conn = "handshake" /\ Completed("read", "connect")
    /\ LET ops == Release(io, {"read"}) IN
        \/ /\ ConnectEnds(ops, IF io["read"].state = "ok" THEN "error"
                               ELSE Code(io["read"].state))
           /\ UNCHANGED t
        \/ /\ io["read"].state = "ok"
           /\ ConnectEnds(ops, "ok")
           /\ t' = Established(t)
        \/ /\ io["read"].state = "ok"
           /\ ConnectGoesOn("hello", ops, "write")
           /\ UNCHANGED t
    /\ UNCHANGED <<proc, close, procEc, closed, calls>>

-----------------------------------------------------------------------------
(***************************************************************************)
(* async_process_one (transport_op): write the request, read the response. *)
(* Every entry looks at the error first, then at is_running().             *)
(***************************************************************************)
ProcessEnds(ec, ops) ==
    /\ proc' = "idle"
    /\ procEc' = ec
    /\ io' = ops
    /\ armed' = ExpiresNever(ops)

\* An operation of transport_op starts in slot s.
BeginProcess(ops, timers, s) == Begin(ops, timers, s, "process", t.open /\ t.ready)

ProcessCall ==
    /\ calls' = calls + 1
    /\ closed' = FALSE
    /\ \/ /\ ~t.running
          /\ ProcessEnds("aborted", io)
       \/ /\ t.running
          /\ proc' = "writing"
          /\ procEc' = "none"
          /\ armed' = ExpiresAfter(io)
          /\ io' = BeginProcess(io, armed', "write")
    /\ UNCHANGED <<t, conn, close, connEc>>

\* Faulty variants: is_running() or the error is not looked at.
FaultyEntryCode(s) == Code(io[s].state)
FaultyEntryIgnoresError(s) == IF t.running THEN "ok" ELSE "aborted"

\* The code an entry of transport_op sees once the operation in s is over.
EntryCode(s) ==
    IF io[s].state = "ok" /\ ~t.running THEN "aborted" ELSE Code(io[s].state)

WriteDone ==
    /\ proc = "writing" /\ Completed("write", "process")
    /\ LET ops == Release(io, {"write"}) IN
        \/ /\ EntryCode("write") # "ok"
           /\ ProcessEnds(EntryCode("write"), ops)
        \/ /\ EntryCode("write") = "ok"
           /\ proc' = "reading"
           /\ io' = BeginProcess(ops, armed, "read")
           /\ UNCHANGED <<armed, procEc>>
    /\ UNCHANGED <<t, conn, close, connEc, closed, calls>>

\* http::async_read got a part of the response and reads on by itself.
ReadSome ==
    /\ proc = "reading" /\ Completed("read", "process")
    /\ io["read"].state = "ok"
    /\ io' = BeginProcess(io, armed, "read")
    /\ UNCHANGED <<t, armed, conn, proc, close, callerVars>>

\* Faulty variant: the op ends before its read does.
FaultyReadDone ==
    /\ proc = "reading"
    /\ ProcessEnds(io["read"].state, Release(io, {"read"}))
    /\ UNCHANGED <<t, conn, close, connEc, closed, calls>>

ReadDone ==
    /\ proc = "reading" /\ Completed("read", "process")
    /\ ProcessEnds(EntryCode("read"), Release(io, {"read"}))
    /\ \/ /\ EntryCode("read") = "ok"
          /\ t' = [Surplus(t) EXCEPT !.used = TRUE]
       \/ EntryCode("read") # "ok" /\ t' = Soiled(t)
    /\ UNCHANGED <<conn, close, connEc, closed, calls>>

-----------------------------------------------------------------------------
\* async_close completes and leaves the transport as u: its timer is cancelled
\* and the stream of a tunnel replaced.
CloseEnds(k, ops, u) ==
    /\ close' = [close EXCEPT ![k] = "done"]
    /\ t' = IF Tunnel THEN Reset(u) ELSE u
    /\ io' = ops
    /\ armed' = ExpiresNever(ops)

SocketClosed == [t EXCEPT !.open = FALSE, !.ready = FALSE]

(***************************************************************************)
(* What do_async_close begins with: TCP posts.  TLS shuts its engine down, *)
(* which fails at once before the handshake, or when the cancelled stream  *)
(* is in an inconsistent state.                                            *)
(***************************************************************************)
ShutdownStates ==
    IF ~Secure THEN {"posted_close"}
    ELSE IF t.ready THEN {"notify", "failed"} ELSE {"failed"}

\* Faulty variant: running_ is cleared when the close ends, not when it begins.
FaultyCloseCall(k, gr) ==
    /\ close[k] = "idle"
    /\ closed' = TRUE
    /\ gr \/ ~t.open
    /\ \E pc \in IF t.open THEN ShutdownStates ELSE {"posted"} :
        close' = [close EXCEPT ![k] = pc]
    /\ armed' = ExpiresAfter(io)
    /\ io' = IF t.open THEN Cancel(io) ELSE io
    /\ UNCHANGED <<t, conn, proc, connEc, procEc, calls>>

\* async_close: pending I/O is cancelled, then the stream shut down.
CloseCall(k, gr) ==
    /\ close[k] = "idle"
    /\ closed' = TRUE
    /\ LET u == [t EXCEPT !.running = FALSE] IN
        \/ /\ t.open /\ gr
           /\ \E pc \in ShutdownStates : close' = [close EXCEPT ![k] = pc]
           /\ t' = u
           /\ armed' = ExpiresAfter(io)
           /\ io' = Cancel(io)
        \/ /\ t.open /\ ~gr
           /\ CloseEnds(k, Cancel(io), u)
        \/ /\ ~t.open
           /\ close' = [close EXCEPT ![k] = "posted"]
           /\ t' = u
           /\ armed' = ExpiresAfter(io)
           /\ UNCHANGED io
    /\ UNCHANGED <<conn, proc, connEc, procEc, calls>>

\* Nothing was open: the post comes back.
PostedDone(k) ==
    /\ close[k] = "posted"
    /\ CloseEnds(k, io, t)
    /\ UNCHANGED <<conn, proc, callerVars>>

\* Faulty variant: the socket is closed and the handler forgotten.
FaultyTcpCloseDone(k) ==
    /\ close[k] = "posted_close"
    /\ t' = SocketClosed
    /\ io' = Cancel(io)
    /\ UNCHANGED <<armed, conn, proc, close, callerVars>>

\* async_tcp_close_op.
TcpCloseDone(k) ==
    /\ close[k] = "posted_close"
    /\ Delivered
    /\ CloseEnds(k, Cancel(io), SocketClosed)
    /\ UNCHANGED <<conn, proc, callerVars>>

(***************************************************************************)
(* async_ssl_close_op: async_shutdown sends close_notify and waits for the *)
(* peer's, each as soon as the slot is free.                               *)
(***************************************************************************)
SendNotify(k) ==
    /\ close[k] = "notify"
    /\ ~Busy(io, "write")
    /\ close' = [close EXCEPT ![k] = "notifying"]
    /\ io' = Begin(io, armed, "write", k, t.open)
    /\ UNCHANGED <<t, armed, conn, proc, callerVars>>

NotifySent(k) ==
    /\ close[k] = "notifying" /\ Completed("write", k)
    /\ io["write"].state = "ok"
    /\ close' = [close EXCEPT ![k] = "await"]
    /\ io' = Release(io, {"write"})
    /\ UNCHANGED <<t, armed, conn, proc, callerVars>>

AwaitNotify(k) ==
    /\ close[k] = "await"
    /\ ~Busy(io, "read")
    /\ close' = [close EXCEPT ![k] = "awaiting"]
    /\ io' = Begin(io, armed, "read", k, t.open)
    /\ UNCHANGED <<t, armed, conn, proc, callerVars>>

\* The shutdown is over, however it ended: the socket is closed.
SslCloseDone(k) ==
    /\ \/ close[k] = "failed" /\ Delivered
       \/ /\ close[k] = "notifying" /\ Completed("write", k)
          /\ io["write"].state # "ok"
       \/ close[k] = "awaiting" /\ Completed("read", k)
    /\ CloseEnds(k, Cancel(Release(io, {s \in Slots : io[s].owner = k})),
                 SocketClosed)
    /\ UNCHANGED <<conn, proc, callerVars>>

-----------------------------------------------------------------------------
(***************************************************************************)
(* The caller is a session: one operation at a time, no connect over an    *)
(* established connection, and a close after a request that failed.  The   *)
(* close of a tunnel destroys its stream: under an operation of the TLS    *)
(* layer that is undefined behaviour, so a tunnel is closed when idle.     *)
(***************************************************************************)
Idle == conn = "idle" /\ proc = "idle" /\ ~Closing
MayConnect == Idle /\ calls < MaxCalls
              /\ (t.running => procEc \in {"none", "ok"} /\ ~t.ready)
MayProcess == Idle /\ calls < MaxCalls /\ t.open /\ procEc \in {"none", "ok"}
MayClose(k) == Idle \/ (k \in BusyCloses /\ ~Tunnel)

ConnectStep == \/ ResolveDone \/ TcpConnectDone
               \/ ConnectRequestSent \/ ProxyReplied
               \/ HelloSent \/ HandshakeDone
ProcessStep == WriteDone \/ ReadSome \/ ReadDone
CloseStep(k) == \/ PostedDone(k) \/ TcpCloseDone(k)
                \/ SendNotify(k) \/ NotifySent(k) \/ AwaitNotify(k)
                \/ SslCloseDone(k)
StreamStep == (\E s \in Slots : PeerCompletes(s) \/ Timeout(s)) \/ KernelGivesUp

Next ==
    \/ MayConnect /\ ConnectCall
    \/ ConnectStep
    \/ MayProcess /\ ProcessCall
    \/ ProcessStep
    \/ \E k \in Closes : \/ MayClose(k) /\ \E gr \in BOOLEAN : CloseCall(k, gr)
                         \/ CloseStep(k)
    \/ StreamStep

Spec == Init /\ [][Next]_vars

(***************************************************************************)
(* Fairness: handlers that are ready run, the resolver answers and the     *)
(* kernel gives up a connect.  A timer's deadline is absolute, so a slot   *)
(* that is timed again and again does time out.  The peer owes nothing.    *)
(***************************************************************************)
StreamFairness ==
    /\ WF_vars(ConnectStep)
    /\ WF_vars(KernelGivesUp)
    /\ WF_vars(ProcessStep)
    /\ \A s \in Slots : SF_vars(Timeout(s))

FairSpec == Spec /\ StreamFairness /\ \A k \in Closes : WF_vars(CloseStep(k))

-----------------------------------------------------------------------------
TypeOK ==
    /\ t \in [kind : Kinds, running : BOOLEAN, open : BOOLEAN, ready : BOOLEAN,
              dirty : BOOLEAN, extra : BOOLEAN, used : BOOLEAN]
    /\ armed \in [Slots -> BOOLEAN]
    /\ io \in [Slots -> [owner : Owners, state : IoState, timed : BOOLEAN]]
    /\ conn \in {"idle", "resolving", "connecting", "request", "reply",
                 "hello", "handshake"}
    /\ proc \in {"idle", "writing", "reading"}
    /\ close \in [Closes -> {"idle", "posted", "posted_close", "failed", "notify",
                             "notifying", "await", "awaiting", "done"}]
    /\ {connEc, procEc} \subseteq {"none", "ok", "error", "aborted"}
    /\ closed \in BOOLEAN
    /\ calls \in 0 .. MaxCalls

(***************************************************************************)
(* While the transport runs no operation waits on the peer without a       *)
(* timer, although every completion cancels the timers of the stream.      *)
(***************************************************************************)
TimedWhileRunning ==
    t.running => \A s \in Slots : io[s].state = "pending" => io[s].timed

(***************************************************************************)
(* A response that completes after async_close was called is reported as   *)
(* aborted: the caller that closed never sees a success afterwards.        *)
(***************************************************************************)
ClosedNeverOk ==
    [][proc = "reading" /\ proc' = "idle" /\ closed => procEc' # "ok"]_vars

(***************************************************************************)
(* However the operations overlapped and in whichever order they ended,    *)
(* the last one to end leaves the stream without an operation, and an      *)
(* established connection without a deadline a later operation could meet. *)
(* (A tunnel that could not set the server name leaves its timer set.)     *)
(***************************************************************************)
IdleMeansDisarmed ==
    Idle => \A s \in Slots : /\ ~Busy(io, s)
                             /\ armed[s] => Tunnel /\ ~t.ready

(***************************************************************************)
(* No response is read over the rest of one whose request failed, and the  *)
(* first response of a connection to the server over nothing an earlier    *)
(* connection left: reset, or the tunnel's close, cleared it.  (What came  *)
(* behind a complete response, or behind the reply to a tunnel's CONNECT,  *)
(* is read as the beginning of the next response of that connection.)      *)
(***************************************************************************)
CleanResponse ==
    [][proc = "reading" /\ proc' = "idle" /\ procEc' = "ok" =>
         ~t.dirty /\ (t.extra => Tunnel \/ t.used)]_vars

\* A connect ends although the peer may stay silent for ever.
ConnectAnswered == (conn # "idle") ~> (conn = "idle")

\* A request ends although the peer may stay silent, or send its response
\* piece by piece, for ever.
ProcessAnswered == (proc # "idle") ~> (proc = "idle")

\* "we want out anyway": a close always ends.
CloseAnswered == \A k \in Closes : (close[k] # "idle") ~> (close[k] = "done")

(***************************************************************************)
(* As long as nobody closes the transport while it is busy, connects and   *)
(* closes end, with or without the peer's (or the proxy's) help.  A close  *)
(* that comes too late to cancel the resolver ends and takes the timer     *)
(* away: the handshake that follows may wait for ever.                     *)
(***************************************************************************)
PatientlyAnswered ==
    [](\A k \in BusyCloses : close[k] = "idle")
        => ConnectAnswered /\ CloseAnswered

-----------------------------------------------------------------------------
(***************************************************************************)
(* The transport as its caller sees it.                                    *)
(***************************************************************************)
Connection == IF conn = "resolving" THEN "resolving"
              ELSE IF conn # "idle" THEN "connecting"
              ELSE IF t.ready THEN "linked" ELSE "none"

Contract ==
    INSTANCE AbstractTransport WITH
        tr <- [open |-> t.open, running |-> t.running, dirty |-> t.dirty,
               extra |-> t.extra, used |-> t.used, proxied |-> Tunnel, conn |-> Connection],
        connectEc <- IF conn = "idle" THEN connEc ELSE "pending",
        processEc <- IF proc = "idle" THEN procEc ELSE "pending",
        closing <- [k \in Closes |->
                       CASE close[k] \in {"idle", "done"} -> close[k]
                         [] close[k] = "posted" -> "close_posted"
                         [] OTHER -> "closing"]

\* The transport answers its caller as the session was told it would, in every
\* order of completions, timeouts and closes.
ImplementsContract == Contract!Spec

=============================================================================
