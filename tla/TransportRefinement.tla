------------------------ MODULE TransportRefinement ------------------------
(***************************************************************************)
(* Proof that Transport implements AbstractTransport, the contract module  *)
(* Session is written against: whatever completes, times out or is closed  *)
(* in whichever order, the caller sees the results it was told of.         *)
(***************************************************************************)
EXTENDS TransportProofs

\* The transport, and the state of its operations, as the caller sees them.
View == [open |-> t.open, running |-> t.running, dirty |-> t.dirty, extra |-> t.extra,
         used |-> t.used, proxied |-> Tunnel, conn |-> Connection]
ConnectView == IF conn = "idle" THEN connEc ELSE "pending"
ProcessView == IF proc = "idle" THEN procEc ELSE "pending"
CloseView == [k \in Closes |->
                 CASE close[k] \in {"idle", "done"} -> close[k]
                   [] close[k] = "posted" -> "close_posted"
                   [] OTHER -> "closing"]

LEMMA ViewFields ==
    /\ TypeOK => View \in Contract!Transport
    /\ TypeOK' => View' \in Contract!Transport
    /\ View.open = t.open /\ View.running = t.running /\ View.dirty = t.dirty
    /\ View.extra = t.extra
    /\ View.used = t.used /\ View.proxied = Tunnel /\ View.conn = Connection
    /\ View'.open = t'.open /\ View'.running = t'.running /\ View'.dirty = t'.dirty
    /\ View'.extra = t'.extra
    /\ View'.used = t'.used /\ View'.proxied = Tunnel' /\ View'.conn = Connection'
BY DEF View, TypeOK, Contract!Transport, Tunnel, Connection

\* Two transports that look the same field by field are the same.
LEMMA SameView ==
    ASSUME NEW v \in Contract!Transport, NEW w \in Contract!Transport,
           v.open = w.open, v.running = w.running, v.dirty = w.dirty, v.extra = w.extra,
           v.used = w.used, v.proxied = w.proxied, v.conn = w.conn
    PROVE  v = w
BY DEF Contract!Transport

\* What the operations of the contract do to the fields.
LEMMA ContractConnect ==
    ASSUME NEW v \in Contract!Transport
    PROVE  LET w == Contract!ConnectCall(v)
               kept == v.running \/ v.proxied IN
           /\ w \in Contract!Transport
           /\ w.running /\ w.conn = "resolving" /\ w.proxied = v.proxied
           /\ w.open = (kept /\ v.open) /\ w.used = (kept /\ v.used)
           /\ w.dirty = (kept /\ v.dirty) /\ w.extra = (kept /\ v.extra)
BY DEF Contract!Transport, Contract!ConnectCall, Contract!Reset, Contract!NewStream

LEMMA ContractSteps ==
    ASSUME NEW v \in Contract!Transport
    PROVE  /\ LET w == Contract!Opened(v) IN
                /\ w \in Contract!Transport
                /\ w.open /\ w.conn = "connecting" /\ w.running = v.running
                /\ w.dirty = v.dirty /\ w.used = v.used /\ w.proxied = v.proxied
                /\ w.extra = v.extra
           /\ LET w == Contract!Dropped(v) IN
                /\ w \in Contract!Transport
                /\ ~w.open /\ w.conn = v.conn /\ w.running = v.running
                /\ w.dirty = v.dirty /\ w.used = v.used /\ w.proxied = v.proxied
                /\ w.extra = v.extra
           /\ LET w == Contract!CloseCall(v) IN
                /\ w \in Contract!Transport
                /\ w.open = v.open /\ w.conn = v.conn /\ ~w.running
                /\ w.dirty = v.dirty /\ w.used = v.used /\ w.proxied = v.proxied
                /\ w.extra = v.extra
BY DEF Contract!Transport, Contract!Opened, Contract!Dropped, Contract!CloseCall

LEMMA ContractClose ==
    ASSUME NEW v \in Contract!Transport, NEW pc \in {"closing", "close_posted"}
    PROVE  LET w == Contract!CloseEnd(v, pc)
               shut == v.proxied \/ pc = "closing" IN
           /\ w \in Contract!Transport
           /\ w.open = (~shut /\ v.open)
           /\ w.conn = IF shut /\ v.conn = "linked" THEN "none" ELSE v.conn
           /\ w.running = v.running /\ w.proxied = v.proxied
           /\ w.dirty = (~v.proxied /\ v.dirty) /\ w.extra = (~v.proxied /\ v.extra)
           /\ w.used = (~v.proxied /\ v.used)
<1>1. CASE v.proxied
  <2> DEFINE u == Contract!Closed(v, pc)
  <2>1. /\ u \in Contract!Transport /\ u.running = v.running /\ u.proxied = v.proxied
        /\ u.conn = v.conn \/ (v.conn = "linked" /\ u.conn = "none")
    BY DEF Contract!Transport, Contract!Closed
  <2>2. Contract!CloseEnd(v, pc) = Contract!Reset(u)
    BY <1>1 DEF Contract!CloseEnd
  <2> HIDE DEF u
  <2>3. LET w == Contract!Reset(u) IN
        /\ w \in Contract!Transport /\ ~w.open /\ ~w.dirty /\ ~w.extra /\ ~w.used
        /\ w.running = u.running /\ w.proxied = u.proxied
        /\ w.conn = IF u.conn = "linked" THEN "none" ELSE u.conn
    BY <2>1 DEF Contract!Transport, Contract!Reset, Contract!NewStream
  <2> DEFINE w == Contract!Reset(u)
  <2>4. w.conn = IF v.conn = "linked" THEN "none" ELSE v.conn
    BY <2>1, <2>3
  <2>5. /\ w \in Contract!Transport /\ w.open = FALSE /\ w.dirty = FALSE
        /\ w.extra = FALSE /\ w.used = FALSE
    BY <2>3 DEF Contract!Transport
  <2> HIDE DEF w
  <2> QED BY <1>1, <2>1, <2>2, <2>3, <2>4, <2>5 DEF w
<1>2. CASE ~v.proxied /\ pc = "closing"
  BY <1>2 DEF Contract!Transport, Contract!CloseEnd, Contract!Closed
<1>3. CASE ~v.proxied /\ pc = "close_posted"
  BY <1>3 DEF Contract!Transport, Contract!CloseEnd, Contract!Closed
<1> QED BY <1>1, <1>2, <1>3

\* async_connect begins.
LEMMA ConnectImplements ==
    ASSUME TypeOK, TypeOK', MayConnect, ConnectCall
    PROVE  Contract!Connect
<1>1. t \in Members /\ connEc # "pending"
  BY Typed
<1>2. /\ conn = "idle" /\ proc = "idle" /\ conn' = "resolving" /\ procEc' = "none"
      /\ UNCHANGED <<proc, close>>
      /\ t' = [(IF Resets THEN Reset(t) ELSE t) EXCEPT !.running = TRUE]
  BY DEF MayConnect, Idle, ConnectCall
<1>3. Connection' = "resolving"
  BY <1>2 DEF Connection
<1>4. View' = Contract!ConnectCall(View)
  <2>1. /\ t'.running /\ t'.kind = t.kind
        /\ t'.open = (~Resets /\ t.open) /\ t'.used = (~Resets /\ t.used)
        /\ t'.dirty = (~Resets /\ t.dirty) /\ t'.extra = (~Resets /\ t.extra)
    BY <1>1, <1>2 DEF Members, Reset
  <2>2. Tunnel' = Tunnel
    BY <2>1 DEF Tunnel
  <2>3. View \in Contract!Transport /\ View' \in Contract!Transport
    BY ViewFields
  <2> DEFINE w == Contract!ConnectCall(View)
  <2>4. w \in Contract!Transport
    BY <2>3, ContractConnect
  <2>5. /\ View'.running = w.running /\ View'.conn = w.conn
        /\ View'.open = w.open /\ View'.used = w.used /\ View'.dirty = w.dirty
        /\ View'.extra = w.extra /\ View'.proxied = w.proxied
    BY <1>3, <2>1, <2>2, <2>3, ViewFields, ContractConnect DEF Resets
  <2> HIDE DEF w
  <2>6. View' = w
    BY <2>3, <2>4, <2>5, SameView
  <2> QED BY <2>6 DEF w
<1>5. /\ ConnectView # "pending" /\ ConnectView' = "pending"
      /\ ProcessView' = "none" /\ CloseView' = CloseView
  BY <1>1, <1>2 DEF ConnectView, ProcessView, CloseView
<1> QED BY <1>4, <1>5 DEF Contract!Connect, View, ConnectView, ProcessView, CloseView

-----------------------------------------------------------------------------
\* A connect begins with no request answered, and none is answered under it; the
\* handshake of a tunnel comes after the reply of the proxy.
Fresh ==
    /\ conn # "idle" => procEc = "none"
    /\ Tunnel /\ conn \in {"hello", "handshake"} => t.extra

LEMMA FreshStep == ASSUME Ordered, Fresh, [Next]_vars PROVE Fresh'
<1>1. TypeOK /\ Owned /\ Order /\ t \in Members
  BY Typed DEF Ordered
<1>2. CASE MayConnect /\ ConnectCall
  BY <1>2 DEF ConnectCall, Fresh
<1>3. CASE ConnectStep
  <2>1. conn # "idle" /\ procEc' = procEc /\ t'.kind = t.kind
    BY <1>1, <1>3, ConnectAlone
  <2>2. CASE ProxyReplied
    BY <1>1, <2>1, <2>2
       DEF ProxyReplied, ConnectEnds, ConnectGoesOn, Surplus, Members, Fresh, Tunnel
  <2>3. CASE ResolveDone \/ TcpConnectDone \/ ConnectRequestSent
    BY <2>1, <2>3 DEF ResolveDone, TcpConnectDone, ConnectRequestSent, ConnectEnds,
                      ConnectGoesOn, Fresh, Tunnel
  <2>4. CASE HelloSent \/ HandshakeDone
    BY <2>1, <2>4 DEF HelloSent, HandshakeDone, ConnectEnds, ConnectGoesOn, Fresh, Tunnel
  <2> QED BY <1>3, <2>2, <2>3, <2>4 DEF ConnectStep
<1>4. CASE MayProcess /\ ProcessCall
  BY <1>4 DEF MayProcess, Idle, ProcessCall, Fresh
<1>5. CASE ProcessStep
  BY <1>1, <1>5, ProcessAlone DEF Fresh, Order, OneOperation
<1>6. ASSUME NEW k \in Closes, MayClose(k), NEW gr \in BOOLEAN, CloseCall(k, gr)
      PROVE  Fresh'
  BY <1>1, <1>6, CloseCallAlone DEF Fresh, MayClose, Idle, Tunnel
<1>7. ASSUME NEW k \in Closes, CloseStep(k) PROVE Fresh'
  <2>1. /\ close[k] \notin {"idle", "done"} /\ UNCHANGED <<conn, procEc>>
        /\ t'.kind = t.kind
    BY <1>1, <1>7, CloseAlone DEF callerVars
  <2>2. Tunnel => conn = "idle"
    BY <1>1, <2>1 DEF Order, TunnelAlone, ClosingStopped, Closing
  <2> QED BY <2>1, <2>2 DEF Fresh, Tunnel
<1>8. CASE StreamStep
  BY <1>1, <1>8, StreamAlone DEF Fresh, callerVars, Members, Tunnel
<1>9. CASE UNCHANGED vars
  BY <1>9 DEF vars, callerVars, Fresh, Tunnel
<1> QED BY <1>2, <1>3, <1>4, <1>5, <1>6, <1>7, <1>8, <1>9 DEF Next

\* What a connect ends with: a success over an open socket, or a failure that is
\* an abort only after a close.
LEMMA ConnectAnswer ==
    ASSUME Ordered, Answers, Fresh, ConnectStep, conn' = "idle"
    PROVE  \/ /\ connEc' = "ok" /\ t' = Established(t)
              /\ conn # "resolving" /\ t.open /\ (Tunnel => t.extra)
           \/ /\ connEc' \in {"error", "aborted"}
              /\ connEc' = "aborted" => ~t.running
              /\ t' = t \/ (Tunnel /\ t' = Surplus(t))
<1>1. /\ TypeOK /\ Owned /\ Order /\ Sound
      /\ "read" \in Slots /\ "write" \in Slots
  BY DEF Ordered, Answers, Slots
<1>2. ASSUME NEW s \in Slots
      PROVE  /\ Code(io[s].state) \in {"ok", "error", "aborted"}
             /\ Code(io[s].state) = "ok" <=> io[s].state = "ok"
             /\ Code(io[s].state) = "aborted" => ~t.running
  BY <1>1 DEF Code, Sound
<1>3. ASSUME NEW s \in Slots, io[s].owner = "connect", io[s].state = "ok" PROVE t.open
  BY <1>1, <1>3 DEF Sound
<1>4. conn \in {"hello", "handshake"} => (Tunnel => t.extra)
  BY DEF Fresh
<1>5. CASE ResolveDone
  BY <1>5 DEF ResolveDone, ConnectEnds
<1>6. CASE TcpConnectDone
  <2>1. CASE io["write"].state # "ok"
    BY <1>1, <1>2, <1>6, <2>1 DEF TcpConnectDone, ConnectEnds
  <2>2. CASE io["write"].state = "ok"
    BY <1>1, <1>3, <1>6, <2>2
       DEF TcpConnectDone, ConnectEnds, ConnectGoesOn, Completed, Secure, Tunnel
  <2> QED BY <2>1, <2>2
<1>7. CASE ConnectRequestSent
  BY <1>1, <1>2, <1>7 DEF ConnectRequestSent, ConnectEnds, ConnectGoesOn
<1>8. CASE ProxyReplied
  <2>1. Tunnel
    BY <1>1, <1>8 DEF ProxyReplied, Order, ProxyOnly
  <2> QED BY <1>1, <1>2, <1>8, <2>1 DEF ProxyReplied, ConnectEnds, ConnectGoesOn
<1>9. CASE HelloSent
  BY <1>1, <1>2, <1>9 DEF HelloSent, ConnectEnds, ConnectGoesOn
<1>10. CASE HandshakeDone
  BY <1>1, <1>2, <1>3, <1>4, <1>10 DEF HandshakeDone, ConnectEnds, ConnectGoesOn, Completed
<1> QED BY <1>5, <1>6, <1>7, <1>8, <1>9, <1>10 DEF ConnectStep

\* The results of the contract, as steps of the view.
LEMMA ResultFields ==
    ASSUME NEW ec, NEW u
    PROVE  Contract!Result(ec, u).tr = u /\ Contract!Result(ec, u).ec = ec
BY DEF Contract!Result

LEMMA ContractConnected ==
    ASSUME NEW v \in Contract!Transport, NEW w \in Contract!Transport,
           w.open = v.open, w.running = v.running, w.proxied = v.proxied,
           v.conn = "connecting", v.open, v.proxied => v.extra,
           w.conn = "linked", ~w.used, w.dirty = v.dirty, w.extra = v.extra
    PROVE  \E res \in Contract!ConnectResults(v) : w = res.tr /\ "ok" = res.ec
<1> DEFINE read == IF v.proxied THEN Contract!Surplus(v) ELSE v
           u == [read EXCEPT !.conn = "linked", !.used = FALSE]
<1>1. /\ u \in Contract!Transport /\ u.conn = "linked" /\ ~u.used /\ u.open = v.open
      /\ u.running = v.running /\ u.dirty = v.dirty /\ u.proxied = v.proxied
      /\ u.extra = v.extra
  BY DEF Contract!Transport, Contract!Surplus
<1>2. Contract!Result("ok", u) \in Contract!ConnectResults(v)
  BY DEF Contract!ConnectResults
<1> HIDE DEF u
<1>3. w.used = u.used
  BY <1>1 DEF Contract!Transport
<1>4. w = u
  BY <1>1, <1>3, SameView
<1> QED BY ResultFields, <1>2, <1>4

LEMMA ContractConnectFails ==
    ASSUME NEW v \in Contract!Transport, NEW w \in Contract!Transport,
           w.open = v.open, w.running = v.running, w.proxied = v.proxied,
           NEW ec \in {"error", "aborted"}, ec = "aborted" => ~v.running,
           w.conn = "none", w.used = v.used, w.dirty = v.dirty,
           w.extra = v.extra \/ (v.proxied /\ w.extra)
    PROVE  \E res \in Contract!ConnectResults(v) : w = res.tr /\ ec = res.ec
<1> DEFINE read == IF v.proxied THEN Contract!Surplus(v) ELSE v
<1>1. PICK x \in {v, read} :
            /\ x \in Contract!Transport
            /\ x.open = v.open /\ x.running = v.running /\ x.used = v.used
            /\ x.proxied = v.proxied /\ x.dirty = w.dirty /\ x.extra = w.extra
  <2>1. CASE w.extra = v.extra
    BY <2>1
  <2>2. CASE v.proxied /\ w.extra
    <3> DEFINE y == Contract!Surplus(v)
    <3>1. /\ y \in Contract!Transport /\ y.extra = TRUE /\ y.dirty = v.dirty
          /\ y.open = v.open /\ y.running = v.running /\ y.used = v.used
          /\ y.proxied = v.proxied
      BY DEF Contract!Transport, Contract!Surplus
    <3>2. y \in {v, read}
      BY <2>2
    <3> HIDE DEF y
    <3>3. y.extra = w.extra
      BY <2>2, <3>1 DEF Contract!Transport
    <3> QED BY <3>1, <3>2, <3>3
  <2> QED BY <2>1, <2>2
<1> DEFINE u == [x EXCEPT !.conn = "none"]
<1>2. /\ u \in Contract!Transport /\ u.conn = "none" /\ u.used = v.used
      /\ u.open = v.open /\ u.running = v.running /\ u.dirty = w.dirty
      /\ u.extra = w.extra /\ u.proxied = v.proxied
  BY <1>1 DEF Contract!Transport
<1>3. Contract!Result(ec, u) \in Contract!ConnectResults(v)
  <2> DEFINE From == {v, read}
             Unconnected(y) == [y EXCEPT !.conn = "none"]
  <2>1. ec \in Contract!Failures(v) /\ x \in From /\ u = Unconnected(x)
    BY <1>1 DEF Contract!Failures
  <2>2. {Contract!Result(e, Unconnected(y)) : e \in Contract!Failures(v), y \in From}
           \subseteq Contract!ConnectResults(v)
    BY DEF Contract!ConnectResults
  <2> HIDE DEF From, Unconnected, u
  <2>3. Contract!Result(ec, Unconnected(x)) \in
           {Contract!Result(e, Unconnected(y)) : e \in Contract!Failures(v), y \in From}
    BY <2>1
  <2> QED BY <2>1, <2>2, <2>3
<1> HIDE DEF u
<1>4. w = u
  BY <1>2, SameView
<1> QED BY ResultFields, <1>3, <1>4

LEMMA ContractProcessed ==
    ASSUME NEW v \in Contract!Transport, NEW w \in Contract!Transport,
           w.open = v.open, w.running = v.running, w.proxied = v.proxied,
           v.running, v.open, v.conn = "linked",
           w.conn = "linked", w.used, w.dirty = v.dirty, w.extra
    PROVE  \E res \in Contract!ProcessResults(v) : w = res.tr /\ "ok" = res.ec
<1> DEFINE u == [Contract!Surplus(v) EXCEPT !.used = TRUE]
<1>1. /\ u \in Contract!Transport /\ u.conn = v.conn /\ u.used /\ u.open = v.open
      /\ u.running = v.running /\ u.dirty = v.dirty /\ u.proxied = v.proxied
      /\ u.extra
  BY DEF Contract!Transport, Contract!Surplus
<1>2. Contract!Result("ok", u) \in Contract!ProcessResults(v)
  BY DEF Contract!ProcessResults
<1> HIDE DEF u
<1>3. w.used = u.used /\ w.extra = u.extra
  BY <1>1 DEF Contract!Transport
<1>4. w = u
  BY <1>1, <1>3, SameView
<1> QED BY ResultFields, <1>2, <1>4

LEMMA ContractProcessFails ==
    ASSUME NEW v \in Contract!Transport, NEW w \in Contract!Transport,
           w.open = v.open, w.running = v.running, w.proxied = v.proxied,
           NEW ec \in {"error", "aborted"}, ec = "aborted" => ~v.running,
           w.conn = v.conn, w.used = v.used, w.extra = v.extra,
           w.dirty = v.dirty \/ w.dirty
    PROVE  \E res \in Contract!ProcessResults(v) : w = res.tr /\ ec = res.ec
<1> DEFINE x == Contract!Soiled(v)
<1>1. /\ x \in Contract!Transport /\ x.dirty /\ x.conn = v.conn
      /\ x.open = v.open /\ x.running = v.running /\ x.used = v.used
      /\ x.proxied = v.proxied /\ x.extra = v.extra
  BY DEF Contract!Transport, Contract!Soiled
<1> HIDE DEF x
<1>2. w \in {v, x}
  <2>1. CASE w.dirty = v.dirty
    BY <2>1, SameView
  <2>2. CASE w.dirty
    <3>1. w.dirty = x.dirty
      BY <1>1, <2>2 DEF Contract!Transport
    <3>2. w = x
      BY <1>1, <3>1, SameView
    <3> QED BY <3>2
  <2> QED BY <2>1, <2>2
<1>3. Contract!Result(ec, w) \in Contract!ProcessResults(v)
  BY <1>2 DEF Contract!ProcessResults, Contract!Failures, x
<1> QED BY ResultFields, <1>3

-----------------------------------------------------------------------------
(***************************************************************************)
(* Every step of the transport is one of the contract, or changes nothing  *)
(* its caller sees.                                                        *)
(***************************************************************************)
ContractVars == <<View, ConnectView, ProcessView, CloseView>>

\* async_connect goes on: the socket opens, the proxy's reply was read, or its
\* caller sees nothing.
LEMMA ConnectingImplements ==
    ASSUME Ordered, TypeOK', ConnectStep, conn' # "idle"
    PROVE  Contract!Open \/ Contract!Replied \/ UNCHANGED ContractVars
<1>1. TypeOK /\ Owned /\ Order /\ t \in Members
  BY Typed DEF Ordered
<1>2. conn # "idle" /\ UNCHANGED <<proc, close, procEc>>
  BY <1>1, ConnectAlone
<1>3. /\ ConnectView' = ConnectView /\ ProcessView' = ProcessView
      /\ CloseView' = CloseView
  BY <1>2 DEF ConnectView, ProcessView, CloseView
<1>4. CASE ResolveDone
  <2>1. conn = "resolving" /\ conn' = "connecting" /\ t' = [t EXCEPT !.open = TRUE]
    BY <1>4 DEF ResolveDone, ConnectEnds
  <2>2. Connection = "resolving" /\ Connection' = "connecting"
    BY <2>1 DEF Connection
  <2>3. /\ t'.open /\ t'.running = t.running /\ t'.dirty = t.dirty /\ t'.used = t.used
        /\ t'.kind = t.kind /\ t'.extra = t.extra
    BY <1>1, <2>1 DEF Members
  <2> DEFINE w == Contract!Opened(View)
  <2>4. /\ View \in Contract!Transport /\ View' \in Contract!Transport
        /\ w \in Contract!Transport
    BY <1>1, ViewFields, ContractSteps
  <2>5. /\ View'.open = w.open /\ View'.running = w.running /\ View'.dirty = w.dirty
        /\ View'.used = w.used /\ View'.proxied = w.proxied /\ View'.conn = w.conn
        /\ View'.extra = w.extra
    <3>1. /\ w.open /\ w.conn = "connecting" /\ w.running = View.running
          /\ w.dirty = View.dirty /\ w.used = View.used /\ w.proxied = View.proxied
          /\ w.extra = View.extra
      BY <2>4, ContractSteps
    <3>2. /\ View'.open /\ View'.conn = "connecting" /\ View'.running = View.running
          /\ View'.dirty = View.dirty /\ View'.used = View.used
          /\ View'.proxied = View.proxied /\ View'.extra = View.extra
      BY <2>2, <2>3, ViewFields DEF Tunnel
    <3> HIDE DEF w
    <3>3. View'.open = w.open
      BY <2>4, <3>1, <3>2 DEF Contract!Transport
    <3> QED BY <3>1, <3>2, <3>3
  <2> HIDE DEF w
  <2>6. View' = w
    BY <2>4, <2>5, SameView
  <2>7. View' = Contract!Opened(View) /\ View.conn = "resolving"
    BY <2>2, <2>6, ViewFields DEF w
  <2> QED BY <1>3, <2>7 DEF Contract!Open, View, ConnectView, ProcessView, CloseView
<1>5. CASE ~ResolveDone
  <2>1. conn # "resolving" /\ conn' # "resolving"
    BY <1>5 DEF ConnectStep, TcpConnectDone, ConnectRequestSent, ProxyReplied,
                HelloSent, HandshakeDone, ConnectEnds, ConnectGoesOn
  <2>2. t' = t \/ (conn = "reply" /\ t' = Surplus(t))
    BY <1>5 DEF ConnectStep, TcpConnectDone, ConnectRequestSent, ProxyReplied,
                HelloSent, HandshakeDone, ConnectEnds, ConnectGoesOn
  <2>3. CASE t' = t
    <3>1. View' = View
      BY <1>2, <2>1, <2>3 DEF View, Connection, Tunnel
    <3> QED BY <1>3, <3>1 DEF ContractVars
  <2>4. CASE conn = "reply" /\ t' = Surplus(t)
    <3>1. /\ t'.open = t.open /\ t'.running = t.running /\ t'.dirty = t.dirty
          /\ t'.used = t.used /\ t'.kind = t.kind /\ t'.extra
      BY <1>1, <2>4 DEF Members, Surplus
    <3>2. /\ Connection = "connecting" /\ Connection' = "connecting"
          /\ Tunnel /\ Tunnel' = Tunnel
      BY <1>1, <1>2, <2>1, <2>4, <3>1 DEF Connection, Tunnel, Order, ProxyOnly
    <3> DEFINE w == Contract!Surplus(View)
    <3>3. View \in Contract!Transport /\ View' \in Contract!Transport
      BY <1>1, ViewFields
    <3>4. /\ w \in Contract!Transport /\ w.open = View.open /\ w.extra
          /\ w.running = View.running /\ w.dirty = View.dirty /\ w.used = View.used
          /\ w.proxied = View.proxied /\ w.conn = View.conn
      BY <3>3 DEF Contract!Surplus, Contract!Transport
    <3> HIDE DEF w
    <3>5. View'.extra = w.extra
      BY <3>1, <3>3, <3>4, ViewFields DEF Contract!Transport
    <3>6. View' = w
      <4>1. /\ View'.open = View.open /\ View'.running = View.running
            /\ View'.dirty = View.dirty /\ View'.used = View.used
            /\ View'.proxied = View.proxied /\ View'.conn = View.conn
        BY <3>1, <3>2, ViewFields
      <4> QED BY <3>3, <3>4, <3>5, <4>1, SameView
    <3>7. View' = Contract!Surplus(View) /\ View.proxied /\ View.conn = "connecting"
      BY <3>2, <3>6, ViewFields DEF w
    <3> QED BY <1>3, <3>7 DEF Contract!Replied, View, ConnectView, ProcessView, CloseView
  <2> QED BY <2>2, <2>3, <2>4
<1> QED BY <1>4, <1>5

\* async_connect ends with a result of the contract.
LEMMA ConnectedImplements ==
    ASSUME Ordered, Answers, Fresh, TypeOK', ConnectStep, conn' = "idle"
    PROVE  Contract!Connected
<1>1. TypeOK /\ Owned /\ Order /\ t \in Members
  BY Typed DEF Ordered
<1>2. conn # "idle" /\ UNCHANGED <<proc, close, procEc>> /\ ~t.ready
  BY <1>1, ConnectAlone DEF Order, ConnectingNotReady
<1>3. /\ ConnectView = "pending" /\ ConnectView' = connEc'
      /\ ProcessView' = ProcessView /\ CloseView' = CloseView
  BY <1>2 DEF ConnectView, ProcessView, CloseView
<1>4. View \in Contract!Transport /\ View' \in Contract!Transport
  BY <1>1, ViewFields
<1>5. \E res \in Contract!ConnectResults(View) :
         View' = res.tr /\ ConnectView' = res.ec
  <2>1. CASE /\ connEc' = "ok" /\ t' = Established(t)
             /\ conn # "resolving" /\ t.open /\ (Tunnel => t.extra)
    <3>1. /\ t'.open = t.open /\ t'.running = t.running /\ t'.dirty = t.dirty
          /\ t'.extra = t.extra
          /\ ~t'.used /\ t'.kind = t.kind /\ t'.ready
      BY <1>1, <2>1 DEF Members, Established
    <3>2. /\ Connection = "connecting" /\ Connection' = "linked" /\ Tunnel' = Tunnel
      BY <1>2, <2>1, <3>1 DEF Connection, Tunnel
    <3>3. /\ View'.open = View.open /\ View'.running = View.running
          /\ View'.proxied = View.proxied /\ View'.dirty = View.dirty
          /\ View'.extra = View.extra /\ ~View'.used /\ View'.conn = "linked"
          /\ View.conn = "connecting" /\ View.open /\ (View.proxied => View.extra)
      BY <2>1, <3>1, <3>2, ViewFields
    <3>4. \E res \in Contract!ConnectResults(View) : View' = res.tr /\ "ok" = res.ec
      BY <1>4, <3>3, ContractConnected
    <3>5. ConnectView' = "ok"
      BY <1>3, <2>1
    <3> QED BY <3>4, <3>5
  <2>2. CASE /\ connEc' \in {"error", "aborted"}
             /\ connEc' = "aborted" => ~t.running
             /\ t' = t \/ (Tunnel /\ t' = Surplus(t))
    <3>1. /\ t'.open = t.open /\ t'.running = t.running /\ t'.used = t.used
          /\ t'.kind = t.kind /\ ~t'.ready /\ t'.dirty = t.dirty
          /\ t'.extra = t.extra \/ (Tunnel /\ t'.extra)
      BY <1>1, <1>2, <2>2 DEF Members, Surplus
    <3>2. Connection' = "none" /\ Tunnel' = Tunnel
      BY <3>1 DEF Connection, Tunnel
    <3> QED BY <1>3, <1>4, <2>2, <3>1, <3>2, ViewFields, ContractConnectFails
  <2> QED BY <2>1, <2>2, ConnectAnswer
<1> QED BY <1>3, <1>5 DEF Contract!Connected, View, ConnectView, ProcessView, CloseView

\* async_process_one begins, or is refused by a transport that was closed.
LEMMA ProcessImplements ==
    ASSUME TypeOK, proc = "idle", ProcessCall
    PROVE  Contract!Process \/ Contract!ProcessRefused
<1>1. /\ proc = "idle" /\ UNCHANGED <<t, conn, close, connEc>>
      /\ procEc # "pending"
  BY Typed DEF ProcessCall
<1>2. /\ ProcessView # "pending" /\ View' = View /\ ConnectView' = ConnectView
      /\ CloseView' = CloseView
  BY <1>1 DEF View, Connection, Tunnel, ConnectView, ProcessView, CloseView
<1>3. CASE t.running
  <2>1. ProcessView' = "pending"
    BY <1>3 DEF ProcessCall, ProcessView
  <2> QED BY <1>2, <2>1 DEF Contract!Process, View, ConnectView, ProcessView, CloseView
<1>4. CASE ~t.running
  <2>1. ProcessView' = "aborted"
    BY <1>4 DEF ProcessCall, ProcessEnds, ProcessView
  <2>2. ~View.running
    BY <1>4, ViewFields
  <2> QED BY <1>2, <2>1, <2>2
             DEF Contract!ProcessRefused, View, ConnectView, ProcessView, CloseView
<1> QED BY <1>3, <1>4

\* transport_op goes on, which its caller does not see.
LEMMA ProcessingImplements ==
    ASSUME Ordered, ProcessStep, proc' # "idle"
    PROVE  UNCHANGED ContractVars
<1>1. proc # "idle" /\ UNCHANGED <<t, conn, close, connEc>>
  <2>1. proc # "idle" /\ UNCHANGED <<conn, close, connEc>>
    BY ProcessAlone DEF Ordered
  <2>2. t' = t
    BY DEF ProcessStep, WriteDone, ReadSome, ReadDone, ProcessEnds
  <2> QED BY <2>1, <2>2
<1> QED BY <1>1 DEF ContractVars, View, Connection, Tunnel, ConnectView, ProcessView,
                    CloseView

\* It ends with a result of the contract.
LEMMA ProcessedImplements ==
    ASSUME Ordered, Answers, TypeOK', ProcessStep, proc' = "idle"
    PROVE  Contract!Processed
<1>1. TypeOK /\ Owned /\ Order /\ t \in Members
  BY Typed DEF Ordered
<1>2. proc # "idle" /\ conn = "idle" /\ UNCHANGED <<conn, close, connEc>>
  BY <1>1, ProcessAlone DEF Order, OneOperation
<1>3. /\ ProcessView = "pending" /\ ProcessView' = procEc'
      /\ ConnectView' = ConnectView /\ CloseView' = CloseView
  BY <1>2 DEF ConnectView, ProcessView, CloseView
<1>4. View \in Contract!Transport /\ View' \in Contract!Transport
  BY <1>1, ViewFields
<1>5. \E res \in Contract!ProcessResults(View) :
         View' = res.tr /\ ProcessView' = res.ec
  <2>1. CASE /\ procEc' = "ok" /\ t' = [Surplus(t) EXCEPT !.used = TRUE]
             /\ t.running /\ t.open /\ t.ready
    <3>1. /\ t'.open = t.open /\ t'.running = t.running /\ t'.dirty = t.dirty
          /\ t'.used /\ t'.kind = t.kind /\ t'.ready /\ t'.extra
      BY <1>1, <2>1 DEF Members, Surplus
    <3>2. Connection = "linked" /\ Connection' = "linked" /\ Tunnel' = Tunnel
      BY <1>2, <2>1, <3>1 DEF Connection, Tunnel
    <3>3. /\ View'.open = View.open /\ View'.running = View.running
          /\ View'.proxied = View.proxied /\ View'.dirty = View.dirty
          /\ View'.used /\ View'.conn = "linked" /\ View'.extra
          /\ View.conn = "linked" /\ View.open /\ View.running
      BY <2>1, <3>1, <3>2, ViewFields
    <3>4. \E res \in Contract!ProcessResults(View) : View' = res.tr /\ "ok" = res.ec
      BY <1>4, <3>3, ContractProcessed
    <3>5. ProcessView' = "ok"
      BY <1>3, <2>1
    <3> QED BY <3>4, <3>5
  <2>2. CASE /\ procEc' \in {"error", "aborted"}
             /\ procEc' = "aborted" => ~t.running
             /\ t' = t \/ t' = Soiled(t)
    <3>1. /\ t'.open = t.open /\ t'.running = t.running /\ t'.used = t.used
          /\ t'.kind = t.kind /\ t'.ready = t.ready /\ t'.extra = t.extra
          /\ t'.dirty = t.dirty \/ t'.dirty
      BY <1>1, <2>2 DEF Members, Soiled
    <3>2. Connection' = Connection /\ Tunnel' = Tunnel
      BY <1>2, <3>1 DEF Connection, Tunnel
    <3>3. /\ View'.open = View.open /\ View'.running = View.running
          /\ View'.proxied = View.proxied /\ View'.used = View.used
          /\ View'.extra = View.extra
          /\ View'.conn = View.conn /\ (View'.dirty = View.dirty \/ View'.dirty)
          /\ procEc' = "aborted" => ~View.running
      BY <2>2, <3>1, <3>2, ViewFields
    <3>4. \E res \in Contract!ProcessResults(View) : View' = res.tr /\ procEc' = res.ec
      BY <1>4, <2>2, <3>3, ContractProcessFails
    <3> QED BY <1>3, <3>4
  <2> QED BY <2>1, <2>2, ProcessAnswer DEF Answers
<1> QED BY <1>3, <1>5 DEF Contract!Processed, View, ConnectView, ProcessView, CloseView

\* A timer of the stream fired: the socket is lost under whoever had it timed.
LEMMA StreamImplements ==
    ASSUME Ordered, TypeOK', StreamStep
    PROVE  Contract!Drop \/ UNCHANGED ContractVars
<1>1. TypeOK /\ Owned /\ Order /\ t \in Members /\ "read" \in Slots
  BY Typed DEF Ordered, Slots
<1>2. /\ UNCHANGED <<conn, proc, close, connEc, procEc>>
      /\ t' \in {t, [t EXCEPT !.open = FALSE]}
  BY <1>1, StreamAlone DEF callerVars
<1>3. /\ ConnectView' = ConnectView /\ ProcessView' = ProcessView
      /\ CloseView' = CloseView
  BY <1>2 DEF ConnectView, ProcessView, CloseView
<1>4. /\ t'.running = t.running /\ t'.dirty = t.dirty /\ t'.used = t.used
      /\ t'.extra = t.extra
      /\ t'.kind = t.kind /\ t'.ready = t.ready
      /\ t'.open = t.open \/ ~t'.open
  BY <1>1, <1>2 DEF Members
<1>5. Connection' = Connection /\ Tunnel' = Tunnel
  BY <1>2, <1>4 DEF Connection, Tunnel
<1>6. View \in Contract!Transport /\ View' \in Contract!Transport
  BY <1>1, ViewFields
<1>7. CASE t'.open = t.open
  <2>1. View' = View
    BY <1>4, <1>5, <1>6, <1>7, ViewFields, SameView
  <2> QED BY <1>3, <2>1 DEF ContractVars
<1>8. CASE t'.open # t.open
  <2>1. t.open /\ ~t'.open
    BY <1>1, <1>2, <1>8 DEF Members
  <2>2. PICK s \in Slots : io[s].state # "free"
    <3>1. t' # t
      BY <1>8
    <3> QED BY <1>1, <3>1, StreamSlots
  <2>3. \/ conn # "idle" \/ proc # "idle"
        \/ \E k \in Closes : close[k] \in {"notifying", "awaiting"}
    <3>1. io[s].owner # "none" /\ io[s].owner \in Owners
      BY <1>1, <2>2, Typed DEF Owned, Operations
    <3> QED BY <1>1, <3>1 DEF Owned, Owners, ConnectUses
  <2>4. \/ "pending" \in {ConnectView, ProcessView}
        \/ \E k \in Closes : CloseView[k] = "closing"
    BY <2>3 DEF ConnectView, ProcessView, CloseView
  <2> DEFINE w == Contract!Dropped(View)
  <2>5. /\ w \in Contract!Transport /\ ~w.open /\ w.conn = View.conn
        /\ w.running = View.running /\ w.dirty = View.dirty
        /\ w.used = View.used /\ w.proxied = View.proxied /\ w.extra = View.extra
    BY <1>6, ContractSteps
  <2>6. /\ ~View'.open /\ View'.conn = View.conn /\ View'.running = View.running
        /\ View'.dirty = View.dirty /\ View'.used = View.used
        /\ View'.proxied = View.proxied /\ View'.extra = View.extra /\ View.open
    BY <1>4, <1>5, <2>1, ViewFields
  <2> HIDE DEF w
  <2>7. View'.open = w.open
    BY <1>6, <2>5, <2>6 DEF Contract!Transport
  <2>8. View' = w
    BY <1>6, <2>5, <2>6, <2>7, SameView
  <2>9. View' = Contract!Dropped(View) /\ View.open
    BY <2>6, <2>8 DEF w
  <2> QED BY <1>3, <2>4, <2>9
             DEF Contract!Drop, View, ConnectView, ProcessView, CloseView
<1> QED BY <1>7, <1>8

\* The stages of a close that its caller tells apart.
Stage(pc) == CASE pc \in {"idle", "done"} -> pc
               [] pc = "posted" -> "close_posted"
               [] OTHER -> "closing"

LEMMA CloseStages ==
    ASSUME TypeOK, NEW k \in Closes, NEW pc, close' = [close EXCEPT ![k] = pc]
    PROVE  /\ CloseView' = [CloseView EXCEPT ![k] = Stage(pc)]
           /\ CloseView[k] = Stage(close[k])
<1>1. close \in [Closes -> CloseState]
  BY Typed
<1>2. CloseView = [x \in Closes |-> Stage(close[x])]
  BY DEF CloseView, Stage
<1>3. CloseView' = [x \in Closes |-> Stage(close'[x])]
  BY DEF CloseView, Stage
<1> HIDE DEF Stage
<1>4. \A x \in Closes : close'[x] = IF x = k THEN pc ELSE close[x]
  BY <1>1
<1> QED BY <1>2, <1>3, <1>4

\* async_close begins, and ends at once unless it is graceful.
LEMMA CloseImplements ==
    ASSUME Ordered, TypeOK', NEW k \in Closes, MayClose(k), NEW gr \in BOOLEAN,
           CloseCall(k, gr)
    PROVE  Contract!Close(k)
<1>1. TypeOK /\ Order /\ t \in Members
  BY Typed DEF Ordered
<1>2. close[k] = "idle" /\ UNCHANGED <<conn, proc, connEc, procEc>>
  BY <1>1, CloseCallAlone
<1>3. ConnectView' = ConnectView /\ ProcessView' = ProcessView
  BY <1>2 DEF ConnectView, ProcessView
<1>4. View \in Contract!Transport /\ View' \in Contract!Transport
  BY <1>1, ViewFields
<1> DEFINE w == Contract!CloseCall(View)
<1>5. /\ w \in Contract!Transport /\ ~w.running /\ w.open = t.open
      /\ w.conn = Connection /\ w.dirty = t.dirty /\ w.used = t.used
      /\ w.proxied = Tunnel /\ w.extra = t.extra
  BY <1>4, ContractSteps, ViewFields
<1> HIDE DEF w
<1>6. CASE \/ /\ t.open
              /\ \E pc \in ShutdownStates : close' = [close EXCEPT ![k] = pc]
              /\ t' = [t EXCEPT !.running = FALSE]
           \/ /\ ~t.open
              /\ close' = [close EXCEPT ![k] = "posted"]
              /\ t' = [t EXCEPT !.running = FALSE]
  <2>1. /\ t'.open = t.open /\ ~t'.running /\ t'.used = t.used /\ t'.dirty = t.dirty
        /\ t'.kind = t.kind /\ t'.ready = t.ready /\ t'.extra = t.extra
    BY <1>1, <1>6 DEF Members
  <2>2. Connection' = Connection /\ Tunnel' = Tunnel
    BY <1>2, <2>1 DEF Connection, Tunnel
  <2>3. View'.running = w.running
    BY <1>4, <1>5, <2>1, ViewFields DEF Contract!Transport
  <2>4. View' = w
    <3>1. /\ View'.open = w.open /\ View'.dirty = w.dirty /\ View'.extra = w.extra
          /\ View'.used = w.used /\ View'.proxied = w.proxied /\ View'.conn = w.conn
      BY <1>5, <2>1, <2>2, ViewFields
    <3> QED BY <1>4, <1>5, <2>3, <3>1, SameView
  <2>5. CloseView' = [CloseView EXCEPT ![k] = Contract!CloseState(View)]
    <3>1. CASE t.open
      <4>1. PICK pc \in ShutdownStates : close' = [close EXCEPT ![k] = pc]
        BY <1>6, <3>1
      <4>2. Stage(pc) = "closing"
        BY <4>1 DEF ShutdownStates, Stage
      <4>3. Contract!CloseState(View) = "closing"
        BY <3>1, ViewFields DEF Contract!CloseState
      <4> QED BY <1>1, <4>1, <4>2, <4>3, CloseStages
    <3>2. CASE ~t.open
      <4>1. close' = [close EXCEPT ![k] = "posted"] /\ Stage("posted") = "close_posted"
        BY <1>6, <3>2 DEF Stage
      <4>2. Contract!CloseState(View) = "close_posted"
        BY <3>2, ViewFields DEF Contract!CloseState
      <4> QED BY <1>1, <4>1, <4>2, CloseStages
    <3> QED BY <3>1, <3>2
  <2>6. CloseView[k] = "idle"
    BY <1>2 DEF CloseView
  <2>7. View' = Contract!CloseCall(View)
    BY <2>4 DEF w
  <2> QED BY <1>3, <2>5, <2>6, <2>7
             DEF Contract!Close, View, ConnectView, ProcessView, CloseView
<1>7. CASE t.open /\ CloseEnds(k, Cancel(io), [t EXCEPT !.running = FALSE])
  <2> DEFINE u == [t EXCEPT !.running = FALSE]
  <2>1. t' = IF Tunnel THEN Reset(u) ELSE u
    BY <1>7 DEF CloseEnds
  <2>2. /\ ~t'.running /\ t'.kind = t.kind
        /\ t'.open = (~Tunnel /\ t.open) /\ t'.used = (~Tunnel /\ t.used)
        /\ t'.dirty = (~Tunnel /\ t.dirty) /\ t'.ready = (~Tunnel /\ t.ready)
        /\ t'.extra = (~Tunnel /\ t.extra)
    BY <1>1, <2>1 DEF Members, Reset
  <2>3. Tunnel => conn = "idle"
    BY DEF MayClose, Idle
  <2>4. /\ Tunnel' = Tunnel
        /\ Connection' = IF Tunnel /\ Connection = "linked" THEN "none" ELSE Connection
    <3>1. Tunnel' = Tunnel
      BY <2>2 DEF Tunnel
    <3>2. CASE Tunnel
      BY <1>2, <2>2, <2>3, <3>1, <3>2 DEF Connection
    <3>3. CASE ~Tunnel
      <4>1. t'.ready = t.ready
        BY <1>1, <2>1, <3>3 DEF Members
      <4> QED BY <1>2, <3>1, <3>3, <4>1 DEF Connection
    <3> QED BY <3>1, <3>2, <3>3
  <2> DEFINE x == Contract!CloseEnd(w, "close_posted")
  <2>5. /\ x \in Contract!Transport
        /\ x.open = (~w.proxied /\ w.open)
        /\ x.conn = IF w.proxied /\ w.conn = "linked" THEN "none" ELSE w.conn
        /\ x.running = w.running /\ x.proxied = w.proxied
        /\ x.dirty = (~w.proxied /\ w.dirty) /\ x.extra = (~w.proxied /\ w.extra)
        /\ x.used = (~w.proxied /\ w.used)
    BY <1>5, ContractClose
  <2> HIDE DEF x
  <2>6. View'.running = x.running
    BY <1>4, <1>5, <2>2, <2>5, ViewFields DEF Contract!Transport
  <2>7. View' = x
    BY <1>4, <1>5, <2>2, <2>4, <2>5, <2>6, ViewFields, SameView
  <2>8. CloseView' = [CloseView EXCEPT ![k] = "done"]
    <3>1. close' = [close EXCEPT ![k] = "done"] /\ Stage("done") = "done"
      BY <1>7 DEF CloseEnds, Stage
    <3> QED BY <1>1, <3>1, CloseStages
  <2>9. CloseView[k] = "idle" /\ View.open
    BY <1>2, <1>7, ViewFields DEF CloseView
  <2>10. View' = Contract!CloseEnd(Contract!CloseCall(View), "close_posted")
    BY <2>7 DEF w, x
  <2> QED BY <1>3, <2>8, <2>9, <2>10
             DEF Contract!Close, View, ConnectView, ProcessView, CloseView
<1> QED BY <1>6, <1>7 DEF CloseCall

\* A stage of async_close that its caller does not see, or its end.
LEMMA ClosingImplements ==
    ASSUME Ordered, TypeOK', NEW k \in Closes, CloseStep(k)
    PROVE  Contract!CloseDone(k) \/ UNCHANGED ContractVars
<1>1. TypeOK /\ Order /\ t \in Members
  BY Typed DEF Ordered
<1>2. close[k] \notin {"idle", "done"} /\ UNCHANGED <<conn, proc, connEc, procEc>>
  BY <1>1, CloseAlone DEF callerVars
<1>3. ConnectView' = ConnectView /\ ProcessView' = ProcessView
  BY <1>2 DEF ConnectView, ProcessView
<1>4. View \in Contract!Transport /\ View' \in Contract!Transport
  BY <1>1, ViewFields
<1>5. CASE SendNotify(k) \/ NotifySent(k) \/ AwaitNotify(k)
  <2>1. /\ t' = t /\ close[k] \in {"notify", "notifying", "await"}
        /\ \E pc \in {"notifying", "await", "awaiting"} :
              close' = [close EXCEPT ![k] = pc]
    BY <1>5 DEF SendNotify, NotifySent, AwaitNotify
  <2>2. PICK pc \in {"notifying", "await", "awaiting"} : close' = [close EXCEPT ![k] = pc]
    BY <2>1
  <2>3. Stage(pc) = "closing" /\ Stage(close[k]) = "closing"
    BY <2>1 DEF Stage
  <2>4. /\ CloseView' = [CloseView EXCEPT ![k] = "closing"] /\ CloseView[k] = "closing"
    BY <1>1, <2>2, <2>3, CloseStages
  <2>5. CloseView' = CloseView
    BY <2>4 DEF CloseView
  <2>6. View' = View
    BY <1>2, <2>1 DEF View, Connection, Tunnel
  <2> QED BY <1>3, <2>5, <2>6 DEF ContractVars
<1>6. ASSUME NEW pc \in {"closing", "close_posted"}, NEW ops, NEW u \in Members,
             CloseEnds(k, ops, u), Stage(close[k]) = pc,
             u.running = t.running, u.dirty = t.dirty, u.extra = t.extra,
             u.used = t.used, u.kind = t.kind,
             u.open = (pc = "close_posted" /\ t.open),
             u.ready = (pc = "close_posted" /\ t.ready)
      PROVE  Contract!CloseDone(k)
  <2>1. t' = IF Tunnel THEN Reset(u) ELSE u
    BY <1>6 DEF CloseEnds
  <2> DEFINE shut == Tunnel \/ pc = "closing"
  <2>2. /\ t'.running = t.running /\ t'.kind = t.kind
        /\ t'.open = (~shut /\ t.open) /\ t'.ready = (~shut /\ t.ready)
        /\ t'.used = (~Tunnel /\ t.used) /\ t'.dirty = (~Tunnel /\ t.dirty)
        /\ t'.extra = (~Tunnel /\ t.extra)
    BY <1>1, <1>6, <2>1 DEF Members, Reset
  <2>3. Tunnel => conn = "idle" /\ proc = "idle"
    BY <1>1, <1>2 DEF Order, TunnelAlone, ClosingStopped, Closing
  <2>4. Tunnel' = Tunnel
    BY <2>2 DEF Tunnel
  <2>5. Connection' = IF shut /\ Connection = "linked" THEN "none" ELSE Connection
    <3>1. CASE shut
      BY <1>2, <2>2, <3>1 DEF Connection
    <3>2. CASE ~shut
      <4>1. t'.ready = t.ready
        BY <1>1, <2>2, <3>2 DEF Members
      <4> QED BY <1>2, <3>2, <4>1 DEF Connection
    <3> QED BY <3>1, <3>2
  <2> DEFINE w == Contract!CloseEnd(View, pc)
  <2>6. /\ w \in Contract!Transport
        /\ w.open = (~shut /\ t.open)
        /\ w.conn = IF shut /\ Connection = "linked" THEN "none" ELSE Connection
        /\ w.running = t.running /\ w.proxied = Tunnel
        /\ w.dirty = (~Tunnel /\ t.dirty) /\ w.used = (~Tunnel /\ t.used)
        /\ w.extra = (~Tunnel /\ t.extra)
    BY <1>4, ContractClose, ViewFields
  <2> HIDE DEF w, shut
  <2>7. View' = w
    BY <1>4, <2>2, <2>4, <2>5, <2>6, ViewFields, SameView
  <2>8. CloseView[k] = pc /\ CloseView' = [CloseView EXCEPT ![k] = "done"]
    <3>1. close' = [close EXCEPT ![k] = "done"] /\ Stage("done") = "done"
      BY <1>6 DEF CloseEnds, Stage
    <3>2. CloseView' = [CloseView EXCEPT ![k] = Stage("done")]
      BY <1>1, <3>1, CloseStages
    <3>3. CloseView[k] = Stage(close[k])
      BY <1>1, <3>1, CloseStages
    <3> QED BY <1>6, <3>1, <3>2, <3>3
  <2>9. View.proxied => ProcessView # "pending" /\ View.conn # "connecting"
    <3>1. Tunnel => ProcessView # "pending" /\ Connection # "connecting"
      BY <1>1, <2>3, Typed DEF ProcessView, Connection
    <3> QED BY <3>1, ViewFields
  <2>10. View' = Contract!CloseEnd(View, CloseView[k])
    BY <2>7, <2>8 DEF w
  <2>11. CloseView[k] \in {"closing", "close_posted"}
    BY <1>6, <2>8
  <2> QED BY <1>3, <2>8, <2>9, <2>10, <2>11
             DEF Contract!CloseDone, View, ConnectView, ProcessView, CloseView
<1>7. CASE PostedDone(k)
  <2>1. CloseEnds(k, io, t) /\ Stage(close[k]) = "close_posted"
    BY <1>7 DEF PostedDone, Stage
  <2> QED BY <1>1, <1>6, <2>1 DEF Members
<1>8. CASE TcpCloseDone(k) \/ SslCloseDone(k)
  <2>1. Stage(close[k]) = "closing"
    BY <1>8 DEF TcpCloseDone, SslCloseDone, Stage
  <2>2. PICK ops : CloseEnds(k, ops, SocketClosed)
    BY <1>8 DEF TcpCloseDone, SslCloseDone
  <2>3. /\ SocketClosed \in Members /\ SocketClosed.running = t.running
        /\ SocketClosed.dirty = t.dirty /\ SocketClosed.used = t.used
        /\ SocketClosed.kind = t.kind /\ SocketClosed.open = FALSE
        /\ SocketClosed.ready = FALSE /\ SocketClosed.extra = t.extra
    BY <1>1 DEF Members, SocketClosed
  <2> QED BY <1>6, <2>1, <2>2, <2>3
<1> QED BY <1>5, <1>7, <1>8 DEF CloseStep

LEMMA StepImplements ==
    ASSUME Ordered, Answers, Fresh, TypeOK', [Next]_vars
    PROVE  [Contract!Next]_(Contract!vars)
<1>1. TypeOK
  BY DEF Ordered
<1>2. UNCHANGED ContractVars => UNCHANGED Contract!vars
  BY DEF ContractVars, Contract!vars, View, ConnectView, ProcessView, CloseView
<1>3. CASE MayConnect /\ ConnectCall
  BY <1>1, <1>3, ConnectImplements DEF Contract!Next
<1>4. CASE ConnectStep
  BY <1>2, <1>4, ConnectingImplements, ConnectedImplements DEF Contract!Next
<1>5. CASE MayProcess /\ ProcessCall
  BY <1>1, <1>5, ProcessImplements DEF Contract!Next, MayProcess, Idle
<1>6. CASE ProcessStep
  BY <1>2, <1>6, ProcessingImplements, ProcessedImplements DEF Contract!Next
<1>7. ASSUME NEW k \in Closes, MayClose(k), NEW gr \in BOOLEAN, CloseCall(k, gr)
      PROVE  Contract!Next
  BY <1>7, CloseImplements DEF Contract!Next
<1>8. ASSUME NEW k \in Closes, CloseStep(k)
      PROVE  Contract!Next \/ UNCHANGED Contract!vars
  BY <1>2, <1>8, ClosingImplements DEF Contract!Next
<1>9. CASE StreamStep
  BY <1>2, <1>9, StreamImplements DEF Contract!Next
<1>10. CASE UNCHANGED vars
  <2>1. UNCHANGED ContractVars
    BY <1>10 DEF vars, callerVars, ContractVars, View, Connection, Tunnel, ConnectView,
                 ProcessView, CloseView
  <2> QED BY <1>2, <2>1
<1> QED BY <1>3, <1>4, <1>5, <1>6, <1>7, <1>8, <1>9, <1>10 DEF Next

LEMMA InitImplements == Init => Contract!Init
<1> SUFFICES ASSUME Init PROVE Contract!Init
  OBVIOUS
<1>1. /\ t.running = TRUE /\ t.open = FALSE /\ t.ready = FALSE
      /\ t.dirty = FALSE /\ t.extra = FALSE /\ t.used = FALSE
      /\ conn = "idle" /\ proc = "idle" /\ connEc = "none" /\ procEc = "none"
      /\ close = [k \in Closes |-> "idle"]
  BY DEF Init
<1>2. Connection = "none" /\ Tunnel \in BOOLEAN
  BY <1>1 DEF Connection, Tunnel
<1>3. View = Contract!NewTransport(Tunnel)
  BY <1>1, <1>2 DEF View, Contract!NewTransport
<1>4. /\ ConnectView = "none" /\ ProcessView = "none"
      /\ CloseView = [k \in Closes |-> "idle"]
  BY <1>1 DEF ConnectView, ProcessView, CloseView
<1> QED BY <1>2, <1>3, <1>4
           DEF Contract!Init, View, ConnectView, ProcessView, CloseView

(***************************************************************************)
(* The transport answers its caller as the session was told it would, for  *)
(* every kind of transport and any number of closes, in every order of     *)
(* completions, timeouts and closes.                                       *)
(***************************************************************************)
THEOREM TransportKeepsContract == Spec => ImplementsContract
<1>1. Init => Fresh
  BY DEF Init, Fresh
<1>2. Ordered /\ Fresh /\ [Next]_vars => Fresh'
  BY FreshStep
<1>3. Ordered /\ Answers /\ Fresh /\ Ordered' /\ [Next]_vars
         => [Contract!Next]_(Contract!vars)
  BY StepImplements DEF Ordered
<1> QED BY <1>1, <1>2, <1>3, InitImplements, AnswersInvariant, PTL
           DEF Spec, ImplementsContract, Contract!Spec

=============================================================================
