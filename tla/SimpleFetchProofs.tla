------------------------- MODULE SimpleFetchProofs -------------------------
(***************************************************************************)
(* Proofs about SimpleFetch, for any URL.  The request is sent whatever    *)
(* the connect answered, so its steps are not all steps a session makes:   *)
(* the lemmas about Transport are used step by step.                       *)
(***************************************************************************)
EXTENDS SimpleFetch, TransportRefinement

\* A fetch's transport is no tunnel and is never closed: it runs to the end.
Unclosed == ~Tunnel /\ t.running /\ \A k \in Closes : close[k] = "idle"

Posted == {"posted", "relayed", "done"}

\* What the fetch has asked of its transport, and what it knows.
Stages ==
    /\ fetch \in {"idle", "thrown", "dispatched"} =>
          /\ conn = "idle" /\ proc = "idle" /\ calls = 0
          /\ connEc = "none" /\ procEc = "none" /\ ~t.ready
    /\ fetch = "connecting" => proc = "idle" /\ procEc = "none" /\ calls = 1
    /\ fetch = "processing" =>
          conn = "idle" /\ (proc = "idle" => procEc # "none")
    /\ IF fetch \in Posted
       THEN conn = "idle" /\ proc = "idle" /\ procEc # "none" /\ answer = <<procEc>>
       ELSE answer = <<>>

\* A connection that can carry requests was reported, and only a response over
\* it is a success.
Earned == /\ t.ready => connEc = "ok"
          /\ procEc = "ok" => t.ready /\ t.used

FetchTypes ==
    /\ url \in [scheme : Schemes, port : {<<>>} \cup {<<p>> : p \in Ports},
                context : BOOLEAN]
    /\ fetch \in {"idle", "thrown", "dispatched", "connecting", "processing"} \cup Posted

FetchInv == /\ Ordered /\ Disarmed /\ Sound
            /\ FetchTypes /\ Unclosed /\ Stages /\ Earned

\* The request is sent over whatever the connect left, an open socket or none.
LEMMA RequestBegins ==
    ASSUME Ordered, Sound, t.running, Idle, calls < MaxCalls, ProcessCall
    PROVE  Ordered' /\ Sound' /\ Disarmed'
<1>1. /\ TypeOK /\ Owned /\ Order /\ t \in Members /\ io \in Operations
      /\ "read" \in Slots /\ "write" \in Slots
  BY Typed DEF Ordered, Slots
<1>2. /\ conn = "idle" /\ proc' = "writing" /\ procEc' = "none" /\ closed' = FALSE
      /\ armed' = ExpiresAfter(io) /\ io' = BeginProcess(io, armed', "write")
      /\ calls' = calls + 1 /\ UNCHANGED <<t, conn, close, connEc>>
  BY DEF Idle, ProcessCall
<1>3. armed' \in Timers /\ io' \in Operations
  <2>1. armed' \in Timers
    BY <1>1, <1>2, StreamTyped
  <2> QED BY <1>1, <1>2, <2>1, EndsTyped
<1>4. TypeOK'
  <2>1. calls' \in 0 .. MaxCalls
    BY <1>1, <1>2, Typed, CallsAssumption
  <2> QED BY <1>1, <1>2, <1>3, <2>1, Typed
          DEF TypeOK, Members, Timers, Operations, ConnectState, CloseState
<1>5. \A s \in Slots : io[s].owner = "none" /\ io[s].state = "free"
  BY <1>1, IdleFree
<1>6. /\ io'["write"].owner = "process"
      /\ io'["write"].state = IF t.open /\ t.ready THEN "pending" ELSE "error"
      /\ io'["read"] = io["read"]
  BY <1>1, <1>2 DEF BeginProcess, Begin, Operations, Slots
<1>7. Owned'
  BY <1>1, <1>2, <1>5, <1>6, ClosesAssumption DEF Owned, Idle, Slots
<1>8. Order'
  BY <1>1, <1>2 DEF Order, OneOperation, ShutdownAlone, ClosingStopped,
                    ConnectingNotReady, ProxyOnly, TunnelAlone, Closing, Tunnel, Idle
<1>9. Sound'
  BY <1>2, <1>5, <1>6 DEF Sound, Slots
<1>10. Disarmed'
  BY <1>2 DEF Disarmed, Idle
<1> QED BY <1>4, <1>7, <1>8, <1>9, <1>10 DEF Ordered

\* The steps a fetch shares with every caller of a transport.
LEMMA SharedStep ==
    ASSUME Ordered, Disarmed, Sound, [Next]_vars
    PROVE  Ordered' /\ Disarmed' /\ Sound'
BY TypeStep, OwnedStep, OrderStep, DisarmedStep, SoundStep DEF Ordered

LEMMA TransportSteps ==
    (ConnectStep \/ ProcessStep \/ StreamStep) => Next
BY DEF Next

-----------------------------------------------------------------------------
\* The fetch is called, and calls its transport.
LEMMA LaunchStep == ASSUME FetchInv, Launch PROVE FetchInv'
<1>1. UNCHANGED <<vars, url, answer>> /\ fetch = "idle"
      /\ fetch' \in {"thrown", "dispatched"}
  BY DEF Launch
<1>2. Ordered' /\ Disarmed' /\ Sound'
  BY <1>1, SharedStep DEF FetchInv
<1>3. Unclosed' /\ Earned'
  BY <1>1 DEF FetchInv, Unclosed, Earned, vars, callerVars, Tunnel
<1>4. Stages' /\ FetchTypes'
  BY <1>1 DEF FetchInv, Stages, FetchTypes, Posted, vars, callerVars
<1> QED BY <1>2, <1>3, <1>4 DEF FetchInv

LEMMA FetchConnectsStep == ASSUME FetchInv, FetchConnects PROVE FetchInv'
<1>1. /\ ConnectCall /\ fetch = "dispatched" /\ fetch' = "connecting"
      /\ UNCHANGED <<url, endpoint, answer>>
  BY DEF FetchConnects
<1>2. /\ conn = "idle" /\ proc = "idle" /\ calls = 0 /\ procEc = "none" /\ ~t.ready
      /\ t.running /\ answer = <<>> /\ \A k \in Closes : close[k] = "idle"
  BY <1>1 DEF FetchInv, Stages, Unclosed, Posted
<1>3. MayConnect
  BY <1>2, EnoughCalls, CallsAssumption DEF MayConnect, Idle, Closing
<1>4. Ordered' /\ Disarmed' /\ Sound'
  BY <1>1, <1>3, SharedStep DEF FetchInv, Next
<1>5. /\ t' = [t EXCEPT !.running = TRUE] /\ conn' = "resolving"
      /\ procEc' = "none" /\ calls' = calls + 1
      /\ UNCHANGED <<proc, close>>
  BY <1>1, <1>2 DEF ConnectCall, Resets
<1>6. t \in Members
  BY Typed DEF FetchInv, Ordered
<1>7. Unclosed' /\ Earned'
  BY <1>2, <1>5, <1>6 DEF FetchInv, Unclosed, Earned, Tunnel, Members
<1>8. Stages' /\ FetchTypes'
  BY <1>1, <1>2, <1>5 DEF FetchInv, Stages, FetchTypes, Posted
<1> QED BY <1>4, <1>7, <1>8 DEF FetchInv

LEMMA FetchConnectedStep == ASSUME FetchInv, FetchConnected PROVE FetchInv'
<1>1. /\ ProcessCall /\ fetch = "connecting" /\ fetch' = "processing"
      /\ conn = "idle" /\ UNCHANGED <<url, endpoint, answer>>
  BY DEF FetchConnected
<1>2. /\ proc = "idle" /\ calls = 1 /\ t.running /\ answer = <<>>
      /\ \A k \in Closes : close[k] = "idle"
  BY <1>1 DEF FetchInv, Stages, Unclosed, Posted
<1>3. Idle /\ calls < MaxCalls
  BY <1>1, <1>2, EnoughCalls, CallsAssumption DEF Idle, Closing
<1>4. Ordered' /\ Disarmed' /\ Sound'
  BY <1>1, <1>2, <1>3, RequestBegins DEF FetchInv
<1>5. /\ UNCHANGED <<t, conn, close, connEc>> /\ proc' = "writing" /\ procEc' = "none"
  BY <1>1, <1>2 DEF ProcessCall
<1>6. Unclosed' /\ Earned'
  BY <1>5 DEF FetchInv, Unclosed, Earned, Tunnel
<1>7. Stages' /\ FetchTypes'
  BY <1>1, <1>2, <1>5 DEF FetchInv, Stages, FetchTypes, Posted
<1> QED BY <1>4, <1>6, <1>7 DEF FetchInv

\* The fetch answers its caller.
LEMMA FetchAnswersStep ==
    ASSUME FetchInv, FetchProcessed \/ HandlerCalled
    PROVE  FetchInv'
<1>1. UNCHANGED <<vars, url>>
  BY DEF FetchProcessed, HandlerCalled
<1>2. Ordered' /\ Disarmed' /\ Sound'
  BY <1>1, SharedStep DEF FetchInv
<1>3. Unclosed' /\ Earned'
  BY <1>1 DEF FetchInv, Unclosed, Earned, vars, callerVars, Tunnel
<1>4. Stages' /\ FetchTypes'
  BY <1>1 DEF FetchInv, Stages, FetchTypes, Posted, vars, callerVars,
              FetchProcessed, HandlerCalled
<1> QED BY <1>2, <1>3, <1>4 DEF FetchInv

\* The transport works for the fetch.
LEMMA WorkStep ==
    ASSUME FetchInv, ConnectStep \/ ProcessStep \/ StreamStep, UNCHANGED fetchVars
    PROVE  FetchInv'
<1>1. /\ TypeOK /\ Owned /\ Order /\ t \in Members
      /\ "read" \in Slots /\ "write" \in Slots
  BY Typed DEF FetchInv, Ordered, Slots
<1>2. Ordered' /\ Disarmed' /\ Sound'
  BY SharedStep, TransportSteps DEF FetchInv
<1>3. FetchTypes'
  BY DEF FetchInv, FetchTypes, fetchVars
<1>4. CASE ConnectStep
  <2>1. /\ conn # "idle" /\ UNCHANGED <<proc, close, procEc, calls>>
        /\ t'.kind = t.kind /\ t'.running = t.running /\ ~t.ready
    BY <1>1, <1>4, ConnectAlone DEF Order, ConnectingNotReady
  <2>2. t'.ready => connEc' = "ok"
    BY <1>1, <1>4, <2>1
       DEF ConnectStep, ResolveDone, TcpConnectDone, ConnectRequestSent, ProxyReplied,
           HelloSent, HandshakeDone, ConnectEnds, ConnectGoesOn, Members, Surplus,
           Established
  <2>3. fetch = "connecting" /\ procEc = "none"
    BY <2>1 DEF FetchInv, Stages, FetchTypes
  <2>4. Stages'
    BY <2>1, <2>3 DEF FetchInv, Stages, Posted, fetchVars
  <2>5. Unclosed' /\ Earned'
    BY <2>1, <2>2, <2>3 DEF FetchInv, Unclosed, Earned, Tunnel
  <2> QED BY <1>2, <1>3, <2>4, <2>5 DEF FetchInv
<1>5. CASE ProcessStep
  <2>1. /\ proc # "idle" /\ UNCHANGED <<conn, close, connEc, calls>>
        /\ t' \in {t, Soiled(t), [Surplus(t) EXCEPT !.used = TRUE]}
    BY <1>1, <1>5, ProcessAlone
  <2>2. /\ t'.kind = t.kind /\ t'.running = t.running /\ t'.ready = t.ready
        /\ t.used => t'.used
    BY <1>1, <2>1 DEF Members, Soiled, Surplus
  <2>3. \/ proc' = "idle" /\ procEc' # "none" /\ (procEc' = "ok" => t'.ready /\ t'.used)
        \/ proc' # "idle" /\ procEc' = procEc
    <3>1. CASE proc' = "idle"
      BY <1>1, <1>5, <3>1, ProcessAnswer DEF FetchInv, Members, Surplus
    <3>2. CASE proc' # "idle"
      BY <1>5, <3>2
         DEF ProcessStep, WriteDone, ReadSome, ReadDone, ProcessEnds, callerVars
    <3> QED BY <3>1, <3>2
  <2>4. fetch = "processing"
    BY <2>1 DEF FetchInv, Stages, FetchTypes
  <2>5. Stages'
    BY <2>1, <2>3, <2>4 DEF FetchInv, Stages, Posted, fetchVars
  <2>6. Unclosed' /\ Earned'
    BY <2>1, <2>2, <2>3 DEF FetchInv, Unclosed, Earned, Tunnel
  <2> QED BY <1>2, <1>3, <2>5, <2>6 DEF FetchInv
<1>6. CASE StreamStep
  <2>1. /\ UNCHANGED <<conn, proc, close, callerVars>>
        /\ t' \in {t, [t EXCEPT !.open = FALSE]}
    BY <1>1, <1>6, StreamAlone
  <2>2. /\ t'.kind = t.kind /\ t'.running = t.running /\ t'.ready = t.ready
        /\ t'.used = t.used
    BY <1>1, <2>1 DEF Members
  <2>3. Stages'
    BY <2>1, <2>2 DEF FetchInv, Stages, Posted, fetchVars, callerVars
  <2>4. Unclosed' /\ Earned'
    BY <2>1, <2>2 DEF FetchInv, Unclosed, Earned, Tunnel, callerVars
  <2> QED BY <1>2, <1>3, <2>3, <2>4 DEF FetchInv
<1> QED BY <1>4, <1>5, <1>6

\* The inductive invariant: a fetch and the operation it waits for.
LEMMA FetchInvariant == FetchSpec => []FetchInv
<1>1. FetchInit => FetchInv
  <2> SUFFICES ASSUME FetchInit PROVE FetchInv
    OBVIOUS
  <2>1. Init /\ (Tunnel <=> t.kind = "tunnel")
    BY DEF FetchInit, Tunnel
  <2>2. /\ conn = "idle" /\ proc = "idle" /\ calls = 0 /\ connEc = "none"
        /\ procEc = "none" /\ t.running = TRUE /\ t.ready = FALSE
        /\ close = [k \in Closes |-> "idle"] /\ io = [s \in Slots |-> Free]
    BY <2>1 DEF Init
  <2>3. Ordered /\ Disarmed
    BY <2>1, InitEstablishes DEF Ordered
  <2>4. Sound
    BY <2>2 DEF Sound, Free
  <2>5. Unclosed
    BY <2>1, <2>2 DEF FetchInit, Unclosed
  <2>6. Stages /\ Earned /\ FetchTypes
    BY <2>2 DEF FetchInit, Stages, Earned, FetchTypes, Posted
  <2> QED BY <2>3, <2>4, <2>5, <2>6 DEF FetchInv
<1>2. FetchInv /\ [FetchNext]_allVars => FetchInv'
  <2> SUFFICES ASSUME FetchInv, [FetchNext]_allVars PROVE FetchInv'
    OBVIOUS
  <2>1. CASE UNCHANGED allVars
    <3>1. Ordered' /\ Disarmed' /\ Sound'
      BY <2>1, SharedStep DEF FetchInv, allVars
    <3> QED BY <2>1, <3>1 DEF FetchInv, allVars, vars, callerVars, fetchVars, Unclosed,
                              Stages, Earned, FetchTypes, Tunnel
  <2> QED BY <2>1, LaunchStep, FetchConnectsStep, FetchConnectedStep, FetchAnswersStep,
             WorkStep DEF FetchNext, FetchStep
<1> QED BY <1>1, <1>2, PTL DEF FetchSpec

(***************************************************************************)
(* A handler is told success only if the connection was made, its          *)
(* handshake done and a response read over it, although the fetch does not *)
(* look at what its connect answered.                                      *)
(***************************************************************************)
THEOREM OkIsConnected == FetchSpec => []OkMeansConnected
<1>1. FetchInv => OkMeansConnected
  BY DEF FetchInv, Stages, Earned, OkMeansConnected
<1> QED BY <1>1, FetchInvariant, PTL

(***************************************************************************)
(* When the handler is posted, and the transport destroyed with the        *)
(* operation, nothing of the transport is under way and no timer set.      *)
(***************************************************************************)
THEOREM DestroyedQuietly == FetchSpec => []DestroyedWhenQuiet
<1>1. ASSUME FetchInv, fetch \in Posted, NEW s \in Slots
      PROVE  Idle /\ ~Busy(io, s) /\ ~armed[s]
  <2>1. Idle
    BY <1>1 DEF FetchInv, Stages, Unclosed, Idle, Closing
  <2> QED BY <1>1, <2>1, IdleFree DEF FetchInv, Ordered, Unclosed, Disarmed, Busy
<1>2. FetchInv => DestroyedWhenQuiet
  BY <1>1 DEF DestroyedWhenQuiet, Posted, Slots
<1> QED BY <1>2, FetchInvariant, PTL

-----------------------------------------------------------------------------
(***************************************************************************)
(* The transport of a fetch under its contract.                            *)
(***************************************************************************)
Contracted == FetchInv /\ Answers /\ Fresh

\* A request sent after a connect that failed finds the buffer as it was made.
LEMMA RequestImplements ==
    ASSUME Contracted, FetchConnected
    PROVE  Contracted' /\ [Contract!Next]_(Contract!vars)
<1>1. /\ ProcessCall /\ fetch = "connecting" /\ conn = "idle"
      /\ proc = "idle" /\ procEc = "none" /\ t.running /\ ~Tunnel
  BY DEF Contracted, FetchInv, FetchConnected, Stages, Unclosed
<1>2. FetchInv'
  BY FetchConnectedStep DEF Contracted
<1>3. ~t.dirty
  BY <1>1 DEF Contracted, Answers, Clean
<1>4. closed' = FALSE /\ procEc' = "none" /\ UNCHANGED <<t, conn>>
  BY <1>1 DEF ProcessCall
<1>5. Answers' /\ Fresh'
  BY <1>2, <1>3, <1>4
     DEF Contracted, FetchInv, Answers, NotAnswered, ClosedStopped, Clean, Fresh, Tunnel
<1>6. Contract!Next
  BY <1>1, ProcessImplements DEF Contracted, FetchInv, Ordered, Contract!Next
<1> QED BY <1>2, <1>5, <1>6 DEF Contracted

\* Every other step of a fetch is one of Transport's, or leaves it alone.
LEMMA OtherStep ==
    ASSUME FetchInv, FetchNext, ~FetchConnected
    PROVE  [Next]_vars
<1>1. ASSUME FetchConnects PROVE Next
  <2>1. /\ ConnectCall /\ conn = "idle" /\ proc = "idle" /\ calls = 0
        /\ procEc = "none" /\ ~t.ready /\ \A k \in Closes : close[k] = "idle"
    BY <1>1 DEF FetchInv, FetchConnects, Stages, Unclosed
  <2>2. MayConnect
    BY <2>1, EnoughCalls, CallsAssumption DEF MayConnect, Idle, Closing
  <2> QED BY <2>1, <2>2 DEF Next
<1>2. Launch \/ FetchProcessed \/ HandlerCalled => UNCHANGED vars
  BY DEF Launch, FetchProcessed, HandlerCalled
<1> QED BY <1>1, <1>2, TransportSteps DEF FetchNext, FetchStep

\* Every step of a fetch keeps its invariant, and its transport in the contract.
LEMMA FetchImplements ==
    ASSUME Contracted, FetchInv', [FetchNext]_allVars
    PROVE  Contracted' /\ [Contract!Next]_(Contract!vars)
<1>1. CASE FetchConnected
  BY <1>1, RequestImplements
<1>2. CASE [Next]_vars
  <2>1. Ordered /\ Answers /\ Fresh /\ TypeOK'
    BY DEF Contracted, FetchInv, Ordered
  <2>2. Answers' /\ Fresh'
    BY <1>2, <2>1, SoundStep, RequestStep, CleanStep, FreshStep DEF Ordered, Answers
  <2>3. [Contract!Next]_(Contract!vars)
    BY <1>2, <2>1, StepImplements
  <2> QED BY <2>2, <2>3 DEF Contracted
<1>3. UNCHANGED allVars => UNCHANGED vars
  BY DEF allVars
<1> QED BY <1>1, <1>2, <1>3, OtherStep DEF Contracted

(***************************************************************************)
(* A fetch stays within the contract of its transport, although it sends   *)
(* its request over a connection it was told it does not have: whatever    *)
(* the connect left, the transport answers as its contract says.           *)
(***************************************************************************)
THEOREM FetchKeepsContract == FetchSpec => ImplementsContract
<1>1. FetchInit => Contract!Init /\ Answers /\ Fresh
  <2> SUFFICES ASSUME FetchInit PROVE Contract!Init /\ Answers /\ Fresh
    OBVIOUS
  <2>1. Init
    BY DEF FetchInit
  <2>2. Contract!Init
    BY <2>1, InitImplements
  <2>3. Answers /\ Fresh
    BY <2>1, InitAnswers DEF Init, Fresh
  <2> QED BY <2>2, <2>3
<1>2. FetchInv /\ FetchInv' /\ Answers /\ Fresh /\ [FetchNext]_allVars
         => Answers' /\ Fresh' /\ [Contract!Next]_(Contract!vars)
  BY FetchImplements DEF Contracted
<1> QED BY <1>1, <1>2, FetchInvariant, PTL
           DEF FetchSpec, ImplementsContract, Contract!Spec

-----------------------------------------------------------------------------
(***************************************************************************)
(* Ports.                                                                  *)
(***************************************************************************)
PortNumbers == 0 .. 2^16 - 1

\* Through a signed 16-bit integer and back.
LEMMA SignedAndBack == ASSUME NEW n \in PortNumbers PROVE UInt16(Int16(n)) = n
BY DEF PortNumbers, UInt16, Int16

LEMMA DefaultPortFits ==
    ASSUME NEW s \in DOMAIN DefaultPort PROVE DefaultPort[s] \in PortNumbers
BY DEF DefaultPort, PortNumbers

\* What is connected to, when to_endpoint does not throw.
LEMMA EndpointPort ==
    ASSUME FetchTypes, NEW secure, NEW e \in ToEndpoint(url, secure), e # <<>>
    PROVE  LET n == IF url.port # <<>> THEN url.port[1] ELSE DefaultPort[url.scheme] IN
           e = <<n>> /\ n \in PortNumbers
<1> DEFINE n == IF url.port # <<>> THEN url.port[1] ELSE DefaultPort[url.scheme]
<1>1. PICK p \in SafePort(url) : e = IF p = <<>> THEN <<>> ELSE <<UInt16(p[1])>>
  BY DEF ToEndpoint
<1>2. p # <<>> /\ e = <<UInt16(p[1])>>
  BY <1>1
<1>3. CASE url.port # <<>>
  <2>1. PICK q \in Ports : url.port = <<q>>
    BY <1>3 DEF FetchTypes
  <2>2. n = q /\ q \in PortNumbers
    <3>1. url.port[1] = q
      BY <2>1
    <3>2. Ports \subseteq PortNumbers
      BY PortsAssumption DEF PortNumbers
    <3> QED BY <1>3, <3>1, <3>2
  <2>3. p \in PortAsInt16(q)
    BY <1>1, <1>3, <2>1 DEF SafePort
  <2>4. p = <<Int16(q)>>
    BY <1>2, <2>3 DEF PortAsInt16
  <2> QED BY <1>2, <2>2, <2>4, SignedAndBack
<1>4. CASE url.port = <<>>
  <2>1. url.scheme \in DOMAIN DefaultPort /\ p = <<Int16(DefaultPort[url.scheme])>>
    BY <1>1, <1>2, <1>4 DEF SafePort
  <2>2. n = DefaultPort[url.scheme] /\ n \in PortNumbers
    BY <1>4, <2>1, DefaultPortFits
  <2> QED BY <1>2, <2>1, <2>2, SignedAndBack
<1> QED BY <1>3, <1>4

\* The endpoint is made once, from the URL.
PortInv == PortKept /\ (endpoint = <<>> \/ \E n \in PortNumbers : endpoint = <<n>>)

LEMMA PortInvariant == FetchSpec => []PortInv
<1>1. FetchInit => PortInv
  BY DEF FetchInit, PortInv, PortKept
<1>2. ASSUME FetchInv, PortInv, [FetchNext]_allVars PROVE PortInv'
  <2>1. CASE Launch
    <3>1. endpoint' \in ToEndpoint(url, Secured(url)) /\ url' = url
      BY <2>1 DEF Launch
    <3>2. CASE endpoint' = <<>>
      BY <3>2 DEF PortInv, PortKept
    <3>3. CASE endpoint' # <<>>
      <4> DEFINE n == IF url.port # <<>> THEN url.port[1] ELSE DefaultPort[url.scheme]
      <4>1. endpoint' = <<n>> /\ n \in PortNumbers
        BY <1>2, <3>1, <3>3, EndpointPort DEF FetchInv
      <4> HIDE DEF n
      <4>2. endpoint'[1] = n /\ \E m \in PortNumbers : endpoint' = <<m>>
        BY <4>1
      <4> QED BY <3>1, <4>2 DEF PortInv, PortKept, n
    <3> QED BY <3>2, <3>3
  <2>2. CASE UNCHANGED <<url, endpoint>>
    BY <1>2, <2>2 DEF PortInv, PortKept
  <2> QED BY <1>2, <2>1, <2>2
          DEF FetchNext, FetchStep, FetchConnects, FetchConnected, FetchProcessed,
              HandlerCalled, allVars, fetchVars
<1> QED BY <1>1, <1>2, FetchInvariant, PTL DEF FetchSpec

(***************************************************************************)
(* A URL's port survives the way through a signed 16-bit integer, whatever *)
(* port that is.                                                           *)
(***************************************************************************)
THEOREM PortIsKept == FetchSpec => []PortKept
<1>1. PortInv => PortKept
  BY DEF PortInv
<1> QED BY <1>1, PortInvariant, PTL

LEMMA ShortSequences ==
    ASSUME NEW S PROVE <<>> \in Seq(S) /\ \A x \in S : <<x>> \in Seq(S)
OBVIOUS

(***************************************************************************)
(* A fetch never leaves its types.                                         *)
(***************************************************************************)
THEOREM FetchTypesKept == FetchSpec => []FetchTypeOK
<1>1. ASSUME FetchInv, PortInv PROVE FetchTypeOK
  <2>1. endpoint \in Seq(0 .. 2^16 - 1)
    <3>1. endpoint \in Seq(PortNumbers)
      BY <1>1, ShortSequences DEF PortInv
    <3> QED BY <3>1 DEF PortNumbers
  <2>2. procEc \in {"none", "ok", "error", "aborted"} /\ TypeOK
    BY <1>1, Typed DEF FetchInv, Ordered
  <2>3. answer \in Seq({"ok", "error", "aborted"})
    <3>1. \/ answer = <<>>
          \/ answer = <<procEc>> /\ procEc \in {"ok", "error", "aborted"}
      BY <1>1, <2>2 DEF FetchInv, Stages
    <3> QED BY <3>1, ShortSequences
  <2>4. fetch \in {"idle", "thrown", "dispatched", "connecting", "processing",
                  "posted", "relayed", "done"}
    BY <1>1 DEF FetchInv, FetchTypes, Posted
  <2> QED BY <2>1, <2>2, <2>3, <2>4 DEF FetchTypeOK
<1> QED BY <1>1, FetchInvariant, PortInvariant, PTL

=============================================================================
