---------------------------- MODULE SimpleFetch ----------------------------
(***************************************************************************)
(* fetchpp::async_fetch without a client (async_get and async_post call    *)
(* it): simple_fetch_op connects a transport of its own, sends the request *)
(* whatever the connect answered, and posts the caller's handler.  Nobody  *)
(* closes that transport, it is destroyed with the operation.              *)
(***************************************************************************)
EXTENDS Transport, Integers, Sequences

CONSTANTS
    Schemes,    \* the schemes of the URLs
    Ports       \* the ports they may name

ASSUME PortsAssumption == Ports \subseteq 0 .. 2^16 - 1
\* One connect and one request.
ASSUME EnoughCalls == MaxCalls >= 2

VARIABLES
    url,        \* the request's URL, and whether the caller has a TLS context
    fetch,      \* where the fetch stands
    endpoint,   \* its endpoint's port, once it is known: <<port>>
    answer      \* the code its handler was given, <<>> before

fetchVars == <<url, fetch, endpoint, answer>>

-----------------------------------------------------------------------------
\* skyr's url::default_port (external); there are schemes without one.
DefaultPort == [http |-> 80, https |-> 443, ftp |-> 21, ws |-> 80, wss |-> 443]

\* Conversion to the integer types std::int16_t and std::uint16_t.
UInt16(n) == n % 2^16
Int16(n) == IF UInt16(n) < 2^15 THEN UInt16(n) ELSE UInt16(n) - 2^16

\* skyr's url::port<int16_t> (external): what does not fit is either converted
\* or refused.
PortAsInt16(p) == {<<Int16(p)>>} \cup (IF p < 2^15 THEN {} ELSE {<<>>})

\* safe_port: the port named or the scheme's; <<>> is the exception it throws.
SafePort(u) ==
    IF u.port # <<>> THEN PortAsInt16(u.port[1])
    ELSE IF u.scheme \in DOMAIN DefaultPort THEN {<<Int16(DefaultPort[u.scheme])>>}
    ELSE {<<>>}

IsSslInvolved(u) == u.scheme = "https"

\* Faulty variant: the endpoint keeps the signed value.
FaultyToEndpoint(u, secure) ==
    IF secure /\ u.scheme # "https" THEN {<<>>} ELSE SafePort(u)

\* to_endpoint: the constructor of base_endpoint takes an unsigned port.
ToEndpoint(u, secure) ==
    IF secure /\ u.scheme # "https" THEN {<<>>}
    ELSE {IF p = <<>> THEN <<>> ELSE <<UInt16(p[1])>> : p \in SafePort(u)}

\* Which async_fetch runs: a caller with a context gets TLS, another one what
\* the URL asks for.
Secured(u) == u.context \/ IsSslInvolved(u)

-----------------------------------------------------------------------------
FetchInit ==
    /\ Init
    /\ url \in [scheme : Schemes, port : {<<>>} \cup {<<p>> : p \in Ports},
                context : BOOLEAN]
    /\ t.kind = IF Secured(url) THEN "ssl" ELSE "tcp"
    /\ fetch = "idle"
    /\ endpoint = <<>>
    /\ answer = <<>>

\* async_fetch: the endpoint is made (or the exception thrown) in the caller's
\* context, then the operation is dispatched to its executor.
Launch ==
    /\ fetch = "idle"
    /\ endpoint' \in ToEndpoint(url, Secured(url))
    /\ fetch' = IF endpoint' = <<>> THEN "thrown" ELSE "dispatched"
    /\ UNCHANGED <<vars, url, answer>>

FetchConnects ==
    /\ fetch = "dispatched"
    /\ ConnectCall
    /\ fetch' = "connecting"
    /\ UNCHANGED <<url, endpoint, answer>>

\* simple_fetch_op resumed by async_connect: ec is not looked at.
FetchConnected ==
    /\ fetch = "connecting" /\ conn = "idle"
    /\ ProcessCall
    /\ fetch' = "processing"
    /\ UNCHANGED <<url, endpoint, answer>>

\* Faulty variant: the handler is posted as soon as the request is under way.
FaultyFetchProcessed ==
    /\ fetch = "processing"
    /\ fetch' = "posted"
    /\ answer' = <<procEc>>
    /\ UNCHANGED <<vars, url, endpoint>>

\* simple_fetch_op resumed by async_process_one: the handler is posted and the
\* transport destroyed with the operation.
FetchProcessed ==
    /\ fetch = "processing" /\ proc = "idle"
    /\ fetch' = "posted"
    /\ answer' = <<procEc>>
    /\ UNCHANGED <<vars, url, endpoint>>

\* Faulty variant: the composed operation around the fetch does not complete.
FaultyHandlerCalled ==
    /\ fetch = "posted"
    /\ Secured(url) => url.context
    /\ fetch' = "done"
    /\ UNCHANGED <<vars, url, endpoint, answer>>

\* The posted handler runs.  It is the caller's, or for https without a context
\* the composed operation that holds the context, which passes the answer on.
HandlerCalled ==
    /\ fetch \in {"posted", "relayed"}
    /\ fetch' = IF fetch = "posted" /\ Secured(url) /\ ~url.context
                THEN "relayed" ELSE "done"
    /\ UNCHANGED <<vars, url, endpoint, answer>>

FetchStep == \/ FetchConnects \/ FetchConnected \/ FetchProcessed
             \/ HandlerCalled

FetchNext ==
    \/ Launch
    \/ FetchStep
    \/ /\ ConnectStep \/ ProcessStep \/ StreamStep
       /\ UNCHANGED fetchVars

allVars == <<vars, fetchVars>>
FetchSpec == FetchInit /\ [][FetchNext]_allVars
                       /\ StreamFairness /\ WF_allVars(FetchStep)

-----------------------------------------------------------------------------
FetchTypeOK ==
    /\ TypeOK
    /\ fetch \in {"idle", "thrown", "dispatched", "connecting", "processing",
                  "posted", "relayed", "done"}
    /\ endpoint \in Seq(0 .. 2^16 - 1)
    /\ answer \in Seq({"ok", "error", "aborted"})

(***************************************************************************)
(* simple_fetch_op sends the request although its connect failed, and      *)
(* reports only the code of the request: still, a handler is told success  *)
(* only if the connection was made, its handshake done and a response read *)
(* over it.                                                                *)
(***************************************************************************)
OkMeansConnected == answer = <<"ok">> => connEc = "ok" /\ t.ready /\ t.used

(***************************************************************************)
(* The transport is destroyed when the handler is posted: by then nothing  *)
(* of it is under way, no slot of its stream taken and no timer set.       *)
(***************************************************************************)
DestroyedWhenQuiet ==
    fetch \in {"posted", "relayed", "done"} =>
        Idle /\ \A s \in Slots : ~Busy(io, s) /\ ~armed[s]

(***************************************************************************)
(* A URL's port survives the way through a signed 16-bit integer: whatever *)
(* is connected to is the port the URL names, or its scheme's.             *)
(***************************************************************************)
PortKept ==
    endpoint # <<>> =>
        endpoint[1] = IF url.port # <<>> THEN url.port[1] ELSE DefaultPort[url.scheme]

\* Every fetch that is launched throws or is answered, whatever the peer does.
FetchAnswered == (fetch # "idle") ~> (fetch \in {"thrown", "done"})

=============================================================================
