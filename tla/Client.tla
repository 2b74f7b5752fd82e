------------------------------- MODULE Client ------------------------------
(***************************************************************************)
(* fetchpp::client: a pool of sessions, one list for all endpoints.  A     *)
(* fetch picks a session of its endpoint with room left, or makes one, and *)
(* pushes its request there; async_stop stops the sessions one by one.     *)
(*                                                                         *)
(* A session's strand is FIFO: what the client sends it (a push, a stop)   *)
(* waits in an inbox until the strand gets to it, and pending_tasks() does *)
(* not count it before that.  The sessions answer as RequestQueue says,    *)
(* but an answered head is counted until advance_task pops it.             *)
(***************************************************************************)
EXTENDS Naturals, Sequences, FiniteSets

CONSTANTS
    Fetches,         \* the calls of async_fetch
    Urls,            \* [scheme, origin] of the URLs fetched
    UrlOf,           \* the URL of each fetch
    Proxies,         \* proxies the caller may configure
    Matches,         \* the proxy_match keys it uses: schemes and origins
    Portless,        \* the origins and proxies whose port safe_port refuses
    Stops,           \* the calls of client::async_stop
    Limits           \* the values of max_pending_, the caller may change it

ASSUME UrlsAssumption == UrlOf \in [Fetches -> Urls]
ASSUME LimitsAssumption == Limits \subseteq Nat /\ Limits # {}
ASSUME CallsAssumption == Fetches \cap Stops = {}

VARIABLES
    proxies,     \* proxies_: a map from origins and schemes to proxies
    maxPending,  \* max_pending_
    sessions,    \* sessions_: in order of creation
    answers,     \* what each fetch's handler was called with, in order
    fetch,       \* where each fetch stands
    stop         \* where each client_stop_sessions_op stands

vars == <<proxies, maxPending, sessions, answers, fetch, stop>>

-----------------------------------------------------------------------------
(***************************************************************************)
(* select_proxy: the entry of the URL's origin, else that of its scheme.   *)
(* The entry "all" is looked up for no http or https URL.                  *)
(***************************************************************************)
NoProxy == "no_proxy"

SelectProxy(map, url) ==
    IF url.origin \in DOMAIN map THEN map[url.origin]
    ELSE IF url.scheme \in DOMAIN map THEN map[url.scheme]
    ELSE NoProxy

(***************************************************************************)
(* What select_proxy and to_endpoint throw for: a scheme that no proxy can *)
(* be for, a port that cannot be deduced (the proxy's too), and an http    *)
(* URL behind a proxy, since the target of a tunnel is a secure endpoint.  *)
(***************************************************************************)
Throws(map, url) ==
    LET p == SelectProxy(map, url) IN
    \/ url.scheme \notin {"http", "https", "all"}
    \/ url.origin \in Portless
    \/ p # NoProxy /\ (p \in Portless \/ url.scheme # "https")

\* The endpoint client_fetch_op looks a session up for.
EndpointFor(map, url) ==
    LET p == SelectProxy(map, url) IN
    [kind |-> IF p # NoProxy THEN "tunnel"
              ELSE IF url.scheme = "https" THEN "secure" ELSE "plain",
     proxy |-> p, target |-> url.origin]

Endpoint == [kind : {"plain", "secure", "tunnel"},
             proxy : Proxies \cup {NoProxy},
             target : {u.origin : u \in Urls}]

Codes == {"ok", "error", "aborted"}

\* orphaned: a stop took the timer of the connect its front task waits for.
NewSession(e) == [endpoint |-> e, running |-> TRUE, inbox |-> <<>>,
                  tasks |-> <<>>, answered |-> FALSE, orphaned |-> FALSE]

-----------------------------------------------------------------------------
Init ==
    /\ proxies = <<>>
    /\ maxPending \in Limits
    /\ sessions = <<>>
    /\ answers = [f \in Fetches |-> <<>>]
    /\ fetch = [f \in Fetches |-> "idle"]
    /\ stop = [c \in Stops |-> [pc |-> "idle", at |-> 0, end |-> 0,
                                failed |-> FALSE]]

Walking(c) == stop[c].pc \in {"stopping", "waiting"}

ProxyMaps == UNION {[K -> Proxies] : K \in SUBSET Matches}

\* add_proxy keeps an entry that is already there.
AddProxy(key, p) ==
    /\ proxies' = [k \in DOMAIN proxies \cup {key} |->
                     IF k \in DOMAIN proxies THEN proxies[k] ELSE p]
    /\ UNCHANGED <<maxPending, sessions, answers, fetch, stop>>

\* set_proxies replaces the whole map.
SetProxies(map) ==
    /\ proxies' = map
    /\ UNCHANGED <<maxPending, sessions, answers, fetch, stop>>

\* set_max_pending_per_session.
SetMaxPending(n) ==
    /\ maxPending' = n
    /\ UNCHANGED <<proxies, sessions, answers, fetch, stop>>

\* get_session: the sessions a request for e may go to, dead ones included.
Candidates(e) == {i \in DOMAIN sessions :
                    /\ sessions[i].endpoint = e
                    /\ Len(sessions[i].tasks) < maxPending}

First(I) == CHOOSE i \in I : \A j \in I : i <= j

\* net::dispatch to the strand of session i.
Send(ss, i, call) == [ss EXCEPT ![i].inbox = Append(@, call)]

(***************************************************************************)
(* client_fetch_op on the client's strand.  A throw leaves through the     *)
(* executor: the handler is destroyed without being called.  While the     *)
(* client is being stopped a caller makes no fetch that needs a new        *)
(* session: sessions_ would grow under the iterators of async_stop.        *)
(***************************************************************************)
Fetch(f) ==
    /\ fetch[f] = "idle"
    /\ \/ /\ Throws(proxies, UrlOf[f])
          /\ fetch' = [fetch EXCEPT ![f] = "thrown"]
          /\ UNCHANGED sessions
       \/ /\ ~Throws(proxies, UrlOf[f])
          /\ fetch' = [fetch EXCEPT ![f] = "sent"]
          /\ LET e == EndpointFor(proxies, UrlOf[f])
                 I == Candidates(e) IN
             \/ /\ I # {}
                /\ sessions' = Send(sessions, First(I), f)
             \/ /\ I = {}
                /\ \A c \in Stops : ~Walking(c)
                /\ sessions' = Send(Append(sessions, NewSession(e)),
                                    Len(sessions) + 1, f)
    /\ UNCHANGED <<proxies, maxPending, answers, stop>>

\* client_fetch_op called back with ec: the caller's handler is posted.
Answer(F, ec) ==
    answers' = [f \in Fetches |-> IF f \in F THEN Append(answers[f], ec)
                                             ELSE answers[f]]

\* Faulty variant: the handler of a refused push is forgotten.
FaultyRunPush(i) ==
    /\ sessions[i].inbox # <<>>
    /\ LET f == Head(sessions[i].inbox) IN
        /\ f \in Fetches
        /\ sessions' = [sessions EXCEPT
                          ![i].inbox = Tail(@),
                          ![i].tasks = IF sessions[i].running THEN Append(@, f)
                                                              ELSE @]
    /\ UNCHANGED <<proxies, maxPending, answers, fetch, stop>>

\* push_op reaches the session's strand.
RunPush(i) ==
    /\ sessions[i].inbox # <<>>
    /\ LET f == Head(sessions[i].inbox) IN
        /\ f \in Fetches
        /\ \/ /\ sessions[i].running
              /\ sessions' = [sessions EXCEPT ![i].inbox = Tail(@),
                                              ![i].tasks = Append(@, f)]
              /\ UNCHANGED answers
           \/ /\ ~sessions[i].running
              /\ sessions' = [sessions EXCEPT ![i].inbox = Tail(@)]
              /\ Answer({f}, "aborted")
    /\ UNCHANGED <<proxies, maxPending, fetch, stop>>

(***************************************************************************)
(* The session answers its front task: served, failed for good (which ends *)
(* the session), or aborted because the session was stopped.               *)
(***************************************************************************)
AnswerFront(i) ==
    /\ sessions[i].tasks # <<>> /\ ~sessions[i].answered
    /\ \E ec \in IF sessions[i].running THEN {"ok", "error"} ELSE {"aborted"} :
        /\ Answer({Head(sessions[i].tasks)}, ec)
        /\ sessions' = [sessions EXCEPT ![i].answered = TRUE,
                                        ![i].orphaned = FALSE,
                                        ![i].running = (@ /\ ec = "ok")]
    /\ UNCHANGED <<proxies, maxPending, fetch, stop>>

\* Faulty variant: the front task is popped only while the session runs.
FaultyAdvance(i) ==
    /\ sessions[i].answered
    /\ sessions' = [sessions EXCEPT
                      ![i].answered = FALSE,
                      ![i].tasks = IF sessions[i].running THEN Tail(@) ELSE @]
    /\ UNCHANGED <<proxies, maxPending, answers, fetch, stop>>

\* advance_task: pop the front task; a session that ended aborts the rest.
Advance(i) ==
    /\ sessions[i].answered
    /\ LET rest == Tail(sessions[i].tasks) IN
        \/ /\ sessions[i].running
           /\ sessions' = [sessions EXCEPT ![i].answered = FALSE, ![i].tasks = rest]
           /\ UNCHANGED answers
        \/ /\ ~sessions[i].running
           /\ sessions' = [sessions EXCEPT ![i].answered = FALSE, ![i].tasks = <<>>]
           /\ Answer({rest[k] : k \in DOMAIN rest}, "aborted")
    /\ UNCHANGED <<proxies, maxPending, fetch, stop>>

-----------------------------------------------------------------------------
(***************************************************************************)
(* client_stop_sessions_op walks the sessions there are when it begins.    *)
(* One client is not stopped twice at the same time.                       *)
(***************************************************************************)
StopCall(c) ==
    /\ stop[c].pc = "idle"
    /\ \A d \in Stops : ~Walking(d)
    /\ \/ /\ sessions = <<>>
          /\ stop' = [stop EXCEPT ![c].pc = "ok"]
          /\ UNCHANGED sessions
       \/ /\ sessions # <<>>
          /\ stop' = [stop EXCEPT ![c] = [pc |-> "stopping", at |-> 1,
                                          end |-> Len(sessions),
                                          failed |-> FALSE]]
          /\ sessions' = Send(sessions, 1, c)
    /\ UNCHANGED <<proxies, maxPending, answers, fetch>>

(***************************************************************************)
(* stop_op reaches the session's strand.  If the front task waits for a    *)
(* connect, the transport's close may orphan it: the timer is gone and the *)
(* connect goes on (Orphaned in module Session).                           *)
(***************************************************************************)
StopSession(i) ==
    /\ sessions[i].inbox # <<>>
    /\ LET c == Head(sessions[i].inbox) IN
        /\ c \in Stops
        /\ stop' = [stop EXCEPT ![c].pc = "waiting"]
    /\ \E lost \in BOOLEAN :
        /\ lost => sessions[i].tasks # <<>> /\ ~sessions[i].answered
        /\ sessions' = [sessions EXCEPT ![i].inbox = Tail(@), ![i].running = FALSE,
                                        ![i].orphaned = @ \/ lost]
    /\ UNCHANGED <<proxies, maxPending, answers, fetch>>

\* Faulty variants: the last session's error is passed on as it came; only the
\* last session's error counts; the walk stays on its session.
FaultyPassesOn(c) ==
    /\ stop[c].pc = "waiting"
    /\ \E failed \in IF sessions[stop[c].at].tasks = <<>> THEN BOOLEAN ELSE {TRUE} :
        \/ /\ stop[c].at < stop[c].end
           /\ stop' = [stop EXCEPT ![c].at = @ + 1, ![c].failed = @ \/ failed,
                                   ![c].pc = "stopping"]
           /\ sessions' = Send(sessions, stop[c].at + 1, c)
        \/ /\ stop[c].at = stop[c].end
           /\ stop' = [stop EXCEPT ![c].pc = CASE failed -> "timed_out"
                                               [] stop[c].failed -> "aborted"
                                               [] OTHER -> "ok"]
           /\ UNCHANGED sessions
    /\ UNCHANGED <<proxies, maxPending, answers, fetch>>

FaultyForgetsError(c) ==
    /\ stop[c].pc = "waiting"
    /\ \E failed \in IF sessions[stop[c].at].tasks = <<>> THEN BOOLEAN ELSE {TRUE} :
        \/ /\ stop[c].at < stop[c].end
           /\ stop' = [stop EXCEPT ![c].at = @ + 1, ![c].pc = "stopping"]
           /\ sessions' = Send(sessions, stop[c].at + 1, c)
        \/ /\ stop[c].at = stop[c].end
           /\ stop' = [stop EXCEPT ![c].pc = IF failed THEN "aborted" ELSE "ok"]
           /\ UNCHANGED sessions
    /\ UNCHANGED <<proxies, maxPending, answers, fetch>>

FaultyStaysPut(c) ==
    /\ stop[c].pc = "waiting"
    /\ stop' = [stop EXCEPT ![c].pc = "stopping"]
    /\ sessions' = Send(sessions, stop[c].at, c)
    /\ UNCHANGED <<proxies, maxPending, answers, fetch>>

(***************************************************************************)
(* The session's async_stop answers: success or its close's error once the *)
(* tasks are gone, timed_out while some are left.  A failure is remembered *)
(* and reported as operation_aborted after the last session.               *)
(***************************************************************************)
SessionStopped(c) ==
    /\ stop[c].pc = "waiting"
    /\ \E failed \in IF sessions[stop[c].at].tasks = <<>> THEN BOOLEAN ELSE {TRUE} :
        LET bad == stop[c].failed \/ failed
            next == stop[c].at + 1 IN
        \/ /\ next <= stop[c].end
           /\ stop' = [stop EXCEPT ![c].at = next, ![c].failed = bad,
                                   ![c].pc = "stopping"]
           /\ sessions' = Send(sessions, next, c)
        \/ /\ next > stop[c].end
           /\ stop' = [stop EXCEPT ![c].at = next, ![c].failed = bad,
                                   ![c].pc = IF bad THEN "aborted" ELSE "ok"]
           /\ UNCHANGED sessions
    /\ UNCHANGED <<proxies, maxPending, answers, fetch>>

Next ==
    \/ \E p \in Proxies, key \in Matches : AddProxy(key, p)
    \/ \E map \in ProxyMaps : SetProxies(map)
    \/ \E n \in Limits : SetMaxPending(n)
    \/ \E f \in Fetches : Fetch(f)
    \/ \E i \in DOMAIN sessions :
          RunPush(i) \/ AnswerFront(i) \/ Advance(i) \/ StopSession(i)
    \/ \E c \in Stops : StopCall(c) \/ SessionStopped(c)

Spec == Init /\ [][Next]_vars

(***************************************************************************)
(* Fairness: the sessions' strands run; a session with a task answers it   *)
(* unless its connect is orphaned (Session's RequestsAnswered), and its    *)
(* stop ends (StopsAnswered, for TLS as far as Transport's CloseAnswered   *)
(* goes).                                                                  *)
(***************************************************************************)
Fairness ==
    /\ \A i \in 1 .. Cardinality(Fetches) :
        /\ WF_vars(i \in DOMAIN sessions /\ (RunPush(i) \/ StopSession(i)))
        /\ WF_vars(/\ i \in DOMAIN sessions /\ ~sessions[i].orphaned
                   /\ AnswerFront(i) \/ Advance(i))
    /\ \A c \in Stops : WF_vars(SessionStopped(c))

-----------------------------------------------------------------------------
Calls == Fetches \cup Stops

TypeOK ==
    /\ proxies \in ProxyMaps
    /\ maxPending \in Limits
    /\ sessions \in Seq([endpoint : Endpoint, running : BOOLEAN,
                         inbox : Seq(Calls), tasks : Seq(Fetches),
                         answered : BOOLEAN, orphaned : BOOLEAN])
    /\ answers \in [Fetches -> Seq(Codes)]
    /\ fetch \in [Fetches -> {"idle", "sent", "thrown"}]
    /\ stop \in [Stops -> [pc : {"idle", "stopping", "waiting", "ok", "aborted"},
                           at : Nat, end : Nat, failed : BOOLEAN]]

\* The places <<session, queue, position>> where f still waits for its answer.
Owed(f) ==
    UNION {{<<i, "inbox", k>> : k \in {k \in DOMAIN sessions[i].inbox :
                                         sessions[i].inbox[k] = f}}
           \cup {<<i, "tasks", k>> : k \in {k \in DOMAIN sessions[i].tasks :
                                            /\ sessions[i].tasks[k] = f
                                            /\ k = 1 => ~sessions[i].answered}}
           : i \in DOMAIN sessions}

(***************************************************************************)
(* Through every race of fetches with failing and stopping sessions, a     *)
(* fetch that was sent either waits in exactly one place or has had its    *)
(* handler called exactly once, and never both.                            *)
(***************************************************************************)
ExactlyOnce ==
    \A f \in Fetches :
        Cardinality(Owed(f)) + Len(answers[f]) = IF fetch[f] = "sent" THEN 1 ELSE 0

(***************************************************************************)
(* async_stop that answered success left every session it found stopped    *)
(* and without a task, although fetches went on meanwhile: an error of an  *)
(* early session is not forgotten when the later ones stop well.           *)
(***************************************************************************)
StopOkMeansQuiet ==
    \A c \in Stops :
        stop[c].pc = "ok" =>
            \A i \in 1 .. stop[c].end :
                ~sessions[i].running /\ sessions[i].tasks = <<>>

(***************************************************************************)
(* Every fetch that did not throw is answered, unless it waits in a        *)
(* session that a stop left with an orphaned connect: the peer may never   *)
(* complete that connect, and no timer ends it.                            *)
(***************************************************************************)
FetchesAnswered ==
    \A f \in Fetches :
        (fetch[f] = "sent") ~>
            \/ answers[f] # <<>>
            \/ \E i \in DOMAIN sessions :
                  sessions[i].orphaned /\ \E k \in DOMAIN sessions[i].tasks :
                                            sessions[i].tasks[k] = f

\* client::async_stop gets through all its sessions.
ClientStopAnswered ==
    \A c \in Stops : Walking(c) ~> (stop[c].pc \in {"ok", "aborted"})

=============================================================================
