---------------------------- MODULE ClientProofs ----------------------------
(***************************************************************************)
(* Proofs about Client, for any fetches, stops, URLs, proxies and limits.  *)
(*                                                                         *)
(* The invariant follows the calls: each waits at one place of one         *)
(* session.  What a step does is told one session at a time (Loses,        *)
(* SentGains), then of the pool (PoolLoses, PoolGains, PoolGrows), then of *)
(* the invariant.                                                          *)
(***************************************************************************)
EXTENDS ClientQueues, FiniteSetTheorems, WellFoundedInduction, TLAPS

-----------------------------------------------------------------------------
(***************************************************************************)
(* Types.                                                                  *)
(***************************************************************************)
Session == [endpoint : Endpoint, running : BOOLEAN, inbox : Seq(Calls),
            tasks : Seq(Fetches), answered : BOOLEAN, orphaned : BOOLEAN]
StopState == [pc : {"idle", "stopping", "waiting", "ok", "aborted"},
              at : Nat, end : Nat, failed : BOOLEAN]

LEMMA Typed ==
    TypeOK <=> /\ proxies \in ProxyMaps
               /\ maxPending \in Limits
               /\ sessions \in Seq(Session)
               /\ answers \in [Fetches -> Seq(Codes)]
               /\ fetch \in [Fetches -> {"idle", "sent", "thrown"}]
               /\ stop \in [Stops -> StopState]
BY DEF TypeOK, Session, StopState

\* Sequences.
LEMMA Positions ==
    ASSUME NEW S, NEW s \in Seq(S)
    PROVE  /\ DOMAIN s = 1 .. Len(s) /\ Len(s) \in Nat
           /\ \A k \in DOMAIN s : s[k] \in S
           /\ s # <<>> => /\ Head(s) \in S /\ Head(s) = s[1] /\ 1 \in DOMAIN s
                          /\ Tail(s) \in Seq(S) /\ Len(Tail(s)) = Len(s) - 1
                          /\ \A k \in DOMAIN Tail(s) :
                                k + 1 \in DOMAIN s /\ Tail(s)[k] = s[k + 1]
           /\ \A x \in S : /\ Append(s, x) \in Seq(S) /\ Len(Append(s, x)) = Len(s) + 1
                           /\ Append(s, x)[Len(s) + 1] = x
                           /\ \A k \in DOMAIN s : Append(s, x)[k] = s[k]
           /\ \A i \in DOMAIN s, x \in S : [s EXCEPT ![i] = x] \in Seq(S)
OBVIOUS

\* The proxy of a URL is one that was configured.
LEMMA EndpointTyped ==
    ASSUME proxies \in ProxyMaps, NEW f \in Fetches
    PROVE  EndpointFor(proxies, UrlOf[f]) \in Endpoint
<1>1. UrlOf[f] \in Urls
  BY UrlsAssumption
<1>2. \A k \in DOMAIN proxies : proxies[k] \in Proxies
  BY DEF ProxyMaps
<1>3. SelectProxy(proxies, UrlOf[f]) \in Proxies \cup {NoProxy}
  BY <1>2 DEF SelectProxy
<1> QED BY <1>1, <1>3 DEF EndpointFor, Endpoint

\* What the client sends a session.
LEMMA SendTyped ==
    ASSUME NEW ss \in Seq(Session), NEW i \in DOMAIN ss, NEW call \in Calls
    PROVE  \E w \in Session :
              /\ Send(ss, i, call) = [ss EXCEPT ![i] = w]
              /\ w.inbox = Append(ss[i].inbox, call) /\ w.tasks = ss[i].tasks
              /\ w.answered = ss[i].answered /\ w.running = ss[i].running
              /\ w.endpoint = ss[i].endpoint
<1> DEFINE s == ss[i]
           w == [s EXCEPT !.inbox = Append(@, call)]
<1>1. s \in Session
  BY Positions
<1>2. Append(s.inbox, call) \in Seq(Calls)
  BY <1>1, Positions DEF Session
<1>3. /\ w \in Session /\ w.inbox = Append(s.inbox, call) /\ w.tasks = s.tasks
      /\ w.answered = s.answered /\ w.running = s.running /\ w.endpoint = s.endpoint
  BY <1>1, <1>2 DEF Session
<1>4. Send(ss, i, call) = [ss EXCEPT ![i] = w]
  BY DEF Send
<1> HIDE DEF w
<1> QED BY <1>3, <1>4

(***************************************************************************)
(* What the steps of session i make of it.                                 *)
(***************************************************************************)
Becomes(i, w) == sessions' = [sessions EXCEPT ![i] = w]

LEMMA PushEffect ==
    ASSUME TypeOK, NEW i \in DOMAIN sessions, RunPush(i)
    PROVE  \E w \in Session, f \in Fetches :
             /\ Becomes(i, w)
             /\ sessions[i].inbox # <<>> /\ f = Head(sessions[i].inbox)
             /\ w.inbox = Tail(sessions[i].inbox) /\ w.running = sessions[i].running
             /\ w.answered = sessions[i].answered /\ w.endpoint = sessions[i].endpoint
             /\ \/ /\ sessions[i].running /\ w.tasks = Append(sessions[i].tasks, f)
                   /\ UNCHANGED answers
                \/ /\ ~sessions[i].running /\ w.tasks = sessions[i].tasks
                   /\ Answer({f}, "aborted")
<1>1. sessions \in Seq(Session) /\ sessions[i] \in Session
  BY Typed, Positions
<1> DEFINE s == sessions[i]
           f == Head(s.inbox)
<1>2. /\ s.inbox # <<>> /\ f \in Fetches
      /\ Tail(s.inbox) \in Seq(Calls) /\ Append(s.tasks, f) \in Seq(Fetches)
  BY <1>1, Positions DEF RunPush, Session
<1>3. CASE s.running /\ UNCHANGED answers
           /\ sessions' = [sessions EXCEPT ![i].inbox = Tail(@), ![i].tasks = Append(@, f)]
  <2> DEFINE w == [s EXCEPT !.inbox = Tail(@), !.tasks = Append(@, f)]
  <2>1. sessions' = [sessions EXCEPT ![i] = w]
    BY <1>1, <1>3
  <2>2. /\ w \in Session /\ w.inbox = Tail(s.inbox) /\ w.running = s.running
        /\ w.answered = s.answered /\ w.endpoint = s.endpoint
        /\ w.tasks = Append(s.tasks, f)
    BY <1>1, <1>2 DEF Session
  <2> HIDE DEF w
  <2> QED BY <1>2, <1>3, <2>1, <2>2 DEF Becomes
<1>4. CASE ~s.running /\ Answer({f}, "aborted")
           /\ sessions' = [sessions EXCEPT ![i].inbox = Tail(@)]
  <2> DEFINE w == [s EXCEPT !.inbox = Tail(@)]
  <2>1. sessions' = [sessions EXCEPT ![i] = w]
    BY <1>1, <1>4
  <2>2. /\ w \in Session /\ w.inbox = Tail(s.inbox) /\ w.running = s.running
        /\ w.answered = s.answered /\ w.endpoint = s.endpoint
        /\ w.tasks = s.tasks
    BY <1>1, <1>2 DEF Session
  <2> HIDE DEF w
  <2> QED BY <1>2, <1>4, <2>1, <2>2 DEF Becomes
<1> QED BY <1>3, <1>4 DEF RunPush

LEMMA AnswerEffect ==
    ASSUME TypeOK, NEW i \in DOMAIN sessions, AnswerFront(i)
    PROVE  \E w \in Session, ec \in Codes :
             /\ Becomes(i, w) /\ sessions[i].tasks # <<>> /\ ~sessions[i].answered
             /\ w.inbox = sessions[i].inbox /\ w.tasks = sessions[i].tasks
             /\ w.answered /\ w.endpoint = sessions[i].endpoint
             /\ w.running => sessions[i].running
             /\ w.running = (sessions[i].running /\ ec = "ok")
             /\ ec \in IF sessions[i].running THEN {"ok", "error"} ELSE {"aborted"}
             /\ Answer({Head(sessions[i].tasks)}, ec)
<1>1. sessions \in Seq(Session) /\ sessions[i] \in Session
  BY Typed, Positions
<1> DEFINE s == sessions[i]
<1>2. PICK ec \in IF s.running THEN {"ok", "error"} ELSE {"aborted"} :
        /\ Answer({Head(s.tasks)}, ec)
        /\ sessions' = [sessions EXCEPT ![i].answered = TRUE,
                                        ![i].orphaned = FALSE,
                                        ![i].running = (@ /\ ec = "ok")]
  BY DEF AnswerFront
<1> DEFINE w == [s EXCEPT !.answered = TRUE, !.orphaned = FALSE,
                          !.running = (@ /\ ec = "ok")]
<1>3. sessions' = [sessions EXCEPT ![i] = w]
  BY <1>1, <1>2
<1>4. /\ w \in Session /\ w.inbox = s.inbox /\ w.tasks = s.tasks
      /\ w.answered /\ w.endpoint = s.endpoint /\ (w.running => s.running)
      /\ w.running = (s.running /\ ec = "ok")
  BY <1>1 DEF Session
<1>5. s.tasks # <<>> /\ ~s.answered /\ ec \in Codes
  BY DEF AnswerFront, Codes
<1> HIDE DEF w
<1> QED BY <1>2, <1>3, <1>4, <1>5 DEF Becomes

LEMMA AdvanceEffect ==
    ASSUME TypeOK, NEW i \in DOMAIN sessions, sessions[i].tasks # <<>>, Advance(i)
    PROVE  \E w \in Session :
             /\ Becomes(i, w) /\ sessions[i].answered
             /\ w.inbox = sessions[i].inbox /\ w.running = sessions[i].running
             /\ ~w.answered /\ w.endpoint = sessions[i].endpoint
             /\ LET rest == Tail(sessions[i].tasks) IN
                \/ sessions[i].running /\ w.tasks = rest /\ UNCHANGED answers
                \/ /\ ~sessions[i].running /\ w.tasks = <<>>
                   /\ Answer({rest[k] : k \in DOMAIN rest}, "aborted")
<1>1. sessions \in Seq(Session) /\ sessions[i] \in Session
  BY Typed, Positions
<1> DEFINE s == sessions[i]
           rest == Tail(s.tasks)
<1>2. rest \in Seq(Fetches) /\ s.answered
  BY <1>1, Positions DEF Advance, Session
<1>3. CASE s.running /\ UNCHANGED answers
           /\ sessions' = [sessions EXCEPT ![i].answered = FALSE, ![i].tasks = rest]
  <2> DEFINE w == [s EXCEPT !.answered = FALSE, !.tasks = rest]
  <2>1. sessions' = [sessions EXCEPT ![i] = w]
    BY <1>1, <1>3
  <2>2. /\ w \in Session /\ w.inbox = s.inbox /\ w.running = s.running
        /\ ~w.answered /\ w.endpoint = s.endpoint /\ w.tasks = rest
    BY <1>1, <1>2 DEF Session
  <2> HIDE DEF w
  <2> QED BY <1>2, <1>3, <2>1, <2>2 DEF Becomes
<1>4. CASE ~s.running /\ Answer({rest[k] : k \in DOMAIN rest}, "aborted")
           /\ sessions' = [sessions EXCEPT ![i].answered = FALSE, ![i].tasks = <<>>]
  <2> DEFINE w == [s EXCEPT !.answered = FALSE, !.tasks = <<>>]
  <2>1. sessions' = [sessions EXCEPT ![i] = w]
    BY <1>1, <1>4
  <2>2. /\ w \in Session /\ w.inbox = s.inbox /\ w.running = s.running
        /\ ~w.answered /\ w.endpoint = s.endpoint /\ w.tasks = <<>>
    <3>1. <<>> \in Seq(Fetches)
      OBVIOUS
    <3> QED BY <1>1, <3>1 DEF Session
  <2> HIDE DEF w
  <2> QED BY <1>2, <1>4, <2>1, <2>2 DEF Becomes
<1> QED BY <1>3, <1>4 DEF Advance

LEMMA StopEffect ==
    ASSUME TypeOK, NEW i \in DOMAIN sessions, StopSession(i)
    PROVE  \E w \in Session, c \in Stops :
             /\ Becomes(i, w)
             /\ sessions[i].inbox # <<>> /\ c = Head(sessions[i].inbox)
             /\ w.inbox = Tail(sessions[i].inbox) /\ ~w.running
             /\ w.answered = sessions[i].answered /\ w.endpoint = sessions[i].endpoint
             /\ w.tasks = sessions[i].tasks
             /\ stop' = [stop EXCEPT ![c].pc = "waiting"]
<1>1. sessions \in Seq(Session) /\ sessions[i] \in Session
  BY Typed, Positions
<1> DEFINE s == sessions[i]
           c == Head(s.inbox)
<1>0. PICK lost \in BOOLEAN :
        sessions' = [sessions EXCEPT ![i].inbox = Tail(@), ![i].running = FALSE,
                                     ![i].orphaned = @ \/ lost]
  BY DEF StopSession
<1> DEFINE w == [s EXCEPT !.inbox = Tail(@), !.running = FALSE, !.orphaned = @ \/ lost]
<1>2. /\ s.inbox # <<>> /\ c \in Stops /\ Tail(s.inbox) \in Seq(Calls)
      /\ stop' = [stop EXCEPT ![c].pc = "waiting"]
  BY <1>1, Positions DEF StopSession, Session
<1>3. sessions' = [sessions EXCEPT ![i] = w]
  BY <1>0, <1>1
<1>4. /\ w \in Session /\ w.inbox = Tail(s.inbox) /\ ~w.running
      /\ w.answered = s.answered /\ w.endpoint = s.endpoint /\ w.tasks = s.tasks
  BY <1>1, <1>2 DEF Session
<1> HIDE DEF w
<1> QED BY <1>2, <1>3, <1>4 DEF Becomes

-----------------------------------------------------------------------------
(***************************************************************************)
(* The inductive invariant.                                                *)
(***************************************************************************)

\* Call f is at position k of a queue of session s, and still to be answered.
Queues == {"inbox", "tasks"}
Holds(s, f, q, k) ==
    \/ q = "inbox" /\ k \in DOMAIN s.inbox /\ s.inbox[k] = f
    \/ q = "tasks" /\ k \in DOMAIN s.tasks /\ s.tasks[k] = f /\ (k = 1 => ~s.answered)
Has(s, f) == \E q \in Queues, k \in Nat : Holds(s, f, q, k)
HasOnce(s, f) ==
    \A q \in Queues, r \in Queues, k \in Nat, l \in Nat :
        Holds(s, f, q, k) /\ Holds(s, f, r, l) => q = r /\ k = l

\* No call waits twice, in one session or in two of ss.
WaitOnce(ss) ==
    \A g \in Calls :
        /\ \A i \in DOMAIN ss : HasOnce(ss[i], g)
        /\ \A i, j \in DOMAIN ss : Has(ss[i], g) /\ Has(ss[j], g) => i = j

Waits(ss, g) == \E i \in DOMAIN ss : Has(ss[i], g)

\* A fetch that was sent waits or was answered.
Owing ==
    \A f \in Fetches :
        IF fetch[f] = "sent"
        THEN \/ Waits(sessions, f) /\ answers[f] = <<>>
             \/ ~Waits(sessions, f) /\ Len(answers[f]) = 1
        ELSE ~Waits(sessions, f) /\ answers[f] = <<>>

\* Only a task in front of its session has been answered and not been popped.
FrontAnswered(ss) ==
    \A i \in DOMAIN ss : ss[i].answered => ss[i].tasks # <<>>

\* The stop a session has received and not looked at is the one that walks.
StopsInOrder ==
    \A c \in Stops, i \in DOMAIN sessions :
        Has(sessions[i], c) => stop[c].pc = "stopping" /\ stop[c].at = i

\* Session i will never run nor have a task again.
Quiet(ss, i) == ~ss[i].running /\ ss[i].tasks = <<>>

\* What a stop t has walked past is stopped; a task left there was remembered.
WalkedBy(t, ss) ==
    /\ t.pc = "idle" => t.end = 0
    /\ t.end <= Len(ss)
    /\ t.pc \in {"stopping", "waiting"} =>
          /\ t.at \in 1 .. t.end
          /\ \A i \in 1 .. t.at - 1 : ~ss[i].running /\ (t.failed \/ Quiet(ss, i))
    /\ t.pc = "waiting" => ~ss[t.at].running
    /\ t.pc = "ok" => \A i \in 1 .. t.end : Quiet(ss, i)

Walked == \A c \in Stops : WalkedBy(stop[c], sessions)

ClientInv == /\ TypeOK /\ FrontAnswered(sessions)
             /\ WaitOnce(sessions) /\ Owing
             /\ StopsInOrder /\ Walked

-----------------------------------------------------------------------------
\* Types are kept.
LEMMA AnswerTyped ==
    ASSUME answers \in [Fetches -> Seq(Codes)], NEW F, NEW ec \in Codes, Answer(F, ec)
    PROVE  answers' \in [Fetches -> Seq(Codes)]
<1>1. ASSUME NEW f \in Fetches
      PROVE  (IF f \in F THEN Append(answers[f], ec) ELSE answers[f]) \in Seq(Codes)
  <2>1. answers[f] \in Seq(Codes)
    OBVIOUS
  <2> QED BY <2>1, Positions
<1> QED BY <1>1 DEF Answer

LEMMA NewSessionTyped ==
    ASSUME sessions \in Seq(Session), NEW e \in Endpoint
    PROVE  /\ NewSession(e) \in Session
           /\ Append(sessions, NewSession(e)) \in Seq(Session)
           /\ Len(Append(sessions, NewSession(e))) = Len(sessions) + 1
           /\ Append(sessions, NewSession(e))[Len(sessions) + 1] = NewSession(e)
           /\ \A i \in DOMAIN sessions :
                 Append(sessions, NewSession(e))[i] = sessions[i]
<1>1. <<>> \in Seq(Calls) /\ <<>> \in Seq(Fetches)
  OBVIOUS
<1>2. NewSession(e) \in Session
  BY <1>1 DEF NewSession, Session
<1> QED BY <1>2, Positions

\* Positions have a least one: First's CHOOSE has something to choose.
LEMMA NonEmptyHasLeast ==
    ASSUME NEW I, NEW n \in Nat, I \subseteq 1 .. n, I # {}
    PROVE  \E i \in I : \A j \in I : i <= j
<1> DEFINE R == {ss \in Nat \X Nat : ss[1] < ss[2]}
<1>1. IsWellFoundedOn(R, Nat)
  BY NatLessThanWellFounded DEF OpToRel
<1>2. \A i, j \in Nat : <<i, j>> \in R <=> i < j
  OBVIOUS
<1> HIDE DEF R
<1>3. I \subseteq Nat
  OBVIOUS
<1>4. PICK i \in I : \A j \in I : <<j, i>> \notin R
  BY <1>1, <1>3, WFMin
<1>5. \A j \in I : ~(j < i)
  BY <1>2, <1>3, <1>4
<1> QED BY <1>3, <1>5

\* A fetch is sent to a session there is, or to a new one.
LEMMA FetchEffect ==
    ASSUME TypeOK, NEW f \in Fetches, Fetch(f), ~Throws(proxies, UrlOf[f])
    PROVE  /\ fetch[f] = "idle" /\ fetch' = [fetch EXCEPT ![f] = "sent"]
           /\ UNCHANGED <<proxies, maxPending, answers, stop>>
           /\ \/ \E i \in DOMAIN sessions : sessions' = Send(sessions, i, f)
              \/ /\ \A c \in Stops : ~Walking(c)
                 /\ \E e \in Endpoint :
                      sessions' = Send(Append(sessions, NewSession(e)), Len(sessions) + 1, f)
<1> DEFINE e == EndpointFor(proxies, UrlOf[f])
           I == Candidates(e)
<1>1. /\ fetch[f] = "idle" /\ fetch' = [fetch EXCEPT ![f] = "sent"]
      /\ UNCHANGED <<proxies, maxPending, answers, stop>>
      /\ \/ I # {} /\ sessions' = Send(sessions, First(I), f)
         \/ /\ \A c \in Stops : ~Walking(c)
            /\ sessions' = Send(Append(sessions, NewSession(e)), Len(sessions) + 1, f)
  BY DEF Fetch
<1>2. e \in Endpoint
  BY EndpointTyped, Typed
<1>3. I # {} => First(I) \in I
  <2>1. I \subseteq 1 .. Len(sessions) /\ Len(sessions) \in Nat
    BY Typed, Positions DEF Candidates
  <2>2. I # {} => \E i \in I : \A j \in I : i <= j
    BY <2>1, NonEmptyHasLeast
  <2> QED BY <2>2 DEF First
<1>4. I \subseteq DOMAIN sessions
  BY DEF Candidates
<1> HIDE DEF I, e
<1> QED BY <1>1, <1>2, <1>3, <1>4

-----------------------------------------------------------------------------
(***************************************************************************)
(* What waits in one session, step by step.                                *)
(***************************************************************************)

\* w waits for what s does, but for the calls of D, and for none twice.
Loses(s, w, D) ==
    \A g \in Calls :
        HasOnce(s, g) => HasOnce(w, g) /\ (Has(w, g) <=> Has(s, g) /\ g \notin D)

Places(s, w, g) == \* where w holds g, s does
    \A q \in Queues, k \in Nat : Holds(w, g, q, k) => Holds(s, g, q, k)

LEMMA FewerPlaces ==
    ASSUME NEW s, NEW w, NEW g, HasOnce(s, g), Places(s, w, g)
    PROVE  HasOnce(w, g) /\ (Has(w, g) => Has(s, g))
BY DEF HasOnce, Has, Places

\* A task is answered.
LEMMA AnsweredLoses ==
    ASSUME NEW s \in Session, NEW w \in Session, s.tasks # <<>>, ~s.answered,
           w.inbox = s.inbox, w.tasks = s.tasks, w.answered
    PROVE  Loses(s, w, {Head(s.tasks)}) /\ Has(s, Head(s.tasks))
<1> DEFINE h == Head(s.tasks)
<1>1. s.tasks \in Seq(Fetches) /\ DOMAIN s.tasks = 1 .. Len(s.tasks)
      /\ 1 \in DOMAIN s.tasks /\ h = s.tasks[1]
  BY Positions DEF Session
<1>2. Holds(s, h, "tasks", 1)
  BY <1>1 DEF Holds
<1>3. Has(s, h)
  BY <1>2 DEF Has, Queues
<1>4. ASSUME NEW g \in Calls, HasOnce(s, g)
      PROVE  HasOnce(w, g) /\ (Has(w, g) <=> Has(s, g) /\ g # h)
  <2>1. Places(s, w, g)
    BY DEF Places, Holds
  <2>2. \A q \in Queues, k \in Nat :
           Holds(w, h, q, k) => Holds(s, h, q, k) /\ ~(q = "tasks" /\ k = 1)
    BY DEF Holds, Queues
  <2>3. g = h => ~Has(w, g)
    BY <1>2, <1>4, <2>2 DEF Has, HasOnce, Queues
  <2>4. ASSUME g # h, NEW q \in Queues, NEW k \in Nat, Holds(s, g, q, k)
        PROVE  Holds(w, g, q, k)
    BY <1>1, <2>4 DEF Holds
  <2>5. g # h /\ Has(s, g) => Has(w, g)
    BY <2>4 DEF Has
  <2> QED BY <1>4, <2>1, <2>3, <2>5, FewerPlaces
<1> QED BY <1>3, <1>4 DEF Loses

\* The strand takes a call from the inbox, and it waits no more.
LEMMA PoppedLoses ==
    ASSUME NEW s \in Session, NEW w \in Session, s.inbox # <<>>,
           w.inbox = Tail(s.inbox), w.tasks = s.tasks, w.answered = s.answered
    PROVE  Loses(s, w, {Head(s.inbox)}) /\ Has(s, Head(s.inbox))
<1> DEFINE h == Head(s.inbox)
<1>1. /\ s.inbox \in Seq(Calls) /\ DOMAIN s.inbox = 1 .. Len(s.inbox)
      /\ 1 \in DOMAIN s.inbox /\ h = s.inbox[1] /\ Len(s.inbox) \in Nat
      /\ DOMAIN w.inbox = 1 .. Len(s.inbox) - 1
      /\ \A k \in DOMAIN w.inbox : w.inbox[k] = s.inbox[k + 1]
  BY Positions DEF Session
<1>2. Holds(s, h, "inbox", 1)
  BY <1>1 DEF Holds
<1>3. Has(s, h)
  BY <1>2 DEF Has, Queues
<1>4. \A g : \A k \in Nat : Holds(w, g, "inbox", k) => k >= 1 /\ Holds(s, g, "inbox", k + 1)
  BY <1>1 DEF Holds
<1>5. \A g : \A k \in Nat : k > 1 /\ Holds(s, g, "inbox", k) => Holds(w, g, "inbox", k - 1)
  BY <1>1 DEF Holds
<1>6. \A g : \A k \in Nat : Holds(w, g, "tasks", k) <=> Holds(s, g, "tasks", k)
  BY DEF Holds
<1>7. \A g : \A k \in Nat : Holds(s, g, "inbox", k) => k >= 1
  BY <1>1 DEF Holds
<1>8. \A g : Holds(s, g, "inbox", 1) => g = h
  BY <1>1 DEF Holds
<1>9. ASSUME NEW g \in Calls, HasOnce(s, g)
      PROVE  HasOnce(w, g) /\ (Has(w, g) <=> Has(s, g) /\ g # h)
  <2>1. HasOnce(w, g)
    BY <1>4, <1>6, <1>9 DEF HasOnce, Queues
  <2>2. Has(w, g) => Has(s, g)
    BY <1>4, <1>6 DEF Has, Queues
  <2>3. g = h => ~Has(w, g)
    BY <1>2, <1>4, <1>6, <1>9 DEF Has, HasOnce, Queues
  <2>4. g # h /\ Has(s, g) => Has(w, g)
    <3>1. \A k \in Nat : g # h /\ Holds(s, g, "inbox", k) => k > 1 /\ k - 1 \in Nat
      BY <1>7, <1>8
    <3> QED BY <1>5, <1>6, <3>1 DEF Has, Queues
  <2> QED BY <2>1, <2>2, <2>3, <2>4
<1> QED BY <1>3, <1>9 DEF Loses

\* The strand makes a task of the push at the head of the inbox.
LEMMA PushedLoses ==
    ASSUME NEW s \in Session, NEW w \in Session, s.inbox # <<>>,
           s.answered => s.tasks # <<>>, Head(s.inbox) \in Fetches,
           w.inbox = Tail(s.inbox), w.tasks = Append(s.tasks, Head(s.inbox)),
           w.answered = s.answered
    PROVE  Loses(s, w, {})
<1> DEFINE h == Head(s.inbox)
           n == Len(s.tasks) + 1
<1>1. /\ s.inbox \in Seq(Calls) /\ DOMAIN s.inbox = 1 .. Len(s.inbox)
      /\ 1 \in DOMAIN s.inbox /\ h = s.inbox[1] /\ Len(s.inbox) \in Nat
      /\ DOMAIN w.inbox = 1 .. Len(s.inbox) - 1
      /\ \A k \in DOMAIN w.inbox : w.inbox[k] = s.inbox[k + 1]
  BY Positions DEF Session
<1>2. /\ s.tasks \in Seq(Fetches) /\ DOMAIN s.tasks = 1 .. Len(s.tasks)
      /\ Len(s.tasks) \in Nat /\ DOMAIN w.tasks = 1 .. n
      /\ w.tasks[n] = h /\ \A k \in DOMAIN s.tasks : w.tasks[k] = s.tasks[k]
      /\ s.tasks = <<>> <=> Len(s.tasks) = 0
  BY Positions DEF Session
<1>3. Holds(s, h, "inbox", 1)
  BY <1>1 DEF Holds
<1>4. Holds(w, h, "tasks", n)
  BY <1>2 DEF Holds
<1>5. \A g : \A k \in Nat : Holds(w, g, "inbox", k) => k >= 1 /\ Holds(s, g, "inbox", k + 1)
  BY <1>1 DEF Holds
<1>6. \A g : \A k \in Nat : k > 1 /\ Holds(s, g, "inbox", k) => Holds(w, g, "inbox", k - 1)
  BY <1>1 DEF Holds
<1>7. \A g : \A k \in Nat : Holds(s, g, "tasks", k) => Holds(w, g, "tasks", k) /\ k # n
  BY <1>2 DEF Holds
<1>8. \A g : \A k \in Nat : Holds(w, g, "tasks", k) =>
        Holds(s, g, "tasks", k) \/ (g = h /\ k = n)
  BY <1>2 DEF Holds
<1>9. \A g : \A k \in Nat : Holds(s, g, "inbox", k) => k >= 1 /\ (k = 1 => g = h)
  BY <1>1 DEF Holds
<1>10. n \in Nat
  BY <1>2
<1> HIDE DEF n, h
<1>11. ASSUME NEW g \in Calls, HasOnce(s, g)
      PROVE  HasOnce(w, g) /\ (Has(w, g) <=> Has(s, g))
  <2>1. g # h => HasOnce(w, g)
    BY <1>5, <1>8, <1>11 DEF HasOnce, Queues
  <2>2. g = h => \A k \in Nat : ~Holds(s, g, "tasks", k) /\ ~Holds(w, g, "inbox", k)
    BY <1>3, <1>5, <1>11 DEF HasOnce, Queues
  <2>3. g = h => HasOnce(w, g)
    BY <1>8, <2>2 DEF HasOnce, Queues
  <2>4. g = h => Has(s, g) /\ Has(w, g)
    BY <1>3, <1>4, <1>10 DEF Has, Queues
  <2>5. g # h /\ Has(w, g) => Has(s, g)
    BY <1>5, <1>8 DEF Has, Queues
  <2>6. g # h /\ Has(s, g) => Has(w, g)
    <3>1. \A k \in Nat : g # h /\ Holds(s, g, "inbox", k) => k > 1 /\ k - 1 \in Nat
      BY <1>9
    <3> QED BY <1>6, <1>7, <3>1 DEF Has, Queues
  <2> QED BY <2>1, <2>3, <2>4, <2>5, <2>6
<1> QED BY <1>11 DEF Loses

\* advance_task pops the answered task ...
LEMMA AdvancedLoses ==
    ASSUME NEW s \in Session, NEW w \in Session, s.tasks # <<>>, s.answered,
           w.inbox = s.inbox, w.tasks = Tail(s.tasks), ~w.answered
    PROVE  Loses(s, w, {})
<1>1. /\ s.tasks \in Seq(Fetches) /\ DOMAIN s.tasks = 1 .. Len(s.tasks)
      /\ Len(s.tasks) \in Nat
      /\ DOMAIN w.tasks = 1 .. Len(s.tasks) - 1
      /\ \A k \in DOMAIN w.tasks : w.tasks[k] = s.tasks[k + 1]
  BY Positions DEF Session
<1>2. \A g : \A k \in Nat : Holds(w, g, "tasks", k) => k >= 1 /\ Holds(s, g, "tasks", k + 1)
  BY <1>1 DEF Holds
<1>3. \A g : \A k \in Nat : Holds(s, g, "tasks", k) =>
        k > 1 /\ k - 1 \in Nat /\ Holds(w, g, "tasks", k - 1)
  BY <1>1 DEF Holds
<1>4. \A g : \A k \in Nat : Holds(w, g, "inbox", k) <=> Holds(s, g, "inbox", k)
  BY DEF Holds
<1>5. ASSUME NEW g \in Calls, HasOnce(s, g)
      PROVE  HasOnce(w, g) /\ (Has(w, g) <=> Has(s, g))
  <2>1. HasOnce(w, g)
    BY <1>2, <1>4, <1>5 DEF HasOnce, Queues
  <2>2. Has(w, g) => Has(s, g)
    BY <1>2, <1>4 DEF Has, Queues
  <2>3. Has(s, g) => Has(w, g)
    BY <1>3, <1>4 DEF Has, Queues
  <2> QED BY <2>1, <2>2, <2>3
<1> QED BY <1>5 DEF Loses

\* ... and a session that ended aborts the rest.
LEMMA AbortedLoses ==
    ASSUME NEW s \in Session, NEW w \in Session, s.tasks # <<>>, s.answered,
           w.inbox = s.inbox, w.tasks = <<>>
    PROVE  LET rest == Tail(s.tasks)
               D == {rest[k] : k \in DOMAIN rest}
           IN  Loses(s, w, D) /\ \A f \in D : Has(s, f)
<1> DEFINE rest == Tail(s.tasks)
           D == {rest[k] : k \in DOMAIN rest}
<1>1. /\ s.tasks \in Seq(Fetches) /\ DOMAIN s.tasks = 1 .. Len(s.tasks)
      /\ Len(s.tasks) \in Nat
      /\ DOMAIN rest = 1 .. Len(s.tasks) - 1
      /\ \A k \in DOMAIN rest : rest[k] = s.tasks[k + 1]
  BY Positions DEF Session
<1>2. \A g : \A k \in Nat : Holds(s, g, "tasks", k) => g \in D
  <2> SUFFICES ASSUME NEW g, NEW k \in Nat, Holds(s, g, "tasks", k)
               PROVE  g \in D
    OBVIOUS
  <2>1. k \in DOMAIN s.tasks /\ s.tasks[k] = g /\ k # 1
    BY DEF Holds
  <2>2. k - 1 \in DOMAIN rest /\ rest[k - 1] = s.tasks[k]
    BY <1>1, <2>1
  <2> QED BY <2>1, <2>2
<1>3. \A g \in D : \E k \in Nat : Holds(s, g, "tasks", k)
  <2> SUFFICES ASSUME NEW k \in DOMAIN rest
               PROVE  Holds(s, rest[k], "tasks", k + 1)
    BY <1>1
  <2>1. k + 1 \in DOMAIN s.tasks /\ s.tasks[k + 1] = rest[k] /\ k + 1 # 1
    BY <1>1
  <2> QED BY <2>1 DEF Holds
<1>4. \A g : \A k \in Nat : ~Holds(w, g, "tasks", k)
  BY DEF Holds
<1>5. \A g : \A k \in Nat : Holds(w, g, "inbox", k) <=> Holds(s, g, "inbox", k)
  BY DEF Holds
<1> HIDE DEF D
<1>6. \A g \in D : Has(s, g)
  BY <1>3 DEF Has, Queues
<1>7. ASSUME NEW g \in Calls, HasOnce(s, g)
      PROVE  HasOnce(w, g) /\ (Has(w, g) <=> Has(s, g) /\ g \notin D)
  <2>1. HasOnce(w, g)
    BY <1>4, <1>5, <1>7 DEF HasOnce, Queues
  <2>2. Has(w, g) => Has(s, g)
    BY <1>4, <1>5 DEF Has, Queues
  <2>3. g \in D => ~Has(w, g)
    BY <1>3, <1>4, <1>5, <1>7 DEF Has, HasOnce, Queues
  <2>4. g \notin D /\ Has(s, g) => Has(w, g)
    BY <1>2, <1>5 DEF Has, Queues
  <2> QED BY <2>1, <2>2, <2>3, <2>4
<1> QED BY <1>6, <1>7 DEF Loses, D

\* A call that did not wait is sent.
LEMMA SentGains ==
    ASSUME NEW s \in Session, NEW w \in Session, NEW c \in Calls,
           w.inbox = Append(s.inbox, c), w.tasks = s.tasks, w.answered = s.answered
    PROVE  \A g \in Calls :
              HasOnce(s, g) /\ (g = c => ~Has(s, g))
              => HasOnce(w, g) /\ (Has(w, g) <=> Has(s, g) \/ g = c)
<1> DEFINE n == Len(s.inbox) + 1
<1>1. /\ s.inbox \in Seq(Calls) /\ DOMAIN s.inbox = 1 .. Len(s.inbox)
      /\ n \in Nat /\ DOMAIN w.inbox = 1 .. n
      /\ w.inbox[n] = c /\ \A k \in DOMAIN s.inbox : w.inbox[k] = s.inbox[k]
  BY Positions DEF Session
<1>2. Holds(w, c, "inbox", n)
  BY <1>1 DEF Holds
<1>3. \A g : \A k \in Nat : Holds(s, g, "inbox", k) => Holds(w, g, "inbox", k)
  BY <1>1 DEF Holds
<1>4. \A g : \A k \in Nat : Holds(w, g, "inbox", k) =>
        Holds(s, g, "inbox", k) \/ (g = c /\ k = n)
  BY <1>1 DEF Holds
<1>5. \A g : \A k \in Nat : Holds(w, g, "tasks", k) <=> Holds(s, g, "tasks", k)
  BY DEF Holds
<1> HIDE DEF n
<1>6. ASSUME NEW g \in Calls, HasOnce(s, g), g = c => ~Has(s, g)
      PROVE  HasOnce(w, g) /\ (Has(w, g) <=> Has(s, g) \/ g = c)
  <2>1. g = c => \A q \in Queues, k \in Nat : Holds(w, g, q, k) => q = "inbox" /\ k = n
    BY <1>4, <1>5, <1>6 DEF Has, Queues
  <2>2. g # c => HasOnce(w, g)
    BY <1>4, <1>5, <1>6 DEF HasOnce, Queues
  <2>3. g = c => HasOnce(w, g) /\ Has(w, g)
    BY <1>1, <1>2, <2>1 DEF HasOnce, Has, Queues
  <2>4. Has(w, g) => Has(s, g) \/ g = c
    BY <1>4, <1>5 DEF Has, Queues
  <2>5. Has(s, g) => Has(w, g)
    BY <1>3, <1>5 DEF Has, Queues
  <2> QED BY <2>2, <2>3, <2>4, <2>5
<1> QED BY <1>6

-----------------------------------------------------------------------------
(***************************************************************************)
(* What waits in the pool when one of its sessions changes.                *)
(***************************************************************************)
LEMMA PoolLoses ==
    ASSUME NEW ss \in Seq(Session), WaitOnce(ss), NEW i \in DOMAIN ss,
           NEW w \in Session, NEW D, Loses(ss[i], w, D), \A g \in D : Has(ss[i], g)
    PROVE  LET tt == [ss EXCEPT ![i] = w] IN
           /\ WaitOnce(tt)
           /\ \A g \in Calls : Waits(tt, g) <=> Waits(ss, g) /\ g \notin D
           /\ \A g \in Calls, j \in DOMAIN ss : Has(tt[j], g) => Has(ss[j], g)
<1> DEFINE tt == [ss EXCEPT ![i] = w]
<1>1. DOMAIN tt = DOMAIN ss /\ tt[i] = w /\ \A j \in DOMAIN ss : j # i => tt[j] = ss[j]
  OBVIOUS
<1> HIDE DEF tt
<1>2. ASSUME NEW g \in Calls
      PROVE  /\ \A j \in DOMAIN tt : HasOnce(tt[j], g) /\ (Has(tt[j], g) => Has(ss[j], g))
             /\ \A j, k \in DOMAIN tt : Has(tt[j], g) /\ Has(tt[k], g) => j = k
             /\ Waits(tt, g) <=> Waits(ss, g) /\ g \notin D
  <2>1. /\ \A j \in DOMAIN ss : HasOnce(ss[j], g)
        /\ \A j, k \in DOMAIN ss : Has(ss[j], g) /\ Has(ss[k], g) => j = k
    BY DEF WaitOnce
  <2>2. HasOnce(w, g) /\ (Has(w, g) <=> Has(ss[i], g) /\ g \notin D)
    BY <2>1 DEF Loses
  <2>3. \A j \in DOMAIN tt : HasOnce(tt[j], g) /\ (Has(tt[j], g) => Has(ss[j], g))
    BY <1>1, <2>1, <2>2
  <2>4. \A j, k \in DOMAIN tt : Has(tt[j], g) /\ Has(tt[k], g) => j = k
    BY <1>1, <2>1, <2>3
  <2>5. g \in D => ~Waits(tt, g)
    BY <1>1, <2>1, <2>2, <2>3 DEF Waits
  <2>6. g \notin D => (Waits(tt, g) <=> Waits(ss, g))
    BY <1>1, <2>2 DEF Waits
  <2>7. Waits(tt, g) => Waits(ss, g)
    BY <1>1, <2>3 DEF Waits
  <2> QED BY <2>3, <2>4, <2>5, <2>6, <2>7
<1>3. WaitOnce(tt)
  BY <1>2 DEF WaitOnce
<1> QED BY <1>1, <1>2, <1>3 DEF tt

LEMMA PoolGains ==
    ASSUME NEW ss \in Seq(Session), WaitOnce(ss), NEW i \in DOMAIN ss,
           NEW c \in Calls, ~Waits(ss, c)
    PROVE  LET tt == Send(ss, i, c) IN
           /\ WaitOnce(tt)
           /\ \A g \in Calls : Waits(tt, g) <=> Waits(ss, g) \/ g = c
           /\ \A g \in Calls, j \in DOMAIN ss :
                 Has(tt[j], g) <=> Has(ss[j], g) \/ (g = c /\ j = i)
<1> DEFINE tt == Send(ss, i, c)
<1>1. ss[i] \in Session
  BY Positions
<1>2. PICK w \in Session :
        /\ tt = [ss EXCEPT ![i] = w]
        /\ w.inbox = Append(ss[i].inbox, c) /\ w.tasks = ss[i].tasks
        /\ w.answered = ss[i].answered
  BY SendTyped
<1>3. DOMAIN tt = DOMAIN ss /\ tt[i] = w /\ \A j \in DOMAIN ss : j # i => tt[j] = ss[j]
  BY <1>2
<1> HIDE DEF tt
<1>4. \A g \in Calls : HasOnce(ss[i], g) /\ (g = c => ~Has(ss[i], g))
                       => HasOnce(w, g) /\ (Has(w, g) <=> Has(ss[i], g) \/ g = c)
  BY <1>1, <1>2, SentGains
<1>5. ASSUME NEW g \in Calls
      PROVE  /\ \A j \in DOMAIN tt : HasOnce(tt[j], g)
             /\ \A j \in DOMAIN tt : Has(tt[j], g) <=> Has(ss[j], g) \/ (g = c /\ j = i)
             /\ \A j, k \in DOMAIN tt : Has(tt[j], g) /\ Has(tt[k], g) => j = k
             /\ Waits(tt, g) <=> Waits(ss, g) \/ g = c
  <2>1. /\ \A j \in DOMAIN ss : HasOnce(ss[j], g)
        /\ \A j, k \in DOMAIN ss : Has(ss[j], g) /\ Has(ss[k], g) => j = k
        /\ g = c => \A j \in DOMAIN ss : ~Has(ss[j], g)
    BY DEF WaitOnce, Waits
  <2>2. HasOnce(tt[i], g) /\ (Has(tt[i], g) <=> Has(ss[i], g) \/ g = c)
    BY <1>3, <1>4, <2>1
  <2>3. \A j \in DOMAIN tt : HasOnce(tt[j], g)
    BY <1>3, <2>1, <2>2
  <2>4. \A j \in DOMAIN tt : Has(tt[j], g) <=> Has(ss[j], g) \/ (g = c /\ j = i)
    BY <1>3, <2>1, <2>2
  <2>5. \A j, k \in DOMAIN tt : Has(tt[j], g) /\ Has(tt[k], g) => j = k
    BY <1>3, <2>1, <2>4
  <2>6. Waits(tt, g) <=> Waits(ss, g) \/ g = c
    BY <1>3, <2>4 DEF Waits
  <2> QED BY <2>3, <2>4, <2>5, <2>6
<1>6. WaitOnce(tt)
  BY <1>5 DEF WaitOnce
<1> QED BY <1>3, <1>5, <1>6 DEF tt

LEMMA PoolGrows ==
    ASSUME NEW ss \in Seq(Session), WaitOnce(ss), NEW e \in Endpoint
    PROVE  LET tt == Append(ss, NewSession(e)) IN
           /\ WaitOnce(tt)
           /\ \A g : Waits(tt, g) <=> Waits(ss, g)
           /\ \A g : ~Has(NewSession(e), g)
<1> DEFINE tt == Append(ss, NewSession(e))
           n == Len(ss) + 1
<1>1. /\ DOMAIN ss = 1 .. Len(ss) /\ Len(ss) \in Nat /\ DOMAIN tt = 1 .. n
      /\ tt[n] = NewSession(e) /\ \A j \in DOMAIN ss : tt[j] = ss[j]
  <2>1. NewSession(e) \in Session
    <3>1. <<>> \in Seq(Calls) /\ <<>> \in Seq(Fetches)
      OBVIOUS
    <3> QED BY <3>1 DEF NewSession, Session
  <2>2. tt \in Seq(Session) /\ Len(tt) = n
    BY <2>1, Positions
  <2> QED BY <2>1, <2>2, Positions
<1>2. \A g : \A q, k : ~Holds(NewSession(e), g, q, k)
  BY DEF Holds, NewSession
<1>3. \A g : ~Has(NewSession(e), g) /\ HasOnce(NewSession(e), g)
  BY <1>2 DEF Has, HasOnce
<1> HIDE DEF tt
<1>4. \A g : \A j \in DOMAIN tt : Has(tt[j], g) => j \in DOMAIN ss /\ Has(ss[j], g)
  BY <1>1, <1>3
<1>5. \A g : Waits(tt, g) <=> Waits(ss, g)
  BY <1>1, <1>4 DEF Waits
<1>6. WaitOnce(tt)
  <2> SUFFICES ASSUME NEW g \in Calls
               PROVE  /\ \A j \in DOMAIN tt : HasOnce(tt[j], g)
                      /\ \A j, k \in DOMAIN tt : Has(tt[j], g) /\ Has(tt[k], g) => j = k
    BY DEF WaitOnce
  <2>1. /\ \A j \in DOMAIN ss : HasOnce(ss[j], g)
        /\ \A j, k \in DOMAIN ss : Has(ss[j], g) /\ Has(ss[k], g) => j = k
    BY DEF WaitOnce
  <2>2. \A j \in DOMAIN tt : HasOnce(tt[j], g)
    BY <1>1, <1>3, <2>1
  <2> QED BY <1>4, <2>1, <2>2
<1> QED BY <1>3, <1>5, <1>6 DEF tt

-----------------------------------------------------------------------------
(***************************************************************************)
(* Every step keeps the invariant.                                         *)
(***************************************************************************)

\* The fetches of D are answered and wait no more: each is still owed once.
LEMMA OwedOrAnswered ==
    ASSUME answers \in [Fetches -> Seq(Codes)], Owing,
           NEW D, NEW ec \in Codes, Answer(D, ec), UNCHANGED fetch,
           \A f \in Fetches : Waits(sessions, f)' <=> Waits(sessions, f) /\ f \notin D,
           \A f \in Fetches : f \in D => Waits(sessions, f)
    PROVE  Owing'
<1> SUFFICES ASSUME NEW f \in Fetches
             PROVE  (IF fetch[f] = "sent"
                     THEN \/ Waits(sessions, f) /\ answers[f] = <<>>
                          \/ ~Waits(sessions, f) /\ Len(answers[f]) = 1
                     ELSE ~Waits(sessions, f) /\ answers[f] = <<>>)'
  BY DEF Owing
<1>1. CASE f \in D
  <2>1. answers[f] = <<>> /\ fetch[f] = "sent"
    BY <1>1 DEF Owing
  <2>2. answers'[f] = Append(answers[f], ec)
    BY <1>1 DEF Answer
  <2>3. Len(answers'[f]) = 1
    BY <2>1, <2>2
  <2> QED BY <1>1, <2>1, <2>3
<1>2. CASE f \notin D
  <2>1. answers'[f] = answers[f]
    BY <1>2 DEF Answer
  <2> QED BY <1>2, <2>1 DEF Owing
<1> QED BY <1>1, <1>2

\* From ss to tt no session starts again, and none that is quiet gets a task.
Settles(ss, tt) ==
    /\ Len(ss) <= Len(tt)
    /\ \A i \in DOMAIN ss : /\ ~ss[i].running => ~tt[i].running
                            /\ Quiet(ss, i) => Quiet(tt, i)

LEMMA WalkedSettles ==
    ASSUME NEW ss \in Seq(Session), NEW tt \in Seq(Session), Settles(ss, tt),
           NEW t \in StopState, WalkedBy(t, ss)
    PROVE  WalkedBy(t, tt)
<1>1. /\ DOMAIN ss = 1 .. Len(ss) /\ Len(ss) \in Nat /\ Len(tt) \in Nat
      /\ t.at \in Nat /\ t.end \in Nat
  BY DEF StopState
<1>2. t.end <= Len(ss) /\ t.end <= Len(tt) /\ 1 .. t.end \subseteq DOMAIN ss
  BY <1>1 DEF WalkedBy, Settles
<1>3. /\ t.pc \in {"stopping", "waiting"} => t.at \in 1 .. t.end
      /\ t.pc \in {"stopping", "waiting"} =>
            \A i \in 1 .. t.at - 1 : ~ss[i].running /\ (t.failed \/ Quiet(ss, i))
      /\ t.pc = "waiting" => ~ss[t.at].running
      /\ t.pc = "ok" => \A i \in 1 .. t.end : Quiet(ss, i)
  BY DEF WalkedBy
<1>4. ASSUME t.pc \in {"stopping", "waiting"}, NEW i \in 1 .. t.at - 1
      PROVE  ~tt[i].running /\ (t.failed \/ Quiet(tt, i))
  <2>1. i \in DOMAIN ss
    BY <1>1, <1>2, <1>3, <1>4
  <2> QED BY <1>3, <1>4, <2>1 DEF Settles
<1>5. t.pc = "waiting" => ~tt[t.at].running
  BY <1>2, <1>3 DEF Settles
<1>6. t.pc = "ok" => \A i \in 1 .. t.end : Quiet(tt, i)
  BY <1>2, <1>3 DEF Settles
<1>7. t.pc = "idle" => t.end = 0
  BY DEF WalkedBy
<1> QED BY <1>2, <1>3, <1>4, <1>5, <1>6, <1>7 DEF WalkedBy

\* One session is replaced by w.
LEMMA OneSettles ==
    ASSUME NEW ss \in Seq(Session), NEW i \in DOMAIN ss, NEW w \in Session,
           w.running => ss[i].running, Quiet(ss, i) => w.tasks = <<>>
    PROVE  Settles(ss, [ss EXCEPT ![i] = w])
<1> DEFINE tt == [ss EXCEPT ![i] = w]
<1>1. /\ tt \in Seq(Session) /\ Len(tt) = Len(ss) /\ Len(ss) \in Nat
      /\ \A j \in DOMAIN ss : tt[j] = IF j = i THEN w ELSE ss[j]
  OBVIOUS
<1> HIDE DEF tt
<1> QED BY <1>1 DEF Settles, Quiet, tt

LEMMA WalkedKept ==
    ASSUME TypeOK, Walked, sessions' \in Seq(Session), Settles(sessions, sessions'),
           UNCHANGED stop
    PROVE  Walked'
<1>1. sessions \in Seq(Session) /\ stop \in [Stops -> StopState]
  BY Typed
<1> QED BY <1>1, WalkedSettles DEF Walked

\* A step of session i that answers the fetches of D, and no stop.
LEMMA SessionStep ==
    ASSUME ClientInv, NEW i \in DOMAIN sessions, NEW w \in Session, Becomes(i, w),
           NEW D, NEW ec \in Codes, Answer(D, ec), Loses(sessions[i], w, D),
           \A f \in D : Has(sessions[i], f),
           w.answered => w.tasks # <<>>,
           w.running => sessions[i].running,
           Quiet(sessions, i) => w.tasks = <<>>,
           UNCHANGED <<proxies, maxPending, fetch, stop>>
    PROVE  ClientInv'
<1> USE DEF ClientInv
<1>1. /\ sessions \in Seq(Session) /\ answers \in [Fetches -> Seq(Codes)]
  BY Typed
<1>2. sessions' \in Seq(Session)
  BY <1>1, Positions DEF Becomes
<1>3. answers' \in [Fetches -> Seq(Codes)]
  BY <1>1, AnswerTyped
<1>4. TypeOK'
  BY <1>2, <1>3 DEF TypeOK, Session
<1>5. /\ WaitOnce(sessions')
      /\ \A g \in Calls : Waits(sessions', g) <=> Waits(sessions, g) /\ g \notin D
      /\ \A g \in Calls, j \in DOMAIN sessions : Has(sessions'[j], g) => Has(sessions[j], g)
  <2> DEFINE tt == [sessions EXCEPT ![i] = w]
  <2>1. WaitOnce(sessions)
    OBVIOUS
  <2>2. /\ WaitOnce(tt)
        /\ \A g \in Calls : Waits(tt, g) <=> Waits(sessions, g) /\ g \notin D
        /\ \A g \in Calls, j \in DOMAIN sessions : Has(tt[j], g) => Has(sessions[j], g)
    BY ONLY <1>1, <2>1, i \in DOMAIN sessions, w \in Session, PoolLoses,
       Loses(sessions[i], w, D), \A f \in D : Has(sessions[i], f)
  <2> QED BY <2>2 DEF Becomes
<1>6. /\ DOMAIN sessions' = DOMAIN sessions
      /\ \A j \in DOMAIN sessions : sessions'[j] = IF j = i THEN w ELSE sessions[j]
  BY <1>1 DEF Becomes
<1>7. FrontAnswered(sessions')
  BY <1>6 DEF FrontAnswered
<1>8. Owing'
  <2>1. \A f \in D : Waits(sessions, f)
    BY DEF Waits
  <2>2. \A f \in Fetches : Waits(sessions', f) <=> Waits(sessions, f) /\ f \notin D
    BY <1>5 DEF Calls
  <2> QED BY <1>1, <2>1, <2>2, OwedOrAnswered DEF Waits
<1>9. StopsInOrder'
  BY <1>5, <1>6 DEF StopsInOrder, Calls
<1>10. Walked'
  BY <1>1, <1>2, OneSettles, WalkedKept DEF Becomes
<1> QED BY <1>4, <1>5, <1>7, <1>8, <1>9, <1>10

LEMMA NobodyAnswered ==
    ASSUME answers \in [Fetches -> Seq(Codes)], UNCHANGED answers
    PROVE  Answer({}, "ok") /\ "ok" \in Codes
BY DEF Answer, Codes

LEMMA RunPushStep ==
    ASSUME ClientInv, NEW i \in DOMAIN sessions, RunPush(i)
    PROVE  ClientInv'
<1> DEFINE s == sessions[i]
<1>1. /\ TypeOK /\ s \in Session /\ answers \in [Fetches -> Seq(Codes)]
      /\ s.answered => s.tasks # <<>>
  BY Typed, Positions DEF ClientInv, FrontAnswered
<1>2. PICK w \in Session, f \in Fetches :
             /\ Becomes(i, w) /\ s.inbox # <<>> /\ f = Head(s.inbox)
             /\ w.inbox = Tail(s.inbox) /\ w.running = s.running
             /\ w.answered = s.answered
             /\ \/ /\ s.running /\ w.tasks = Append(s.tasks, f)
                   /\ UNCHANGED answers
                \/ /\ ~s.running /\ w.tasks = s.tasks
                   /\ Answer({f}, "aborted")
  BY <1>1, PushEffect
<1>3. UNCHANGED <<proxies, maxPending, fetch, stop>>
  BY DEF RunPush
<1>4. CASE s.running /\ w.tasks = Append(s.tasks, f) /\ UNCHANGED answers
  <2>1. Loses(s, w, {})
    BY <1>1, <1>2, <1>4, PushedLoses
  <2>2. Answer({}, "ok") /\ "ok" \in Codes
    BY <1>1, <1>4, NobodyAnswered
  <2>3. w.answered => w.tasks # <<>>
    <3>1. s.tasks \in Seq(Fetches)
      BY <1>1 DEF Session
    <3> QED BY <1>4, <3>1
  <2>4. ~Quiet(sessions, i)
    BY <1>4 DEF Quiet
  <2> QED BY <1>2, <1>3, <2>4, <2>1, <2>2, <2>3, SessionStep
<1>5. CASE ~s.running /\ w.tasks = s.tasks /\ Answer({f}, "aborted")
  <2>1. Loses(s, w, {f}) /\ Has(s, f)
    BY <1>1, <1>2, <1>5, PoppedLoses
  <2>2. "aborted" \in Codes
    BY DEF Codes
  <2>3. (w.answered => w.tasks # <<>>) /\ (Quiet(sessions, i) => w.tasks = <<>>)
    BY <1>1, <1>2, <1>5 DEF Quiet
  <2> QED BY <1>2, <1>3, <1>5, <2>1, <2>2, <2>3, SessionStep
<1> QED BY <1>2, <1>4, <1>5

LEMMA AnswerFrontStep ==
    ASSUME ClientInv, NEW i \in DOMAIN sessions, AnswerFront(i)
    PROVE  ClientInv'
<1> DEFINE s == sessions[i]
<1>1. TypeOK /\ s \in Session
  BY Typed, Positions DEF ClientInv
<1>2. PICK w \in Session, ec \in Codes :
             /\ Becomes(i, w) /\ s.tasks # <<>> /\ ~s.answered
             /\ w.inbox = s.inbox /\ w.tasks = s.tasks
             /\ w.answered /\ (w.running => s.running)
             /\ Answer({Head(s.tasks)}, ec)
  BY <1>1, AnswerEffect
<1>3. UNCHANGED <<proxies, maxPending, fetch, stop>>
  BY DEF AnswerFront
<1>4. Loses(s, w, {Head(s.tasks)}) /\ Has(s, Head(s.tasks))
  BY <1>1, <1>2, AnsweredLoses
<1>5. Quiet(sessions, i) => w.tasks = <<>>
  BY <1>2 DEF Quiet
<1> QED BY <1>2, <1>3, <1>4, <1>5, SessionStep

LEMMA AdvanceStep ==
    ASSUME ClientInv, NEW i \in DOMAIN sessions, Advance(i)
    PROVE  ClientInv'
<1> DEFINE s == sessions[i]
           rest == Tail(s.tasks)
           D == {rest[k] : k \in DOMAIN rest}
<1>1. /\ TypeOK /\ s \in Session /\ s.tasks # <<>>
      /\ answers \in [Fetches -> Seq(Codes)]
  BY Typed, Positions DEF ClientInv, FrontAnswered, Advance
<1>2. PICK w \in Session :
             /\ Becomes(i, w) /\ s.answered
             /\ w.inbox = s.inbox /\ w.running = s.running /\ ~w.answered
             /\ \/ s.running /\ w.tasks = rest /\ UNCHANGED answers
                \/ ~s.running /\ w.tasks = <<>> /\ Answer(D, "aborted")
  BY <1>1, AdvanceEffect
<1>3. UNCHANGED <<proxies, maxPending, fetch, stop>> /\ ~Quiet(sessions, i)
  BY <1>1 DEF Advance, Quiet
<1>4. CASE s.running /\ w.tasks = rest /\ UNCHANGED answers
  <2>1. Loses(s, w, {})
    BY <1>1, <1>2, <1>4, AdvancedLoses
  <2>2. Answer({}, "ok") /\ "ok" \in Codes
    BY <1>1, <1>4, NobodyAnswered
  <2> QED BY <1>2, <1>3, <2>1, <2>2, SessionStep
<1>5. CASE ~s.running /\ w.tasks = <<>> /\ Answer(D, "aborted")
  <2>1. Loses(s, w, D) /\ \A f \in D : Has(s, f)
    BY <1>1, <1>2, <1>5, AbortedLoses
  <2>2. "aborted" \in Codes
    BY DEF Codes
  <2> HIDE DEF D
  <2> QED BY <1>2, <1>3, <1>5, <2>1, <2>2, SessionStep
<1> QED BY <1>2, <1>4, <1>5

\* Steps that answer no fetch and send none: a call of Stops comes or goes.
LEMMA OwingKept ==
    ASSUME TypeOK, Owing, UNCHANGED <<answers, fetch>>,
           \A f \in Fetches : Waits(sessions', f) <=> Waits(sessions, f)
    PROVE  Owing'
BY DEF Owing, Waits

LEMMA StopSessionStep ==
    ASSUME ClientInv, NEW i \in DOMAIN sessions, StopSession(i)
    PROVE  ClientInv'
<1> DEFINE s == sessions[i]
<1>1. /\ sessions \in Seq(Session) /\ s \in Session /\ stop \in [Stops -> StopState]
      /\ TypeOK /\ WaitOnce(sessions) /\ (s.answered => s.tasks # <<>>)
  BY Typed, Positions DEF ClientInv, FrontAnswered
<1>2. PICK w \in Session, c \in Stops :
             /\ Becomes(i, w) /\ s.inbox # <<>> /\ c = Head(s.inbox)
             /\ w.inbox = Tail(s.inbox) /\ ~w.running
             /\ w.answered = s.answered /\ w.tasks = s.tasks
             /\ stop' = [stop EXCEPT ![c].pc = "waiting"]
  BY <1>1, StopEffect
<1>3. UNCHANGED <<proxies, maxPending, answers, fetch>>
  BY DEF StopSession
<1>4. /\ sessions' \in Seq(Session) /\ DOMAIN sessions' = DOMAIN sessions
      /\ \A j \in DOMAIN sessions : sessions'[j] = IF j = i THEN w ELSE sessions[j]
  BY <1>1, <1>2 DEF Becomes
<1>5. Loses(s, w, {c}) /\ Has(s, c) /\ c \in Calls
  BY <1>1, <1>2, PoppedLoses DEF Calls
<1>6. /\ WaitOnce(sessions')
      /\ \A g \in Calls : Waits(sessions', g) <=> Waits(sessions, g) /\ g # c
      /\ \A g \in Calls, j \in DOMAIN sessions : Has(sessions'[j], g) => Has(sessions[j], g)
  <2> DEFINE tt == [sessions EXCEPT ![i] = w]
  <2> DEFINE D == {c}
  <2>1. Loses(s, w, D) /\ \A g \in D : Has(s, g)
    BY <1>5
  <2> HIDE DEF D
  <2>2. /\ WaitOnce(tt)
        /\ \A g \in Calls : Waits(tt, g) <=> Waits(sessions, g) /\ g \notin D
        /\ \A g \in Calls, j \in DOMAIN sessions : Has(tt[j], g) => Has(sessions[j], g)
    BY ONLY <1>1, <2>1, i \in DOMAIN sessions, w \in Session, PoolLoses
  <2> QED BY <1>2, <2>2 DEF Becomes, D
<1>7. stop[c] \in StopState /\ stop[c].pc = "stopping" /\ stop[c].at = i
  BY <1>1, <1>5 DEF ClientInv, StopsInOrder
<1> DEFINE u == [stop[c] EXCEPT !.pc = "waiting"]
<1>8. /\ u \in StopState /\ u.pc = "waiting" /\ u.at = i
      /\ u.end = stop[c].end /\ u.failed = stop[c].failed
  BY <1>7 DEF StopState
<1>9. /\ stop' \in [Stops -> StopState] /\ stop'[c] = u
      /\ \A d \in Stops : d # c => stop'[d] = stop[d]
  BY <1>1, <1>2, <1>8
<1> HIDE DEF u
<1>10. TypeOK'
  BY <1>1, <1>3, <1>4, <1>9 DEF TypeOK, Session, StopState
<1>11. FrontAnswered(sessions')
  BY <1>1, <1>2, <1>4 DEF ClientInv, FrontAnswered
<1>12. Owing'
  <2>1. \A f \in Fetches : f # c /\ f \in Calls
    BY CallsAssumption DEF Calls
  <2> QED BY <1>1, <1>3, <1>6, <2>1, OwingKept DEF ClientInv
<1>13. StopsInOrder'
  <2> SUFFICES ASSUME NEW d \in Stops, NEW j \in DOMAIN sessions, Has(sessions'[j], d)
               PROVE  stop'[d].pc = "stopping" /\ stop'[d].at = j
    BY <1>4 DEF StopsInOrder
  <2>1. d \in Calls /\ d # c
    BY <1>4, <1>6 DEF Calls, Waits
  <2> QED BY <1>6, <1>9, <2>1 DEF ClientInv, StopsInOrder
<1>14. Walked'
  <2>1. Settles(sessions, sessions')
    BY <1>1, <1>2, OneSettles DEF Becomes, Quiet
  <2>2. \A d \in Stops : stop[d] \in StopState /\ WalkedBy(stop[d], sessions')
    BY <1>1, <1>4, <2>1, WalkedSettles DEF ClientInv, Walked
  <2>3. ~sessions'[i].running
    BY <1>2, <1>4
  <2>4. WalkedBy(u, sessions')
    BY <1>7, <1>8, <2>2, <2>3 DEF WalkedBy
  <2> QED BY <1>9, <2>2, <2>4 DEF Walked
<1> QED BY <1>6, <1>10, <1>11, <1>12, <1>13, <1>14 DEF ClientInv

\* The client sends session i a call that nobody waits with.
LEMMA SendKeeps ==
    ASSUME NEW ss \in Seq(Session), WaitOnce(ss), FrontAnswered(ss),
           NEW i \in DOMAIN ss, NEW c \in Calls, ~Waits(ss, c),
           NEW tt, tt = Send(ss, i, c)
    PROVE  /\ tt \in Seq(Session) /\ DOMAIN tt = DOMAIN ss
           /\ FrontAnswered(tt) /\ Settles(ss, tt) /\ WaitOnce(tt)
           /\ \A g \in Calls : Waits(tt, g) <=> Waits(ss, g) \/ g = c
           /\ \A g \in Calls, j \in DOMAIN ss :
                 Has(tt[j], g) <=> Has(ss[j], g) \/ (g = c /\ j = i)
<1>1. PICK w \in Session :
        /\ Send(ss, i, c) = [ss EXCEPT ![i] = w]
        /\ w.tasks = ss[i].tasks /\ w.answered = ss[i].answered
        /\ w.running = ss[i].running
  BY SendTyped
<1>2. /\ tt \in Seq(Session) /\ DOMAIN tt = DOMAIN ss
      /\ \A j \in DOMAIN ss : tt[j] = IF j = i THEN w ELSE ss[j]
  BY <1>1
<1>3. FrontAnswered(tt)
  BY <1>1, <1>2 DEF FrontAnswered
<1>4. Settles(ss, tt)
  BY <1>1, OneSettles DEF Quiet
<1>5. /\ WaitOnce(tt)
      /\ \A g \in Calls : Waits(tt, g) <=> Waits(ss, g) \/ g = c
      /\ \A g \in Calls, j \in DOMAIN ss :
            Has(tt[j], g) <=> Has(ss[j], g) \/ (g = c /\ j = i)
  BY PoolGains
<1> QED BY <1>2, <1>3, <1>4, <1>5

\* A fetch that was idle is sent to session i of ss, the pool with or without a
\* new session.
LEMMA FetchSent ==
    ASSUME ClientInv,
           NEW f \in Fetches, fetch[f] = "idle", fetch' = [fetch EXCEPT ![f] = "sent"],
           UNCHANGED <<proxies, maxPending, answers, stop>>,
           NEW ss \in Seq(Session), WaitOnce(ss), FrontAnswered(ss),
           Settles(sessions, ss),
           \A g : Waits(ss, g) <=> Waits(sessions, g),
           \A g, j : j \in DOMAIN ss /\ Has(ss[j], g)
                     => j \in DOMAIN sessions /\ Has(sessions[j], g),
           NEW i \in DOMAIN ss, sessions' = Send(ss, i, f)
    PROVE  ClientInv'
<1>1. /\ sessions \in Seq(Session) /\ stop \in [Stops -> StopState]
      /\ fetch \in [Fetches -> {"idle", "sent", "thrown"}] /\ TypeOK
      /\ Owing /\ f \in Calls
  BY Typed DEF ClientInv, Calls
<1>2. ~Waits(sessions, f) /\ answers[f] = <<>>
  BY <1>1 DEF Owing
<1>3. /\ sessions' \in Seq(Session) /\ DOMAIN sessions' = DOMAIN ss
      /\ FrontAnswered(sessions') /\ Settles(ss, sessions') /\ WaitOnce(sessions')
      /\ \A g \in Calls : Waits(sessions', g) <=> Waits(ss, g) \/ g = f
      /\ \A g \in Calls, j \in DOMAIN ss :
            Has(sessions'[j], g) <=> Has(ss[j], g) \/ (g = f /\ j = i)
  BY <1>1, <1>2, SendKeeps
<1>4. TypeOK'
  BY <1>1, <1>3 DEF TypeOK, Session
<1>5. Owing'
  <2> SUFFICES ASSUME NEW g \in Fetches
               PROVE  IF fetch'[g] = "sent"
                      THEN \/ Waits(sessions', g) /\ answers'[g] = <<>>
                           \/ ~Waits(sessions', g) /\ Len(answers'[g]) = 1
                      ELSE ~Waits(sessions', g) /\ answers'[g] = <<>>
    BY DEF Owing, Waits
  <2>1. /\ g \in Calls /\ answers' = answers
        /\ Waits(sessions', g) <=> Waits(sessions, g) \/ g = f
        /\ fetch'[g] = IF g = f THEN "sent" ELSE fetch[g]
    BY <1>1, <1>3 DEF Calls
  <2> QED BY <1>1, <1>2, <2>1 DEF Owing
<1>6. StopsInOrder'
  <2> SUFFICES ASSUME NEW d \in Stops, NEW j \in DOMAIN sessions', Has(sessions'[j], d)
               PROVE  stop[d].pc = "stopping" /\ stop[d].at = j
    BY DEF StopsInOrder
  <2>1. d \in Calls /\ d # f
    BY CallsAssumption DEF Calls
  <2>2. j \in DOMAIN sessions /\ Has(sessions[j], d)
    BY <1>3, <2>1
  <2> QED BY <2>2 DEF ClientInv, StopsInOrder
<1>7. Settles(sessions, sessions')
  <2>1. /\ DOMAIN sessions \subseteq DOMAIN ss /\ Len(sessions) <= Len(sessions')
    BY <1>1, <1>3 DEF Settles
  <2> QED BY <1>3, <2>1 DEF Settles
<1>8. Walked'
  BY <1>1, <1>3, <1>7, WalkedKept DEF ClientInv
<1> QED BY <1>3, <1>4, <1>5, <1>6, <1>8 DEF ClientInv

LEMMA FetchStep ==
    ASSUME ClientInv, NEW f \in Fetches, Fetch(f)
    PROVE  ClientInv'
<1>1. /\ sessions \in Seq(Session) /\ TypeOK /\ WaitOnce(sessions)
      /\ FrontAnswered(sessions) /\ Owing
  BY Typed DEF ClientInv
<1>2. CASE Throws(proxies, UrlOf[f])
  <2>1. /\ fetch[f] = "idle" /\ fetch' = [fetch EXCEPT ![f] = "thrown"]
        /\ UNCHANGED <<proxies, maxPending, sessions, answers, stop>>
    BY <1>2 DEF Fetch
  <2>2. TypeOK'
    BY <1>1, <2>1 DEF TypeOK
  <2>3. fetch \in [Fetches -> {"idle", "sent", "thrown"}]
    BY <1>1, Typed
  <2>4. Owing'
    BY <1>1, <2>1, <2>3 DEF Owing, Waits
  <2>5. StopsInOrder'
    BY <2>1 DEF ClientInv, StopsInOrder
  <2>6. Walked'
    BY <2>1 DEF ClientInv, Walked, WalkedBy, Quiet
  <2> QED BY <1>1, <2>1, <2>2, <2>4, <2>5, <2>6 DEF ClientInv
<1>3. CASE ~Throws(proxies, UrlOf[f])
  <2>1. /\ fetch[f] = "idle" /\ fetch' = [fetch EXCEPT ![f] = "sent"]
        /\ UNCHANGED <<proxies, maxPending, answers, stop>>
        /\ \/ \E i \in DOMAIN sessions : sessions' = Send(sessions, i, f)
           \/ \E e \in Endpoint :
                sessions' = Send(Append(sessions, NewSession(e)), Len(sessions) + 1, f)
    BY <1>1, <1>3, FetchEffect
  <2>2. ASSUME NEW i \in DOMAIN sessions, sessions' = Send(sessions, i, f)
        PROVE  ClientInv'
    <3>1. Settles(sessions, sessions)
      BY <1>1 DEF Settles
    <3>2. /\ \A g : Waits(sessions, g) <=> Waits(sessions, g)
          /\ \A g, j : j \in DOMAIN sessions /\ Has(sessions[j], g)
                       => j \in DOMAIN sessions /\ Has(sessions[j], g)
      OBVIOUS
    <3> QED BY <1>1, <2>1, <2>2, <3>1, <3>2, FetchSent
  <2>3. ASSUME NEW e \in Endpoint,
               sessions' = Send(Append(sessions, NewSession(e)), Len(sessions) + 1, f)
        PROVE  ClientInv'
    <3> DEFINE ss == Append(sessions, NewSession(e))
               n == Len(sessions) + 1
    <3>1. /\ NewSession(e) \in Session /\ ss \in Seq(Session) /\ Len(ss) = n
          /\ ss[n] = NewSession(e) /\ \A i \in DOMAIN sessions : ss[i] = sessions[i]
      BY <1>1, NewSessionTyped
    <3>2. /\ DOMAIN sessions = 1 .. Len(sessions) /\ Len(sessions) \in Nat
          /\ DOMAIN ss = 1 .. n /\ n \in DOMAIN ss
      BY <1>1, <3>1
    <3>3. /\ WaitOnce(ss) /\ \A g : Waits(ss, g) <=> Waits(sessions, g)
          /\ \A g : ~Has(ss[n], g)
      BY <1>1, <3>1, PoolGrows
    <3> HIDE DEF ss
    <3>4. FrontAnswered(ss)
      BY <1>1, <3>1, <3>2 DEF FrontAnswered, NewSession
    <3>5. Settles(sessions, ss)
      BY <3>1, <3>2 DEF Settles, Quiet
    <3>6. \A g, j : j \in DOMAIN ss /\ Has(ss[j], g)
                    => j \in DOMAIN sessions /\ Has(sessions[j], g)
      BY <3>1, <3>2, <3>3
    <3>7. sessions' = Send(ss, n, f)
      BY <2>3 DEF ss
    <3> QED BY <1>1, <2>1, <3>1, <3>2, <3>3, <3>4, <3>5, <3>6, <3>7, FetchSent
  <2> QED BY <2>1, <2>2, <2>3
<1> QED BY <1>2, <1>3

\* Stop c is sent to session n ...
LEMMA StopSent ==
    ASSUME ClientInv, NEW c \in Stops, stop[c].pc # "stopping",
           NEW n \in DOMAIN sessions, sessions' = Send(sessions, n, c),
           NEW t \in StopState, t.pc = "stopping", t.at = n, WalkedBy(t, sessions),
           stop' = [stop EXCEPT ![c] = t],
           UNCHANGED <<proxies, maxPending, answers, fetch>>
    PROVE  ClientInv'
<1>1. /\ sessions \in Seq(Session) /\ stop \in [Stops -> StopState] /\ TypeOK
      /\ WaitOnce(sessions) /\ FrontAnswered(sessions) /\ c \in Calls
  BY Typed DEF ClientInv, Calls
<1>2. ~Waits(sessions, c)
  BY DEF ClientInv, StopsInOrder, Waits
<1>3. /\ sessions' \in Seq(Session) /\ DOMAIN sessions' = DOMAIN sessions
      /\ FrontAnswered(sessions') /\ Settles(sessions, sessions') /\ WaitOnce(sessions')
      /\ \A g \in Calls : Waits(sessions', g) <=> Waits(sessions, g) \/ g = c
      /\ \A g \in Calls, j \in DOMAIN sessions :
            Has(sessions'[j], g) <=> Has(sessions[j], g) \/ (g = c /\ j = n)
  BY <1>1, <1>2, SendKeeps
<1>4. /\ stop' \in [Stops -> StopState] /\ stop'[c] = t
      /\ \A d \in Stops : d # c => stop'[d] = stop[d]
  BY <1>1
<1>5. TypeOK'
  BY <1>1, <1>3, <1>4 DEF TypeOK, Session, StopState
<1>6. Owing'
  <2>1. \A f \in Fetches : f # c /\ f \in Calls
    BY CallsAssumption DEF Calls
  <2>2. \A f \in Fetches : Waits(sessions', f) <=> Waits(sessions, f)
    BY <1>3, <2>1
  <2> QED BY <1>1, <2>2, OwingKept DEF ClientInv
<1>7. StopsInOrder'
  <2> SUFFICES ASSUME NEW d \in Stops, NEW j \in DOMAIN sessions, Has(sessions'[j], d)
               PROVE  stop'[d].pc = "stopping" /\ stop'[d].at = j
    BY <1>3 DEF StopsInOrder
  <2>1. d \in Calls /\ (Has(sessions[j], d) \/ (d = c /\ j = n))
    BY <1>3 DEF Calls
  <2>2. ~Has(sessions[j], c)
    BY <1>2 DEF Waits
  <2> QED BY <1>4, <2>1, <2>2 DEF ClientInv, StopsInOrder
<1>8. Walked'
  <2>1. WalkedBy(t, sessions')
    BY <1>1, <1>3, WalkedSettles
  <2>2. \A d \in Stops : stop[d] \in StopState /\ WalkedBy(stop[d], sessions')
    BY <1>1, <1>3, WalkedSettles DEF ClientInv, Walked
  <2> QED BY <1>4, <2>1, <2>2 DEF Walked
<1> QED BY <1>3, <1>5, <1>6, <1>7, <1>8 DEF ClientInv

\* ... or ends.
LEMMA StopEnds ==
    ASSUME ClientInv, NEW c \in Stops, stop[c].pc # "stopping",
           NEW t \in StopState, t.pc \in {"ok", "aborted"}, WalkedBy(t, sessions),
           stop' = [stop EXCEPT ![c] = t],
           UNCHANGED <<proxies, maxPending, sessions, answers, fetch>>
    PROVE  ClientInv'
<1>1. /\ sessions \in Seq(Session) /\ stop \in [Stops -> StopState] /\ TypeOK
      /\ WaitOnce(sessions) /\ FrontAnswered(sessions)
  BY Typed DEF ClientInv
<1>2. /\ stop' \in [Stops -> StopState] /\ stop'[c] = t
      /\ \A d \in Stops : d # c => stop'[d] = stop[d]
  BY <1>1
<1>3. TypeOK'
  BY <1>1, <1>2 DEF TypeOK, StopState
<1>4. Owing'
  BY <1>1, OwingKept DEF ClientInv
<1>5. StopsInOrder'
  BY <1>2 DEF ClientInv, StopsInOrder
<1>6. Walked'
  BY <1>2 DEF ClientInv, Walked
<1> QED BY <1>1, <1>3, <1>4, <1>5, <1>6 DEF ClientInv

LEMMA StopCallStep ==
    ASSUME ClientInv, NEW c \in Stops, StopCall(c)
    PROVE  ClientInv'
<1>1. /\ sessions \in Seq(Session) /\ stop \in [Stops -> StopState]
      /\ stop[c] \in StopState /\ stop[c].pc = "idle"
  BY Typed DEF ClientInv, StopCall
<1>2. UNCHANGED <<proxies, maxPending, answers, fetch>>
  BY DEF StopCall
<1>3. CASE sessions = <<>> /\ stop' = [stop EXCEPT ![c].pc = "ok"] /\ UNCHANGED sessions
  <2> DEFINE t == [stop[c] EXCEPT !.pc = "ok"]
  <2>1. stop' = [stop EXCEPT ![c] = t]
    BY <1>3
  <2>2. /\ t \in StopState /\ t.pc = "ok" /\ t.end = stop[c].end
    BY <1>1 DEF StopState
  <2>3. stop[c].end = 0
    BY <1>1 DEF ClientInv, Walked, WalkedBy
  <2> HIDE DEF t
  <2>4. WalkedBy(t, sessions)
    BY <1>3, <2>2, <2>3 DEF WalkedBy
  <2> QED BY <1>1, <1>2, <1>3, <2>1, <2>2, <2>4, StopEnds
<1>4. CASE /\ sessions # <<>>
           /\ stop' = [stop EXCEPT ![c] = [pc |-> "stopping", at |-> 1,
                                           end |-> Len(sessions), failed |-> FALSE]]
           /\ sessions' = Send(sessions, 1, c)
  <2> DEFINE t == [pc |-> "stopping", at |-> 1, end |-> Len(sessions), failed |-> FALSE]
  <2>1. Len(sessions) \in Nat /\ Len(sessions) >= 1 /\ 1 \in DOMAIN sessions
    BY <1>1, <1>4
  <2>2. t \in StopState /\ WalkedBy(t, sessions)
    BY <2>1 DEF StopState, WalkedBy
  <2>3. t.pc = "stopping" /\ t.at = 1
    OBVIOUS
  <2>4. stop' = [stop EXCEPT ![c] = t]
    BY <1>4
  <2> HIDE DEF t
  <2> QED BY <1>1, <1>2, <1>4, <2>1, <2>2, <2>3, <2>4, StopSent
<1> QED BY <1>3, <1>4 DEF StopCall

LEMMA SessionStoppedStep ==
    ASSUME ClientInv, NEW c \in Stops, SessionStopped(c)
    PROVE  ClientInv'
<1> DEFINE s == stop[c]
           next == s.at + 1
<1>1. /\ sessions \in Seq(Session) /\ stop \in [Stops -> StopState]
      /\ s \in StopState /\ s.pc = "waiting" /\ WalkedBy(s, sessions)
  BY Typed DEF ClientInv, SessionStopped, Walked
<1>2. /\ s.at \in Nat /\ s.end \in Nat /\ s.at >= 1 /\ s.at <= s.end
      /\ s.end <= Len(sessions) /\ Len(sessions) \in Nat
      /\ ~sessions[s.at].running
      /\ \A i \in 1 .. s.at - 1 :
            ~sessions[i].running /\ (s.failed \/ Quiet(sessions, i))
  BY <1>1 DEF WalkedBy, StopState
<1>3. UNCHANGED <<proxies, maxPending, answers, fetch>>
  BY DEF SessionStopped
<1>4. PICK failed \in IF sessions[s.at].tasks = <<>> THEN BOOLEAN ELSE {TRUE} :
        LET bad == s.failed \/ failed IN
        \/ /\ next <= s.end
           /\ stop' = [stop EXCEPT ![c].at = next, ![c].failed = bad,
                                   ![c].pc = "stopping"]
           /\ sessions' = Send(sessions, next, c)
        \/ /\ next > s.end
           /\ stop' = [stop EXCEPT ![c].at = next, ![c].failed = bad,
                                   ![c].pc = IF bad THEN "aborted" ELSE "ok"]
           /\ UNCHANGED sessions
  BY DEF SessionStopped
<1>5. (s.failed \/ failed) \in BOOLEAN
  OBVIOUS
<1>6. PICK bad \in BOOLEAN : bad = (s.failed \/ failed)
  BY <1>5
<1>7. (s.failed => bad) /\ (bad \/ Quiet(sessions, s.at))
  BY <1>2, <1>4, <1>6 DEF Quiet
<1>8. next \in Nat /\ (next <= s.end => next \in DOMAIN sessions)
  BY <1>1, <1>2
<1>9. \A i \in 1 .. s.at : ~sessions[i].running /\ (bad \/ Quiet(sessions, i))
  BY <1>2, <1>7
<1>10. PICK p \in {"stopping", "ok", "aborted"} :
         /\ stop' = [stop EXCEPT ![c].at = next, ![c].failed = bad, ![c].pc = p]
         /\ \/ next <= s.end /\ p = "stopping" /\ sessions' = Send(sessions, next, c)
            \/ /\ next > s.end /\ p = IF bad THEN "aborted" ELSE "ok"
               /\ UNCHANGED sessions
  <2>1. CASE next <= s.end
    <3>1. "stopping" \in {"stopping", "ok", "aborted"}
      OBVIOUS
    <3>2. /\ stop' = [stop EXCEPT ![c].at = next, ![c].failed = bad,
                                  ![c].pc = "stopping"]
          /\ sessions' = Send(sessions, next, c)
      BY <1>2, <1>4, <1>6, <1>8, <2>1
    <3> HIDE DEF s, next
    <3> QED BY <2>1, <3>1, <3>2
  <2>2. CASE next > s.end
    <3>1. ~(next <= s.end)
      BY <1>2, <1>8, <2>2
    <3>2. CASE bad
      <4>1. /\ stop' = [stop EXCEPT ![c].at = next, ![c].failed = bad,
                                    ![c].pc = "aborted"]
            /\ UNCHANGED sessions
        BY <1>4, <1>6, <3>1, <3>2
      <4> HIDE DEF s, next
      <4> QED BY <2>2, <3>2, <4>1
    <3>3. CASE ~bad
      <4>1. /\ stop' = [stop EXCEPT ![c].at = next, ![c].failed = bad,
                                    ![c].pc = "ok"]
            /\ UNCHANGED sessions
        BY <1>4, <1>6, <3>1, <3>3
      <4> HIDE DEF s, next
      <4> QED BY <2>2, <3>3, <4>1
    <3> QED BY <3>2, <3>3
  <2>3. next <= s.end \/ next > s.end
    BY <1>2, <1>8
  <2> HIDE DEF s, next
  <2> QED BY <2>1, <2>2, <2>3
<1>11. next = s.at + 1
  OBVIOUS
<1> HIDE DEF next
<1> DEFINE t == [s EXCEPT !.at = next, !.failed = bad, !.pc = p]
<1>12. stop' = [stop EXCEPT ![c] = t]
  BY <1>1, <1>10
<1>13. t \in StopState /\ t.pc = p /\ t.at = next /\ t.end = s.end
  BY <1>1, <1>8 DEF StopState
<1>14. t.failed = bad
  BY <1>1 DEF StopState
<1> HIDE DEF t
<1>15. CASE next <= s.end /\ p = "stopping" /\ sessions' = Send(sessions, next, c)
  <2>1. WalkedBy(t, sessions)
    BY <1>2, <1>9, <1>11, <1>13, <1>14, <1>15 DEF WalkedBy
  <2> QED BY <1>1, <1>3, <1>8, <1>12, <1>13, <1>15, <2>1, StopSent
<1>16. CASE /\ next > s.end /\ p = IF bad THEN "aborted" ELSE "ok"
            /\ UNCHANGED sessions
  <2>1. s.at = s.end
    BY <1>2, <1>11, <1>16
  <2>2. WalkedBy(t, sessions)
    BY <1>2, <1>9, <1>13, <1>16, <2>1 DEF WalkedBy
  <2> QED BY <1>1, <1>3, <1>12, <1>13, <1>16, <2>2, StopEnds
<1> QED BY <1>10, <1>15, <1>16

\* The caller configures the client: nothing else changes.
LEMMA ConfigureStep ==
    ASSUME ClientInv, UNCHANGED <<sessions, answers, fetch, stop>>,
           proxies' \in ProxyMaps, maxPending' \in Limits
    PROVE  ClientInv'
<1>1. TypeOK'
  BY DEF ClientInv, TypeOK
<1>2. Owing'
  BY DEF ClientInv, Owing, Waits
<1>3. StopsInOrder'
  BY DEF ClientInv, StopsInOrder
<1>4. Walked'
  BY DEF ClientInv, Walked, WalkedBy, Quiet
<1> QED BY <1>1, <1>2, <1>3, <1>4 DEF ClientInv

LEMMA AddedProxy ==
    ASSUME proxies \in ProxyMaps, NEW p \in Proxies, NEW key \in Matches, AddProxy(key, p)
    PROVE  proxies' \in ProxyMaps
<1> DEFINE K == DOMAIN proxies \cup {key}
<1>1. DOMAIN proxies \subseteq Matches /\ \A k \in DOMAIN proxies : proxies[k] \in Proxies
  BY DEF ProxyMaps
<1>2. \A k \in K : (IF k \in DOMAIN proxies THEN proxies[k] ELSE p) \in Proxies
  BY <1>1
<1>3. proxies' \in [K -> Proxies]
  BY <1>2 DEF AddProxy
<1>4. K \in SUBSET Matches
  BY <1>1
<1> QED BY <1>3, <1>4 DEF ProxyMaps

LEMMA NextKeepsInv ==
    ASSUME ClientInv, [Next]_vars
    PROVE  ClientInv'
<1>1. proxies \in ProxyMaps /\ maxPending \in Limits
  BY Typed DEF ClientInv
<1>2. ASSUME NEW p \in Proxies, NEW key \in Matches, AddProxy(key, p)
      PROVE  ClientInv'
  BY <1>1, <1>2, AddedProxy, ConfigureStep DEF AddProxy
<1>3. ASSUME NEW map \in ProxyMaps, SetProxies(map)
      PROVE  ClientInv'
  BY <1>1, <1>3, ConfigureStep DEF SetProxies
<1>4. ASSUME NEW n \in Limits, SetMaxPending(n)
      PROVE  ClientInv'
  BY <1>1, <1>4, ConfigureStep DEF SetMaxPending
<1>5. ASSUME NEW f \in Fetches, Fetch(f)
      PROVE  ClientInv'
  BY <1>5, FetchStep
<1>6. ASSUME NEW i \in DOMAIN sessions,
             RunPush(i) \/ AnswerFront(i) \/ Advance(i) \/ StopSession(i)
      PROVE  ClientInv'
  BY <1>6, RunPushStep, AnswerFrontStep, AdvanceStep, StopSessionStep
<1>7. ASSUME NEW c \in Stops, StopCall(c) \/ SessionStopped(c)
      PROVE  ClientInv'
  BY <1>7, StopCallStep, SessionStoppedStep
<1>8. CASE UNCHANGED vars
  BY <1>1, <1>8, ConfigureStep DEF vars
<1> QED BY <1>2, <1>3, <1>4, <1>5, <1>6, <1>7, <1>8 DEF Next

LEMMA InitHasInv == Init => ClientInv
<1> SUFFICES ASSUME Init
             PROVE  ClientInv
  OBVIOUS
<1>1. sessions = <<>> /\ DOMAIN sessions = {} /\ Len(sessions) = 0
  BY DEF Init
<1>2. TypeOK
  <2>1. proxies \in ProxyMaps
    <3>1. <<>> \in [{} -> Proxies]
      OBVIOUS
    <3> QED BY <3>1 DEF Init, ProxyMaps
  <2>2. sessions \in Seq(Session)
    BY <1>1
  <2>3. answers \in [Fetches -> Seq(Codes)]
    <3>1. <<>> \in Seq(Codes)
      OBVIOUS
    <3> QED BY <3>1 DEF Init
  <2>4. stop \in [Stops -> StopState]
    BY DEF Init, StopState
  <2>5. maxPending \in Limits /\ fetch \in [Fetches -> {"idle", "sent", "thrown"}]
    BY DEF Init
  <2> QED BY <2>1, <2>2, <2>3, <2>4, <2>5, Typed
<1>3. FrontAnswered(sessions) /\ WaitOnce(sessions) /\ StopsInOrder
  BY <1>1 DEF FrontAnswered, WaitOnce, StopsInOrder
<1>4. Owing
  <2>1. \A f \in Fetches : fetch[f] = "idle" /\ answers[f] = <<>>
    BY DEF Init
  <2> QED BY <1>1, <2>1 DEF Owing, Waits
<1>5. Walked
  <2>1. \A c \in Stops : stop[c].pc = "idle" /\ stop[c].end = 0
    BY DEF Init
  <2> QED BY <1>1, <2>1 DEF Walked, WalkedBy
<1> QED BY <1>2, <1>3, <1>4, <1>5 DEF ClientInv

LEMMA ClientInvariant == Spec => []ClientInv
BY InitHasInv, NextKeepsInv, PTL DEF Spec

-----------------------------------------------------------------------------
(***************************************************************************)
(* The theorems.                                                           *)
(***************************************************************************)

\* Every variable keeps its type: what is sent to a session is sent to one
\* there is, whatever get_session found and whatever a stop walks past.
THEOREM ClientTypes == Spec => []TypeOK
<1>1. ClientInv => TypeOK
  BY DEF ClientInv
<1> QED BY <1>1, ClientInvariant, PTL

\* client_stop_sessions_op answers success only when every session it found
\* when it began is stopped and without a task, fetches and failures meanwhile
\* included.
THEOREM StoppedIsQuiet == Spec => []StopOkMeansQuiet
<1>1. ClientInv => StopOkMeansQuiet
  BY DEF ClientInv, Walked, WalkedBy, Quiet, StopOkMeansQuiet
<1> QED BY <1>1, ClientInvariant, PTL

\* The places that Owed collects are the ones the invariant talks about.
LEMMA OwedPlaces ==
    ASSUME TypeOK, NEW f \in Fetches
    PROVE  /\ \A x \in Owed(f) : \E i \in DOMAIN sessions, q \in Queues, k \in Nat :
                  x = <<i, q, k>> /\ Holds(sessions[i], f, q, k)
           /\ \A i \in DOMAIN sessions, q \in Queues, k \in Nat :
                  Holds(sessions[i], f, q, k) => <<i, q, k>> \in Owed(f)
<1> DEFINE In(i) == {k \in DOMAIN sessions[i].inbox : sessions[i].inbox[k] = f}
           Ta(i) == {k \in DOMAIN sessions[i].tasks :
                        sessions[i].tasks[k] = f /\ (k = 1 => ~sessions[i].answered)}
           At(i) == {<<i, "inbox", k>> : k \in In(i)} \cup {<<i, "tasks", k>> : k \in Ta(i)}
<1>1. Owed(f) = UNION {At(i) : i \in DOMAIN sessions}
  BY DEF Owed
<1>2. ASSUME NEW i \in DOMAIN sessions
      PROVE  In(i) \subseteq Nat /\ Ta(i) \subseteq Nat
  <2>1. sessions[i] \in Session
    BY Typed, Positions
  <2> QED BY <2>1 DEF Session
<1>3. ASSUME NEW i \in DOMAIN sessions, NEW k
      PROVE  /\ k \in In(i) <=> Holds(sessions[i], f, "inbox", k)
             /\ k \in Ta(i) <=> Holds(sessions[i], f, "tasks", k)
  BY DEF Holds
<1> HIDE DEF In, Ta
<1>4. \A x \in Owed(f) : \E i \in DOMAIN sessions, q \in Queues, k \in Nat :
          x = <<i, q, k>> /\ Holds(sessions[i], f, q, k)
  <2> SUFFICES ASSUME NEW i \in DOMAIN sessions, NEW x \in At(i)
               PROVE  \E q \in Queues, k \in Nat :
                          x = <<i, q, k>> /\ Holds(sessions[i], f, q, k)
    BY <1>1
  <2>1. CASE \E k \in In(i) : x = <<i, "inbox", k>>
    BY <1>2, <1>3, <2>1 DEF Queues
  <2>2. CASE \E k \in Ta(i) : x = <<i, "tasks", k>>
    BY <1>2, <1>3, <2>2 DEF Queues
  <2> QED BY <2>1, <2>2
<1>5. ASSUME NEW i \in DOMAIN sessions, NEW q \in Queues, NEW k \in Nat,
             Holds(sessions[i], f, q, k)
      PROVE  <<i, q, k>> \in Owed(f)
  <2>1. <<i, q, k>> \in At(i)
    BY <1>3, <1>5 DEF Queues
  <2> QED BY <1>1, <2>1
<1> QED BY <1>4, <1>5

\* Whatever its sessions do, fail or are stopped, a fetch that async_fetch sent
\* waits in exactly one place or its handler was called exactly once, and never
\* both; one that was not sent, or that threw, has neither.
THEOREM FetchedExactlyOnce == Spec => []ExactlyOnce
<1>1. ClientInv => ExactlyOnce
  <2> SUFFICES ASSUME ClientInv, NEW f \in Fetches
               PROVE  Cardinality(Owed(f)) + Len(answers[f])
                      = IF fetch[f] = "sent" THEN 1 ELSE 0
    BY DEF ExactlyOnce
  <2>1. /\ TypeOK /\ Owing /\ f \in Calls /\ WaitOnce(sessions)
    BY DEF ClientInv, Calls
  <2>2. /\ \A x \in Owed(f) : \E i \in DOMAIN sessions, q \in Queues, k \in Nat :
               x = <<i, q, k>> /\ Holds(sessions[i], f, q, k)
        /\ \A i \in DOMAIN sessions, q \in Queues, k \in Nat :
               Holds(sessions[i], f, q, k) => <<i, q, k>> \in Owed(f)
    BY <2>1, OwedPlaces
  <2>3. ~Waits(sessions, f) => Cardinality(Owed(f)) = 0
    <3>1. ~Waits(sessions, f) => Owed(f) = {}
      BY <2>2 DEF Waits, Has
    <3> QED BY <3>1, FS_EmptySet
  <2>4. Waits(sessions, f) => Cardinality(Owed(f)) = 1
    <3> SUFFICES ASSUME NEW i \in DOMAIN sessions, NEW q \in Queues, NEW k \in Nat,
                        Holds(sessions[i], f, q, k)
                 PROVE  Cardinality(Owed(f)) = 1
      BY DEF Waits, Has
    <3>1. /\ \A j \in DOMAIN sessions : Has(sessions[j], f) => j = i
          /\ HasOnce(sessions[i], f)
      BY <2>1 DEF WaitOnce, Has
    <3>2. ASSUME NEW j \in DOMAIN sessions, NEW r \in Queues, NEW l \in Nat,
                 Holds(sessions[j], f, r, l)
          PROVE  j = i /\ r = q /\ l = k
      <4>1. Has(sessions[j], f)
        BY <3>2 DEF Has
      <4>2. j = i
        BY <3>1, <4>1
      <4> QED BY <3>1, <3>2, <4>2 DEF HasOnce
    <3>3. Owed(f) = {<<i, q, k>>}
      <4>1. \A x \in Owed(f) : x = <<i, q, k>>
        BY <2>2, <3>2
      <4>2. <<i, q, k>> \in Owed(f)
        BY <2>2
      <4> QED BY <4>1, <4>2
    <3> QED BY <3>3, FS_Singleton
  <2>5. Len(answers[f]) = 0 <=> answers[f] = <<>>
    <3>1. answers[f] \in Seq(Codes)
      BY <2>1, Typed
    <3> QED BY <3>1
  <2>6. CASE fetch[f] = "sent"
    <3>1. CASE Waits(sessions, f) /\ answers[f] = <<>>
      BY <2>4, <2>5, <2>6, <3>1
    <3>2. CASE ~Waits(sessions, f) /\ Len(answers[f]) = 1
      BY <2>3, <2>6, <3>2
    <3> QED BY <2>1, <2>6, <3>1, <3>2 DEF Owing
  <2>7. CASE fetch[f] # "sent"
    BY <2>1, <2>3, <2>4, <2>5, <2>7 DEF Owing
  <2> QED BY <2>6, <2>7
<1> QED BY <1>1, ClientInvariant, PTL

-----------------------------------------------------------------------------
(***************************************************************************)
(* Each session of the pool is a RequestQueue.  What was answered is kept  *)
(* in past, and what is kept there was answered: a call that still waits   *)
(* is not known to the queue it is pushed to.                              *)
(***************************************************************************)
Replies == [req : Fetches, ec : Codes]
Record == [refused : SUBSET Fetches, replies : Seq(Replies)]

PastInv ==
    /\ DOMAIN past = DOMAIN sessions
    /\ \A i \in DOMAIN sessions :
          /\ past[i] \in Record
          /\ \A f \in past[i].refused : answers[f] # <<>>
          /\ \A k \in DOMAIN past[i].replies : answers[past[i].replies[k].req] # <<>>

LEMMA PastTyped ==
    ASSUME PastInv, NEW i
    PROVE  /\ Past(i).refused \subseteq Fetches /\ Past(i).replies \in Seq(Replies)
           /\ \A f \in Past(i).refused : answers[f] # <<>>
           /\ \A k \in DOMAIN Past(i).replies : answers[Past(i).replies[k].req] # <<>>
<1>1. CASE i \in DOMAIN past
  <2>1. Past(i) = past[i] /\ past[i] \in Record
    BY <1>1 DEF Past, PastInv
  <2> QED BY <1>1, <2>1 DEF PastInv, Record
<1>2. CASE i \notin DOMAIN past
  <2>1. Past(i).refused = {} /\ Past(i).replies = <<>>
    BY <1>2 DEF Past, Nothing
  <2>2. <<>> \in Seq(Replies) /\ DOMAIN <<>> = {}
    OBVIOUS
  <2> QED BY <2>1, <2>2
<1> QED BY <1>1, <1>2

\* The tasks that wait are tasks.
LEMMA UnansweredTyped ==
    ASSUME NEW s \in Session, s.answered => s.tasks # <<>>
    PROVE  /\ Unanswered(s) \in Seq(Fetches)
           /\ \A k \in DOMAIN Unanswered(s) : Has(s, Unanswered(s)[k])
                 /\ \E l \in Nat : Holds(s, Unanswered(s)[k], "tasks", l)
<1>1. s.tasks \in Seq(Fetches)
  BY DEF Session
<1>2. CASE s.answered
  <2>1. /\ Unanswered(s) = Tail(s.tasks) /\ Tail(s.tasks) \in Seq(Fetches)
        /\ DOMAIN Tail(s.tasks) \subseteq Nat \ {0}
        /\ \A k \in DOMAIN Tail(s.tasks) :
              k + 1 \in DOMAIN s.tasks /\ Tail(s.tasks)[k] = s.tasks[k + 1]
    BY <1>1, <1>2, Positions DEF Unanswered
  <2>2. ASSUME NEW k \in DOMAIN Tail(s.tasks)
        PROVE  k + 1 \in Nat /\ Holds(s, Unanswered(s)[k], "tasks", k + 1)
    BY <2>1, <2>2 DEF Holds
  <2> QED BY <2>1, <2>2 DEF Has, Queues
<1>3. CASE ~s.answered
  <2>1. Unanswered(s) = s.tasks /\ DOMAIN s.tasks \subseteq Nat
    BY <1>1, <1>3 DEF Unanswered
  <2>2. ASSUME NEW k \in DOMAIN s.tasks
        PROVE  k \in Nat /\ Holds(s, Unanswered(s)[k], "tasks", k)
    BY <1>3, <2>1, <2>2 DEF Holds
  <2> QED BY <1>1, <2>1, <2>2 DEF Has, Queues
<1> QED BY <1>2, <1>3

LEMMA WaitingTyped ==
    ASSUME ClientInv, NEW i
    PROVE  /\ Waiting(i) \in Seq(Fetches)
           /\ i \in DOMAIN sessions =>
                 \A k \in DOMAIN Waiting(i) :
                    \E l \in Nat : Holds(sessions[i], Waiting(i)[k], "tasks", l)
<1>1. CASE i \in DOMAIN sessions
  <2>1. sessions[i] \in Session /\ (sessions[i].answered => sessions[i].tasks # <<>>)
    BY <1>1, Typed, Positions DEF ClientInv, FrontAnswered
  <2> QED BY <1>1, <2>1, UnansweredTyped DEF Waiting
<1>2. CASE i \notin DOMAIN sessions
  BY <1>2 DEF Waiting
<1> QED BY <1>1, <1>2

\* Nothing that is in the tasks is at the door of the inbox.
LEMMA NotAtTheDoor ==
    ASSUME ClientInv, NEW i \in DOMAIN sessions, sessions[i].inbox # <<>>,
           NEW f \in Fetches, f = Head(sessions[i].inbox), NEW l \in Nat
    PROVE  /\ Holds(sessions[i], f, "inbox", 1) /\ Has(sessions[i], f)
           /\ ~Holds(sessions[i], f, "tasks", l)
<1>1. sessions[i].inbox \in Seq(Calls) /\ f \in Calls
  <2>1. sessions[i] \in Session
    BY Typed, Positions DEF ClientInv
  <2> QED BY <2>1 DEF Session, Calls
<1>2. Holds(sessions[i], f, "inbox", 1)
  BY <1>1, Positions DEF Holds
<1>3. HasOnce(sessions[i], f)
  BY <1>1 DEF ClientInv, WaitOnce
<1>4. "inbox" # "tasks" /\ "inbox" \in Queues /\ "tasks" \in Queues /\ 1 \in Nat
  BY DEF Queues
<1>5. ~Holds(sessions[i], f, "tasks", l)
  BY <1>2, <1>3, <1>4 DEF HasOnce
<1> QED BY <1>2, <1>4, <1>5 DEF Has

\* What waits has no answer.
LEMMA WaitsUnanswered ==
    ASSUME ClientInv, NEW i \in DOMAIN sessions, NEW f \in Fetches, Has(sessions[i], f)
    PROVE  answers[f] = <<>>
BY DEF ClientInv, Owing, Waits

\* What a step tells a fetch.
LEMMA ToldNow ==
    ASSUME TypeOK, NEW D, NEW ec \in Codes, Answer(D, ec), NEW f \in Fetches
    PROVE  /\ f \in D => answers'[f] # answers[f] /\ answers'[f] # <<>> /\ Told(f) = ec
           /\ f \notin D => answers'[f] = answers[f]
<1>1. answers[f] \in Seq(Codes)
  BY Typed
<1>2. answers'[f] = IF f \in D THEN Append(answers[f], ec) ELSE answers[f]
  BY DEF Answer
<1>3. /\ Append(answers[f], ec) # answers[f] /\ Append(answers[f], ec) # <<>>
      /\ Append(answers[f], ec)[Len(Append(answers[f], ec))] = ec
  <2>1. /\ Len(Append(answers[f], ec)) = Len(answers[f]) + 1 /\ Len(answers[f]) \in Nat
        /\ Append(answers[f], ec)[Len(answers[f]) + 1] = ec
    BY <1>1, Positions
  <2>2. Len(answers[f]) + 1 # Len(answers[f]) /\ Len(answers[f]) + 1 # Len(<<>>)
    BY <2>1
  <2> QED BY <2>1, <2>2
<1> QED BY <1>2, <1>3 DEF Told

\* A step tells only fetches that wait in one session: at the door of another,
\* or behind one of its tasks, nobody is told anything.
LEMMA RefusedAmong ==
    ASSUME TypeOK, NEW D, NEW ec \in Codes, Answer(D, ec), NEW i
    PROVE  RefusedNow(i) = {f \in Fetches : /\ f \in D /\ i \in DOMAIN sessions
                                            /\ sessions[i].inbox # <<>>
                                            /\ f = Head(sessions[i].inbox)}
<1>1. \A f \in Fetches : f \in D <=> answers'[f] # answers[f]
  BY ToldNow
<1> QED BY <1>1 DEF RefusedNow

\* What Remember keeps of a session.
LEMMA Remembered ==
    ASSUME PastInv, Remember, NEW i \in DOMAIN sessions'
    PROVE  /\ Past(i)'.refused = Past(i).refused \cup RefusedNow(i)
           /\ Past(i)'.replies = Past(i).replies \o RepliedNow(i)
<1>1. /\ i \in DOMAIN past'
      /\ past'[i] = [refused |-> Past(i).refused \cup RefusedNow(i),
                     replies |-> Past(i).replies \o RepliedNow(i)]
  BY DEF Remember
<1>2. Past(i)' = past'[i]
  BY <1>1 DEF Past
<1> QED BY <1>1, <1>2

LEMMA RepliesAdded ==
    ASSUME NEW S, NEW s \in Seq(S)
    PROVE  /\ s \o <<>> = s
           /\ \A r \in S : s \o [k \in 1 .. 1 |-> r] = Append(s, r)
<1>1. s \o <<>> = s
  OBVIOUS
<1>2. ASSUME NEW r \in S PROVE s \o [k \in 1 .. 1 |-> r] = Append(s, r)
  <2>1. [k \in 1 .. 1 |-> r] = <<r>>
    OBVIOUS
  <2>2. s \o <<r>> = Append(s, r)
    OBVIOUS
  <2> QED BY <2>1, <2>2
<1> QED BY <1>1, <1>2

LEMMA NoReplies ==
    ASSUME NEW i, NEW n \in Nat, Len(Waiting(i)) = n, NEW m \in Nat, Len(Waiting(i)') = m,
           m >= n
    PROVE  RepliedNow(i) = <<>> /\ 1 .. Len(Waiting(i)) - Len(Waiting(i)') = {}
<1>1. 1 .. n - m = {}
  OBVIOUS
<1>2. \A g : [k \in 1 .. n - m |-> g[k]] = <<>>
  BY <1>1
<1> QED BY <1>1, <1>2 DEF RepliedNow

LEMMA RepliesFrom ==
    ASSUME NEW i, NEW W \in Seq(Fetches), Waiting(i) = W, NEW m \in Nat,
           Len(Waiting(i)') = m, m <= Len(W),
           NEW ec \in Codes, \A k \in 1 .. Len(W) - m : Told(W[k]) = ec
    PROVE  RepliedNow(i) = [k \in 1 .. Len(W) - m |-> [req |-> W[k], ec |-> ec]]
BY DEF RepliedNow

\* A session whose queue a step does not touch.
Untouched(i) == /\ Accepting(i)' = Accepting(i) /\ Waiting(i)' = Waiting(i)
                /\ RefusedNow(i) = {}

LEMMA UntouchedStutters ==
    ASSUME ClientInv, PastInv, Remember, NEW i \in DOMAIN sessions', Untouched(i)
    PROVE  /\ UNCHANGED Queue(i)!vars
           /\ 1 .. Len(Waiting(i)) - Len(Waiting(i)') = {}
<1>1. Waiting(i) \in Seq(Fetches) /\ Len(Waiting(i)) \in Nat
  BY WaitingTyped
<1>2. RepliedNow(i) = <<>> /\ 1 .. Len(Waiting(i)) - Len(Waiting(i)') = {}
  BY <1>1, NoReplies DEF Untouched
<1>3. Past(i)'.refused = Past(i).refused /\ Past(i)'.replies = Past(i).replies
  <2>1. /\ Past(i)'.refused = Past(i).refused \cup RefusedNow(i)
        /\ Past(i)'.replies = Past(i).replies \o RepliedNow(i)
    BY Remembered
  <2>2. Past(i).replies \in Seq(Replies)
    BY PastTyped
  <2>3. Past(i).replies \o <<>> = Past(i).replies
    BY <2>2, RepliesAdded
  <2> QED BY <1>2, <2>1, <2>3 DEF Untouched
<1> QED BY <1>2, <1>3 DEF Untouched, Queue!vars

\* What a step that no fetch hears of leaves of a session.
LEMMA NobodyRefused ==
    ASSUME UNCHANGED answers, NEW i
    PROVE  RefusedNow(i) = {}
BY DEF RefusedNow

\* The other sessions when session i makes a step.
LEMMA Bystanders ==
    ASSUME ClientInv, NEW i \in DOMAIN sessions, NEW w \in Session, Becomes(i, w),
           NEW D, NEW ec \in Codes, Answer(D, ec),
           \A g \in D : g \in Calls /\ Has(sessions[i], g),
           NEW j \in DOMAIN sessions, j # i
    PROVE  Untouched(j)
<1>1. TypeOK /\ sessions \in Seq(Session)
  BY Typed DEF ClientInv
<1>2. j \in DOMAIN sessions' /\ sessions'[j] = sessions[j]
  BY <1>1 DEF Becomes
<1>3. RefusedNow(j) = {}
  <2> SUFFICES ASSUME NEW f \in D, f \in Fetches, sessions[j].inbox # <<>>,
                      f = Head(sessions[j].inbox)
               PROVE  FALSE
    BY <1>1, RefusedAmong
  <2>1. 1 \in Nat
    OBVIOUS
  <2>2. Has(sessions[j], f)
    BY <2>1, NotAtTheDoor
  <2>3. Has(sessions[i], f) /\ f \in Calls
    OBVIOUS
  <2> QED BY <2>2, <2>3 DEF ClientInv, WaitOnce
<1>4. Accepting(j)' = Accepting(j) /\ Waiting(j)' = Waiting(j)
  BY <1>2 DEF Accepting, Waiting
<1> QED BY <1>3, <1>4 DEF Untouched

\* A session that the client sends a call, or makes for one.
LEMMA SentUntouched ==
    ASSUME ClientInv, UNCHANGED answers, NEW j \in DOMAIN sessions',
           \/ /\ j \in DOMAIN sessions
              /\ sessions'[j].tasks = sessions[j].tasks
              /\ sessions'[j].answered = sessions[j].answered
              /\ sessions'[j].running = sessions[j].running
           \/ /\ j \notin DOMAIN sessions
              /\ sessions'[j].tasks = <<>> /\ ~sessions'[j].answered
              /\ sessions'[j].running = TRUE
    PROVE  Untouched(j)
<1>1. RefusedNow(j) = {}
  BY NobodyRefused
<1>2. CASE j \in DOMAIN sessions
  BY <1>1, <1>2 DEF Untouched, Accepting, Waiting, Unanswered
<1>3. CASE j \notin DOMAIN sessions
  BY <1>1, <1>3 DEF Untouched, Accepting, Waiting, Unanswered
<1> QED BY <1>2, <1>3

\* A fetch at the door of a session is unknown to it.
LEMMA FreshAtTheDoor ==
    ASSUME ClientInv, PastInv, NEW i \in DOMAIN sessions, sessions[i].inbox # <<>>,
           NEW f \in Fetches, f = Head(sessions[i].inbox)
    PROVE  f \notin Queue(i)!Known
<1>1. 1 \in Nat
  OBVIOUS
<1>2. Has(sessions[i], f) /\ \A l \in Nat : ~Holds(sessions[i], f, "tasks", l)
  BY <1>1, NotAtTheDoor
<1>3. answers[f] = <<>>
  BY <1>2, WaitsUnanswered
<1>4. \A k \in DOMAIN Waiting(i) : Waiting(i)[k] # f
  BY <1>2, WaitingTyped
<1>5. f \notin Past(i).refused /\ \A k \in DOMAIN Past(i).replies : Past(i).replies[k].req # f
  BY <1>3, PastTyped
<1> QED BY <1>4, <1>5 DEF Queue!Known

\* What a step of session i is to its queue; what it takes from it is answered.
QueueStep(i) ==
    /\ [Queue(i)!Next]_(Queue(i)!vars)
    /\ \A k \in 1 .. Len(Waiting(i)) - Len(Waiting(i)') : answers'[Waiting(i)[k]] # <<>>

LEMMA UntouchedStep ==
    ASSUME ClientInv, PastInv, Remember, NEW i \in DOMAIN sessions', Untouched(i)
    PROVE  QueueStep(i)
BY UntouchedStutters DEF QueueStep

\* What the past becomes when nothing leaves the queue.
LEMMA NothingReplied ==
    ASSUME ClientInv, PastInv, Remember, NEW i \in DOMAIN sessions',
           NEW m \in Nat, Len(Waiting(i)') = m, m >= Len(Waiting(i))
    PROVE  /\ Past(i)'.replies = Past(i).replies
           /\ Past(i)'.refused = Past(i).refused \cup RefusedNow(i)
           /\ 1 .. Len(Waiting(i)) - Len(Waiting(i)') = {}
<1>1. Waiting(i) \in Seq(Fetches) /\ Len(Waiting(i)) \in Nat
  BY WaitingTyped
<1>2. RepliedNow(i) = <<>> /\ 1 .. Len(Waiting(i)) - Len(Waiting(i)') = {}
  BY <1>1, NoReplies
<1>3. /\ Past(i)'.refused = Past(i).refused \cup RefusedNow(i)
      /\ Past(i)'.replies = Past(i).replies \o RepliedNow(i)
  BY Remembered
<1>4. Past(i).replies \in Seq(Replies)
  BY PastTyped
<1>5. Past(i).replies \o <<>> = Past(i).replies
  BY <1>4, RepliesAdded
<1> QED BY <1>2, <1>3, <1>5

\* push_op: the queue takes the fetch, or refuses it.
LEMMA RunPushQueue ==
    ASSUME ClientInv, PastInv, Remember, NEW i \in DOMAIN sessions, RunPush(i)
    PROVE  /\ QueueStep(i)
           /\ \A j \in DOMAIN sessions : j # i => Untouched(j)
           /\ DOMAIN sessions' = DOMAIN sessions
<1> DEFINE s == sessions[i]
<1>1. /\ TypeOK /\ s \in Session /\ sessions \in Seq(Session)
      /\ s.answered => s.tasks # <<>>
  BY Typed, Positions DEF ClientInv, FrontAnswered
<1>2. PICK w \in Session, f \in Fetches :
             /\ Becomes(i, w) /\ s.inbox # <<>> /\ f = Head(s.inbox)
             /\ w.running = s.running /\ w.answered = s.answered
             /\ \/ /\ s.running /\ w.tasks = Append(s.tasks, f)
                   /\ UNCHANGED answers
                \/ /\ ~s.running /\ w.tasks = s.tasks
                   /\ Answer({f}, "aborted")
  BY <1>1, PushEffect
<1>3. DOMAIN sessions' = DOMAIN sessions /\ sessions'[i] = w
  BY <1>1, <1>2 DEF Becomes
<1>4. Accepting(i)' = w.running /\ Accepting(i) = s.running
  <2>1. i \in DOMAIN sessions'
    BY <1>3
  <2>2. s.running \in BOOLEAN /\ w.running \in BOOLEAN
    BY <1>1, <1>2 DEF Session
  <2> QED BY <1>3, <2>1, <2>2 DEF Accepting
<1>5. Waiting(i)' = Unanswered(w) /\ Waiting(i) = Unanswered(s)
  BY <1>3 DEF Waiting
<1>6. Waiting(i) \in Seq(Fetches) /\ Len(Waiting(i)) \in Nat
  BY WaitingTyped
<1>7. f \in Calls /\ Has(s, f) /\ f \notin Queue(i)!Known
  <2>1. 1 \in Nat /\ f \in Calls
    BY DEF Calls
  <2> QED BY <1>2, <2>1, NotAtTheDoor, FreshAtTheDoor
<1>8. CASE s.running /\ w.tasks = Append(s.tasks, f) /\ UNCHANGED answers
  <2>1. Waiting(i)' = Append(Waiting(i), f)
    <3>1. s.tasks \in Seq(Fetches)
      BY <1>1 DEF Session
    <3>2. s.tasks # <<>> => Tail(Append(s.tasks, f)) = Append(Tail(s.tasks), f)
      BY <3>1
    <3> QED BY <1>1, <1>2, <1>5, <1>8, <3>2 DEF Unanswered
  <2>2. Len(Waiting(i)') = Len(Waiting(i)) + 1
    BY <1>6, <2>1, Positions
  <2>3. /\ Past(i)'.replies = Past(i).replies
        /\ Past(i)'.refused = Past(i).refused \cup RefusedNow(i)
        /\ 1 .. Len(Waiting(i)) - Len(Waiting(i)') = {}
    <3>1. Len(Waiting(i)) + 1 \in Nat /\ Len(Waiting(i)) + 1 >= Len(Waiting(i))
      BY <1>6
    <3> QED BY <1>3, <2>2, <3>1, NothingReplied
  <2>4. RefusedNow(i) = {}
    BY <1>8, NobodyRefused
  <2>5. Queue(i)!Submit(f)
    BY <1>2, <1>4, <1>7, <1>8, <2>1, <2>3, <2>4 DEF Queue!Submit
  <2>6. QueueStep(i)
    BY <2>3, <2>5 DEF QueueStep, Queue!Next
  <2>7. Answer({}, "ok") /\ "ok" \in Codes
    BY <1>1, <1>8, Typed, NobodyAnswered
  <2>8. \A j \in DOMAIN sessions : j # i => Untouched(j)
    BY <1>2, <2>7, Bystanders
  <2> QED BY <1>3, <2>6, <2>8
<1>9. CASE ~s.running /\ w.tasks = s.tasks /\ Answer({f}, "aborted")
  <2>1. Waiting(i)' = Waiting(i)
    BY <1>2, <1>5, <1>9 DEF Unanswered
  <2>2. /\ Past(i)'.replies = Past(i).replies
        /\ Past(i)'.refused = Past(i).refused \cup RefusedNow(i)
        /\ 1 .. Len(Waiting(i)) - Len(Waiting(i)') = {}
    <3>1. Len(Waiting(i)) >= Len(Waiting(i))
      BY <1>6
    <3> QED BY <1>3, <1>6, <2>1, <3>1, NothingReplied
  <2>3. "aborted" \in Codes
    BY DEF Codes
  <2>4. RefusedNow(i) = {f}
    BY <1>1, <1>2, <1>9, <2>3, RefusedAmong
  <2>5. Queue(i)!Refuse(f)
    BY <1>2, <1>4, <1>7, <1>9, <2>1, <2>2, <2>4 DEF Queue!Refuse
  <2>6. QueueStep(i)
    BY <2>2, <2>5 DEF QueueStep, Queue!Next
  <2>7. \A j \in DOMAIN sessions : j # i => Untouched(j)
    BY <1>2, <1>7, <1>9, <2>3, Bystanders
  <2> QED BY <1>3, <2>6, <2>7
<1> QED BY <1>2, <1>8, <1>9

\* stop_op closes the queue.
LEMMA StopQueue ==
    ASSUME ClientInv, PastInv, Remember, NEW i \in DOMAIN sessions, StopSession(i)
    PROVE  /\ QueueStep(i)
           /\ \A j \in DOMAIN sessions : j # i => Untouched(j)
           /\ DOMAIN sessions' = DOMAIN sessions
<1> DEFINE s == sessions[i]
<1>1. TypeOK /\ s \in Session /\ sessions \in Seq(Session)
  BY Typed, Positions DEF ClientInv
<1>2. PICK w \in Session : /\ Becomes(i, w) /\ ~w.running
                           /\ w.answered = s.answered /\ w.tasks = s.tasks
  BY <1>1, StopEffect
<1>3. DOMAIN sessions' = DOMAIN sessions /\ sessions'[i] = w
  BY <1>1, <1>2 DEF Becomes
<1>4. UNCHANGED answers /\ answers \in [Fetches -> Seq(Codes)]
  BY <1>1, Typed DEF StopSession
<1>5. Accepting(i)' = FALSE
  BY <1>2, <1>3 DEF Accepting
<1>6. Waiting(i)' = Waiting(i)
  BY <1>2, <1>3 DEF Waiting, Unanswered
<1>7. /\ Past(i)'.replies = Past(i).replies
      /\ Past(i)'.refused = Past(i).refused \cup RefusedNow(i)
      /\ 1 .. Len(Waiting(i)) - Len(Waiting(i)') = {}
  <2>1. Len(Waiting(i)) \in Nat /\ Len(Waiting(i)) >= Len(Waiting(i))
    BY WaitingTyped
  <2> QED BY <1>3, <1>6, <2>1, NothingReplied
<1>8. RefusedNow(i) = {}
  BY <1>4, NobodyRefused
<1>9. Queue(i)!Close
  BY <1>5, <1>6, <1>7, <1>8 DEF Queue!Close
<1>10. QueueStep(i)
  BY <1>7, <1>9 DEF QueueStep, Queue!Next
<1>11. Answer({}, "ok") /\ "ok" \in Codes
  BY <1>4, NobodyAnswered
<1>12. \A j \in DOMAIN sessions : j # i => Untouched(j)
  BY <1>2, <1>11, Bystanders
<1> QED BY <1>3, <1>10, <1>12

\* The front task is answered: its code says what becomes of the queue.
LEMMA AnswerQueue ==
    ASSUME ClientInv, PastInv, Remember, NEW i \in DOMAIN sessions, AnswerFront(i)
    PROVE  /\ QueueStep(i)
           /\ \A j \in DOMAIN sessions : j # i => Untouched(j)
           /\ DOMAIN sessions' = DOMAIN sessions
<1> DEFINE s == sessions[i]
           f == Head(s.tasks)
<1>1. TypeOK /\ s \in Session /\ sessions \in Seq(Session) /\ s.tasks \in Seq(Fetches)
  <2>1. TypeOK /\ s \in Session /\ sessions \in Seq(Session)
    BY Typed, Positions DEF ClientInv
  <2> QED BY <2>1 DEF Session
<1>2. PICK w \in Session, ec \in Codes :
             /\ Becomes(i, w) /\ s.tasks # <<>> /\ ~s.answered
             /\ w.tasks = s.tasks /\ w.answered
             /\ w.running = (s.running /\ ec = "ok")
             /\ ec \in IF s.running THEN {"ok", "error"} ELSE {"aborted"}
             /\ Answer({f}, ec)
  BY <1>1, AnswerEffect
<1>3. DOMAIN sessions' = DOMAIN sessions /\ sessions'[i] = w
  BY <1>1, <1>2 DEF Becomes
<1>4. Accepting(i)' = w.running /\ Accepting(i) = s.running
  <2>1. s.running \in BOOLEAN /\ w.running \in BOOLEAN
    BY <1>1, <1>2 DEF Session
  <2> QED BY <1>3, <2>1 DEF Accepting
<1>5. Waiting(i)' = Tail(s.tasks) /\ Waiting(i) = s.tasks
  BY <1>2, <1>3 DEF Waiting, Unanswered
<1>6. /\ f \in Fetches /\ f = s.tasks[1] /\ 1 \in DOMAIN s.tasks
      /\ Len(s.tasks) \in Nat /\ Len(Tail(s.tasks)) = Len(s.tasks) - 1
      /\ Len(s.tasks) >= 1
  <2>1. Len(s.tasks) \in Nat /\ DOMAIN s.tasks = 1 .. Len(s.tasks)
    BY <1>1, Positions
  <2>2. /\ f \in Fetches /\ f = s.tasks[1] /\ 1 \in DOMAIN s.tasks
        /\ Len(Tail(s.tasks)) = Len(s.tasks) - 1
    BY <1>1, <1>2, Positions
  <2> QED BY <2>1, <2>2
<1>7. f \in Calls /\ Has(s, f) /\ Holds(s, f, "tasks", 1)
  BY <1>2, <1>6 DEF Calls, Holds, Has, Queues
<1>8. Told(f) = ec /\ answers'[f] # <<>>
  BY <1>1, <1>2, <1>6, ToldNow
<1> HIDE DEF f
<1>9. RefusedNow(i) = {}
  <2>1. 1 \in Nat
    OBVIOUS
  <2>2. s.inbox # <<>> => f # Head(s.inbox)
    BY <1>6, <1>7, <2>1, NotAtTheDoor
  <2> QED BY <1>1, <1>2, <2>2, RefusedAmong
<1>10. Len(Waiting(i)) - Len(Waiting(i)') = 1
  BY <1>5, <1>6
<1>11. RepliedNow(i) = [k \in 1 .. 1 |-> [req |-> f, ec |-> ec]]
  <2>1. \A k \in 1 .. 1 : Waiting(i)[k] = f
    BY <1>5, <1>6
  <2> QED BY <1>8, <1>10, <2>1 DEF RepliedNow
<1>12. /\ Past(i)'.refused = Past(i).refused
       /\ Past(i)'.replies = Append(Past(i).replies, [req |-> f, ec |-> ec])
  <2>1. /\ Past(i)'.refused = Past(i).refused \cup RefusedNow(i)
        /\ Past(i)'.replies = Past(i).replies \o RepliedNow(i)
    BY <1>3, Remembered
  <2>2. [req |-> f, ec |-> ec] \in Replies /\ Past(i).replies \in Seq(Replies)
    BY <1>2, <1>6, PastTyped DEF Replies
  <2> DEFINE r == [req |-> f, ec |-> ec]
  <2>3. Past(i).replies \o [k \in 1 .. 1 |-> r] = Append(Past(i).replies, r)
    <3> HIDE DEF r
    <3> QED BY <2>2, RepliesAdded DEF r
  <2> QED BY <1>9, <1>11, <2>1, <2>3
<1>13. Queue(i)!AnswerFront(ec)
  <2>1. Waiting(i) # <<>> /\ Head(Waiting(i)) = f
    BY <1>2, <1>5 DEF f
  <2>2. Waiting(i)' = Tail(Waiting(i))
    BY <1>5
  <2> QED BY <1>12, <2>1, <2>2 DEF Queue!AnswerFront, Queue!Reply
<1>14. Queue(i)!Serve \/ Queue(i)!Fail \/ Queue(i)!AbortFront
  <2>1. CASE s.running /\ ec = "ok"
    BY <1>2, <1>4, <1>13, <2>1 DEF Queue!Serve
  <2>2. CASE s.running /\ ec = "error"
    BY <1>2, <1>4, <1>13, <2>2 DEF Queue!Fail
  <2>3. CASE ~s.running /\ ec = "aborted"
    <3>1. s.running = FALSE
      BY <1>1, <2>3 DEF Session
    <3>2. Accepting(i)' = FALSE /\ Accepting(i) = FALSE
      BY <1>2, <1>4, <3>1
    <3> QED BY <1>13, <2>3, <3>2 DEF Queue!AbortFront
  <2> QED BY <1>2, <2>1, <2>2, <2>3
<1>15. \A k \in 1 .. Len(Waiting(i)) - Len(Waiting(i)') : answers'[Waiting(i)[k]] # <<>>
  BY <1>5, <1>6, <1>8, <1>10
<1>16. QueueStep(i)
  BY <1>14, <1>15 DEF QueueStep, Queue!Next, Queue!Answer
<1>17. \A j \in DOMAIN sessions : j # i => Untouched(j)
  BY <1>2, <1>7, Bystanders
<1> QED BY <1>3, <1>16, <1>17

\* advance_task: a stutter, or the abort of what waits behind the answered front.
LEMMA AdvanceQueue ==
    ASSUME ClientInv, PastInv, Remember, NEW i \in DOMAIN sessions, Advance(i)
    PROVE  /\ QueueStep(i)
           /\ \A j \in DOMAIN sessions : j # i => Untouched(j)
           /\ DOMAIN sessions' = DOMAIN sessions
<1> DEFINE s == sessions[i]
           rest == Tail(s.tasks)
           D == {rest[k] : k \in DOMAIN rest}
<1>1. /\ TypeOK /\ s \in Session /\ sessions \in Seq(Session) /\ s.answered
      /\ s.tasks # <<>> /\ answers \in [Fetches -> Seq(Codes)]
  BY Typed, Positions DEF ClientInv, FrontAnswered, Advance
<1>2. PICK w \in Session :
             /\ Becomes(i, w) /\ w.running = s.running /\ ~w.answered
             /\ \/ s.running /\ w.tasks = rest /\ UNCHANGED answers
                \/ ~s.running /\ w.tasks = <<>> /\ Answer(D, "aborted")
  BY <1>1, AdvanceEffect
<1>3. DOMAIN sessions' = DOMAIN sessions /\ sessions'[i] = w
  BY <1>1, <1>2 DEF Becomes
<1>4. Accepting(i)' = Accepting(i) /\ Accepting(i) = s.running
  <2>1. s.running \in BOOLEAN
    BY <1>1 DEF Session
  <2> QED BY <1>2, <1>3, <2>1 DEF Accepting
<1>5. Waiting(i)' = w.tasks /\ Waiting(i) = rest
  BY <1>1, <1>2, <1>3 DEF Waiting, Unanswered
<1>6. CASE s.running /\ w.tasks = rest /\ UNCHANGED answers
  <2>1. RefusedNow(i) = {}
    BY <1>6, NobodyRefused
  <2>2. Untouched(i)
    BY <1>4, <1>5, <1>6, <2>1 DEF Untouched
  <2>3. QueueStep(i)
    BY <1>3, <2>2, UntouchedStep
  <2>4. Answer({}, "ok") /\ "ok" \in Codes
    BY <1>1, <1>6, NobodyAnswered
  <2>5. \A j \in DOMAIN sessions : j # i => Untouched(j)
    BY <1>2, <2>4, Bystanders
  <2> QED BY <1>3, <2>3, <2>5
<1>7. CASE ~s.running /\ w.tasks = <<>> /\ Answer(D, "aborted")
  <2>1. rest \in Seq(Fetches) /\ "aborted" \in Codes /\ Len(rest) \in Nat
    <3>1. Waiting(i) \in Seq(Fetches)
      BY WaitingTyped
    <3>2. rest \in Seq(Fetches)
      BY <1>5, <3>1
    <3> HIDE DEF rest
    <3> QED BY <3>2 DEF Codes
  <2>2. \A g \in D : g \in Calls /\ g \in Fetches /\ Has(s, g)
                     /\ \E l \in Nat : Holds(s, g, "tasks", l)
    <3>1. \A k \in DOMAIN rest : Has(s, rest[k]) /\ \E l \in Nat : Holds(s, rest[k], "tasks", l)
      BY <1>1, UnansweredTyped DEF Unanswered
    <3>2. \A k \in DOMAIN rest : rest[k] \in Fetches
      BY <2>1, Positions
    <3> QED BY <3>1, <3>2 DEF Calls
  <2>3. \A k \in 1 .. Len(rest) : rest[k] \in D /\ rest[k] \in Fetches
    BY <2>1, Positions
  <2> HIDE DEF D, rest
  <2>4. RefusedNow(i) = {}
    <3>1. \A f \in Fetches : f \in D /\ s.inbox # <<>> => f # Head(s.inbox)
      BY <2>2, NotAtTheDoor
    <3>2. RefusedNow(i) = {f \in Fetches : /\ f \in D /\ i \in DOMAIN sessions
                                            /\ s.inbox # <<>> /\ f = Head(s.inbox)}
      BY <1>1, <1>7, <2>1, RefusedAmong
    <3> QED BY <3>1, <3>2
  <2>5. \A k \in 1 .. Len(rest) : Told(rest[k]) = "aborted" /\ answers'[rest[k]] # <<>>
    BY <1>1, <1>7, <2>1, <2>3, ToldNow
  <2>6. Len(Waiting(i)') = 0 /\ Len(rest) - 0 = Len(rest)
    BY <1>5, <1>7, <2>1
  <2>7. RepliedNow(i) = [k \in 1 .. Len(rest) |-> [req |-> rest[k], ec |-> "aborted"]]
    BY <1>5, <2>1, <2>5, <2>6, RepliesFrom
  <2>8. /\ Past(i)'.refused = Past(i).refused
        /\ Past(i)'.replies = Past(i).replies \o RepliedNow(i)
    BY <1>3, <2>4, Remembered
  <2>9. \A k \in 1 .. Len(Waiting(i)) - Len(Waiting(i)') : answers'[Waiting(i)[k]] # <<>>
    BY <1>5, <2>5, <2>6
  <2>10. QueueStep(i)
    <3>1. CASE rest = <<>>
      <4>1. Untouched(i)
        BY <1>4, <1>5, <1>7, <2>4, <3>1 DEF Untouched
      <4> QED BY <1>3, <4>1, UntouchedStep
    <3>2. CASE rest # <<>>
      <4>1. Queue(i)!AbortAll
        BY <1>4, <1>5, <1>7, <2>7, <2>8, <3>2 DEF Queue!AbortAll, Queue!Reply
      <4> QED BY <2>9, <4>1 DEF QueueStep, Queue!Next, Queue!Answer
    <3> QED BY <3>1, <3>2
  <2>11. \A j \in DOMAIN sessions : j # i => Untouched(j)
    BY <1>2, <1>7, <2>1, <2>2, Bystanders
  <2> QED BY <1>3, <2>10, <2>11
<1> QED BY <1>2, <1>6, <1>7

\* What the client does itself touches no queue.
AllUntouched == /\ DOMAIN sessions \subseteq DOMAIN sessions'
                /\ UNCHANGED answers
                /\ \A j \in DOMAIN sessions' : Untouched(j)

LEMMA SendTouchesNone ==
    ASSUME ClientInv, UNCHANGED answers, NEW c \in Calls, NEW n \in DOMAIN sessions,
           sessions' = Send(sessions, n, c)
    PROVE  AllUntouched
<1>1. sessions \in Seq(Session)
  BY Typed DEF ClientInv
<1>2. PICK w \in Session :
        /\ sessions' = [sessions EXCEPT ![n] = w] /\ w.tasks = sessions[n].tasks
        /\ w.answered = sessions[n].answered /\ w.running = sessions[n].running
  BY <1>1, SendTyped
<1>3. DOMAIN sessions' = DOMAIN sessions
  BY <1>2
<1>4. \A j \in DOMAIN sessions : /\ sessions'[j].tasks = sessions[j].tasks
                                 /\ sessions'[j].answered = sessions[j].answered
                                 /\ sessions'[j].running = sessions[j].running
  BY <1>1, <1>2
<1> QED BY <1>3, <1>4, SentUntouched DEF AllUntouched

LEMMA NewSessionTouchesNone ==
    ASSUME ClientInv, UNCHANGED answers, NEW c \in Calls, NEW e \in Endpoint,
           sessions' = Send(Append(sessions, NewSession(e)), Len(sessions) + 1, c)
    PROVE  AllUntouched
<1> DEFINE n == Len(sessions) + 1
           ss == Append(sessions, NewSession(e))
<1>1. sessions \in Seq(Session) /\ Len(sessions) \in Nat
  BY Typed DEF ClientInv
<1>2. /\ ss \in Seq(Session) /\ Len(ss) = n /\ ss[n] = NewSession(e)
      /\ \A i \in DOMAIN sessions : ss[i] = sessions[i]
  BY <1>1, NewSessionTyped
<1>3. /\ DOMAIN sessions = 1 .. Len(sessions) /\ DOMAIN ss = 1 .. n
      /\ n \in DOMAIN ss /\ n \notin DOMAIN sessions
      /\ DOMAIN ss = DOMAIN sessions \cup {n}
  <2>1. DOMAIN sessions = 1 .. Len(sessions) /\ DOMAIN ss = 1 .. n
    BY <1>1, <1>2, Positions
  <2> HIDE DEF ss
  <2> QED BY <1>1, <2>1
<1>4. NewSession(e).tasks = <<>> /\ NewSession(e).answered = FALSE
      /\ NewSession(e).running = TRUE
  BY DEF NewSession
<1> HIDE DEF ss, n
<1>5. sessions' = Send(ss, n, c)
  BY DEF ss, n
<1>6. PICK w \in Session :
        /\ Send(ss, n, c) = [ss EXCEPT ![n] = w] /\ w.tasks = ss[n].tasks
        /\ w.answered = ss[n].answered /\ w.running = ss[n].running
  <2>1. ss \in Seq(Session) /\ n \in DOMAIN ss
    BY <1>2, <1>3
  <2> QED BY <2>1, SendTyped
<1>7. /\ DOMAIN sessions' = DOMAIN ss /\ sessions'[n] = w
      /\ \A j \in DOMAIN ss : j # n => sessions'[j] = ss[j]
  BY <1>2, <1>3, <1>5, <1>6
<1>8. ASSUME NEW j \in DOMAIN sessions' PROVE Untouched(j)
  <2>1. CASE j = n
    <3>1. /\ j \notin DOMAIN sessions /\ sessions'[j].tasks = <<>>
          /\ ~sessions'[j].answered /\ sessions'[j].running = TRUE
      BY <1>2, <1>3, <1>4, <1>6, <1>7, <2>1
    <3> QED BY <3>1, SentUntouched
  <2>2. CASE j # n
    <3>1. j \in DOMAIN sessions /\ sessions'[j] = sessions[j]
      BY <1>2, <1>3, <1>7, <2>2
    <3> QED BY <3>1, SentUntouched
  <2> QED BY <2>1, <2>2
<1> QED BY <1>3, <1>7, <1>8 DEF AllUntouched

LEMMA NoSendTouchesNone ==
    ASSUME ClientInv, UNCHANGED <<sessions, answers>>
    PROVE  AllUntouched
BY SentUntouched DEF AllUntouched

LEMMA ClientTouchesNone ==
    ASSUME ClientInv,
           \/ \E f \in Fetches : Fetch(f)
           \/ \E c \in Stops : StopCall(c) \/ SessionStopped(c)
    PROVE  AllUntouched
<1>1. TypeOK /\ sessions \in Seq(Session) /\ DOMAIN sessions = 1 .. Len(sessions)
      /\ Len(sessions) \in Nat
  BY Typed, Positions DEF ClientInv
<1>2. ASSUME NEW f \in Fetches, Fetch(f) PROVE AllUntouched
  <2>1. CASE Throws(proxies, UrlOf[f])
    BY <1>2, <2>1, NoSendTouchesNone DEF Fetch
  <2>2. CASE ~Throws(proxies, UrlOf[f])
    <3>1. f \in Calls
      BY DEF Calls
    <3>2. /\ UNCHANGED answers
          /\ \/ \E i \in DOMAIN sessions : sessions' = Send(sessions, i, f)
             \/ \E e \in Endpoint :
                   sessions' = Send(Append(sessions, NewSession(e)), Len(sessions) + 1, f)
      BY <1>1, <1>2, <2>2, FetchEffect
    <3> QED BY <3>1, <3>2, SendTouchesNone, NewSessionTouchesNone
  <2> QED BY <2>1, <2>2
<1>3. ASSUME NEW c \in Stops, StopCall(c) PROVE AllUntouched
  <2>1. c \in Calls /\ UNCHANGED answers
    BY <1>3 DEF Calls, StopCall
  <2>2. \/ UNCHANGED sessions
        \/ sessions # <<>> /\ sessions' = Send(sessions, 1, c)
    BY <1>3 DEF StopCall
  <2>3. sessions # <<>> => 1 \in DOMAIN sessions
    BY <1>1, Positions
  <2> QED BY <2>1, <2>2, <2>3, SendTouchesNone, NoSendTouchesNone
<1>4. ASSUME NEW c \in Stops, SessionStopped(c) PROVE AllUntouched
  <2>1. c \in Calls /\ UNCHANGED answers
    BY <1>4 DEF Calls, SessionStopped
  <2>2. /\ stop[c] \in StopState /\ WalkedBy(stop[c], sessions)
        /\ stop[c].pc = "waiting"
    BY <1>1, <1>4, Typed DEF ClientInv, Walked, SessionStopped
  <2>3. \/ UNCHANGED sessions
        \/ /\ stop[c].at + 1 <= stop[c].end
           /\ sessions' = Send(sessions, stop[c].at + 1, c)
    BY <1>4 DEF SessionStopped
  <2>4. stop[c].at + 1 <= stop[c].end => stop[c].at + 1 \in DOMAIN sessions
    BY <1>1, <2>2 DEF WalkedBy, StopState
  <2> QED BY <2>1, <2>3, <2>4, SendTouchesNone, NoSendTouchesNone
<1> QED BY <1>2, <1>3, <1>4

\* No step takes an answer back.
LEMMA AnswersStay ==
    ASSUME ClientInv, Next, NEW f \in Fetches, answers[f] # <<>>
    PROVE  answers'[f] # <<>>
<1>1. TypeOK
  BY DEF ClientInv
<1>2. ASSUME NEW D, NEW ec \in Codes, Answer(D, ec) PROVE answers'[f] # <<>>
  BY <1>1, <1>2, ToldNow
<1>3. CASE UNCHANGED answers
  BY <1>3
<1>4. CASE \E i \in DOMAIN sessions : RunPush(i) \/ AnswerFront(i) \/ Advance(i)
  <2>1. {"ok", "error"} \subseteq Codes /\ "aborted" \in Codes
    BY DEF Codes
  <2>2. UNCHANGED answers \/ \E D, ec : ec \in Codes /\ Answer(D, ec)
    <3>1. ASSUME NEW i, RunPush(i)
          PROVE  UNCHANGED answers \/ Answer({Head(sessions[i].inbox)}, "aborted")
      BY <3>1 DEF RunPush
    <3>2. ASSUME NEW i, AnswerFront(i)
          PROVE  \E ec \in Codes : Answer({Head(sessions[i].tasks)}, ec)
      BY <2>1, <3>2 DEF AnswerFront
    <3>3. ASSUME NEW i, Advance(i)
          PROVE  UNCHANGED answers \/ \E D : Answer(D, "aborted")
      BY <3>3 DEF Advance
    <3> QED BY <1>4, <2>1, <3>1, <3>2, <3>3
  <2> QED BY <1>2, <1>3, <2>2
<1> QED BY <1>3, <1>4
        DEF Next, AddProxy, SetProxies, SetMaxPending, Fetch, StopSession, StopCall,
            SessionStopped

\* A step of the client is a step of each queue, or none.
LEMMA StepOfQueues ==
    ASSUME ClientInv, PastInv, Remember, Next
    PROVE  /\ DOMAIN sessions \subseteq DOMAIN sessions'
           /\ \A i \in DOMAIN sessions' : QueueStep(i)
<1>1. CASE AllUntouched
  BY <1>1, UntouchedStep DEF AllUntouched
<1>2. ASSUME NEW i \in DOMAIN sessions,
             RunPush(i) \/ AnswerFront(i) \/ Advance(i) \/ StopSession(i)
      PROVE  /\ DOMAIN sessions \subseteq DOMAIN sessions'
             /\ \A j \in DOMAIN sessions' : QueueStep(j)
  <2>1. /\ QueueStep(i) /\ DOMAIN sessions' = DOMAIN sessions
        /\ \A j \in DOMAIN sessions : j # i => Untouched(j)
    BY <1>2, RunPushQueue, AnswerQueue, AdvanceQueue, StopQueue
  <2>2. \A j \in DOMAIN sessions' : j # i => QueueStep(j)
    BY <2>1, UntouchedStep
  <2> QED BY <2>1, <2>2
<1>3. CASE \/ \E p \in Proxies, key \in Matches : AddProxy(key, p)
           \/ \E map \in ProxyMaps : SetProxies(map)
           \/ \E n \in Limits : SetMaxPending(n)
  <2>1. UNCHANGED <<sessions, answers>>
    BY <1>3 DEF AddProxy, SetProxies, SetMaxPending
  <2> QED BY <1>1, <2>1, NoSendTouchesNone
<1>4. CASE \/ \E f \in Fetches : Fetch(f)
           \/ \E c \in Stops : StopCall(c) \/ SessionStopped(c)
  BY <1>1, <1>4, ClientTouchesNone
<1> QED BY <1>2, <1>3, <1>4 DEF Next

LEMMA ConcatElements ==
    ASSUME NEW S, NEW s \in Seq(S), NEW u \in Seq(S)
    PROVE  /\ s \o u \in Seq(S)
           /\ \A k \in DOMAIN (s \o u) :
                 \/ k \in DOMAIN s /\ (s \o u)[k] = s[k]
                 \/ \E l \in DOMAIN u : (s \o u)[k] = u[l]
<1>1. /\ s \o u \in Seq(S) /\ Len(s \o u) = Len(s) + Len(u)
      /\ Len(s) \in Nat /\ Len(u) \in Nat
  OBVIOUS
<1>2. ASSUME NEW k \in 1 .. Len(s) PROVE (s \o u)[k] = s[k]
  BY <1>2
<1>3. ASSUME NEW k \in 1 .. Len(s) + Len(u), k > Len(s)
      PROVE  k - Len(s) \in 1 .. Len(u) /\ (s \o u)[k] = u[k - Len(s)]
  BY <1>1, <1>3
<1>4. DOMAIN (s \o u) = 1 .. Len(s) + Len(u) /\ DOMAIN s = 1 .. Len(s)
      /\ DOMAIN u = 1 .. Len(u)
  BY <1>1
<1>5. ASSUME NEW k \in DOMAIN (s \o u)
      PROVE  \/ k \in DOMAIN s /\ (s \o u)[k] = s[k]
             \/ \E l \in DOMAIN u : (s \o u)[k] = u[l]
  <2>1. CASE k <= Len(s)
    BY <1>1, <1>2, <1>4, <1>5, <2>1
  <2>2. CASE k > Len(s)
    BY <1>1, <1>3, <1>4, <1>5, <2>2
  <2> QED BY <1>1, <1>4, <1>5, <2>1, <2>2
<1> QED BY <1>1, <1>5

LEMMA PastKept ==
    ASSUME ClientInv, ClientInv', PastInv, Remember, Next
    PROVE  PastInv'
<1>1. DOMAIN past' = DOMAIN sessions'
  BY DEF Remember
<1> SUFFICES ASSUME NEW i \in DOMAIN sessions'
             PROVE  /\ past'[i] \in Record
                    /\ \A f \in past'[i].refused : answers'[f] # <<>>
                    /\ \A k \in DOMAIN past'[i].replies :
                          answers'[past'[i].replies[k].req] # <<>>
  BY <1>1 DEF PastInv
<1>2. past'[i] = [refused |-> Past(i).refused \cup RefusedNow(i),
                  replies |-> Past(i).replies \o RepliedNow(i)]
  BY DEF Remember
<1>3. /\ Past(i).refused \subseteq Fetches /\ Past(i).replies \in Seq(Replies)
      /\ \A f \in Past(i).refused : answers[f] # <<>>
      /\ \A k \in DOMAIN Past(i).replies : answers[Past(i).replies[k].req] # <<>>
  BY PastTyped
<1>4. \A f \in Fetches : answers[f] # <<>> => answers'[f] # <<>>
  BY AnswersStay
<1>5. answers \in [Fetches -> Seq(Codes)] /\ answers' \in [Fetches -> Seq(Codes)]
  BY Typed DEF ClientInv, TypeOK
<1>6. RefusedNow(i) \subseteq Fetches /\ \A f \in RefusedNow(i) : answers'[f] # <<>>
  <2>1. ASSUME NEW f \in RefusedNow(i) PROVE f \in Fetches /\ answers'[f] # <<>>
    BY <1>4, <2>1 DEF RefusedNow
  <2> QED BY <2>1
<1> DEFINE n == Len(Waiting(i)) - Len(Waiting(i)')
           W == Waiting(i)
<1>7. /\ RepliedNow(i) \in Seq(Replies)
      /\ \A l \in DOMAIN RepliedNow(i) : answers'[RepliedNow(i)[l].req] # <<>>
  <2>1. QueueStep(i)
    BY StepOfQueues
  <2>2. W \in Seq(Fetches)
    BY WaitingTyped
  <2>3. Waiting(i)' \in Seq(Fetches)
    <3>1. sessions' \in Seq(Session)
      BY DEF ClientInv, TypeOK, Session
    <3>2. sessions'[i] \in Session
      BY <3>1, Positions
    <3>3. sessions'[i].answered => sessions'[i].tasks # <<>>
      BY DEF ClientInv, FrontAnswered
    <3>4. Unanswered(sessions'[i]) \in Seq(Fetches)
      BY <3>2, <3>3, UnansweredTyped
    <3> QED BY <3>4 DEF Waiting
  <2>4. n \in Int /\ \A k \in 1 .. n : W[k] \in Fetches /\ answers'[W[k]] # <<>>
    <3>1. n \in Int /\ n <= Len(W)
      BY <2>2, <2>3
    <3>2. \A k \in 1 .. n : W[k] \in Fetches
      BY <2>2, <3>1
    <3> QED BY <2>1, <3>1, <3>2 DEF QueueStep
  <2> DEFINE reply(k) == [req |-> W[k], ec |-> Told(W[k])]
  <2>5. \A k \in 1 .. n : reply(k) \in Replies /\ reply(k).req = W[k]
    <3>1. \A k \in 1 .. n : Told(W[k]) \in Codes
      BY <1>5, <2>4 DEF Told
    <3> QED BY <2>4, <3>1 DEF Replies
  <2>6. RepliedNow(i) = [k \in 1 .. n |-> reply(k)]
    BY DEF RepliedNow
  <2> HIDE DEF n, reply, W
  <2> QED BY <2>4, <2>5, <2>6
<1> DEFINE all == Past(i).replies \o RepliedNow(i)
<1>8. /\ all \in Seq(Replies)
      /\ \A k \in DOMAIN all : \/ k \in DOMAIN Past(i).replies /\ all[k] = Past(i).replies[k]
                               \/ \E l \in DOMAIN RepliedNow(i) : all[k] = RepliedNow(i)[l]
  BY <1>3, <1>7, ConcatElements
<1> HIDE DEF all
<1>9. past'[i].refused = Past(i).refused \cup RefusedNow(i) /\ past'[i].replies = all
  BY <1>2 DEF all
<1>10. past'[i] \in Record
  BY <1>2, <1>3, <1>6, <1>8 DEF Record, all
<1>11. \A f \in past'[i].refused : answers'[f] # <<>>
  BY <1>3, <1>4, <1>6, <1>9
<1>12. \A k \in DOMAIN all : answers'[all[k].req] # <<>>
  <2>1. \A k \in DOMAIN Past(i).replies : Past(i).replies[k].req \in Fetches
    <3>1. \A k \in DOMAIN Past(i).replies : Past(i).replies[k] \in Replies
      BY <1>3, Positions
    <3> QED BY <3>1 DEF Replies
  <2> QED BY <1>3, <1>4, <1>7, <1>8, <2>1
<1> QED BY <1>9, <1>10, <1>11, <1>12

\* The invariant of the pool and of its past.
LEMMA PastInvariant == PastSpec => [](ClientInv /\ PastInv)
<1>1. PastInit => ClientInv /\ PastInv
  <2> SUFFICES ASSUME PastInit PROVE ClientInv /\ PastInv
    OBVIOUS
  <2>1. sessions = <<>> /\ past = <<>>
    BY DEF PastInit, Init
  <2>2. DOMAIN past = DOMAIN sessions /\ DOMAIN sessions = {}
    BY <2>1
  <2> QED BY <2>2, InitHasInv DEF PastInit, PastInv
<1>2. ClientInv /\ PastInv /\ [PastNext]_pastVars => ClientInv' /\ PastInv'
  <2>1. ASSUME ClientInv, PastInv, PastNext PROVE ClientInv' /\ PastInv'
    BY <2>1, NextKeepsInv, PastKept DEF PastNext
  <2>2. ASSUME ClientInv, PastInv, UNCHANGED pastVars PROVE ClientInv' /\ PastInv'
    <3>1. ClientInv'
      BY <2>2, NextKeepsInv DEF pastVars
    <3> QED BY <2>2, <3>1 DEF pastVars, vars, PastInv
  <2> QED BY <2>1, <2>2
<1> QED BY <1>1, <1>2, PTL DEF PastSpec

(***************************************************************************)
(* Every session of the client is a RequestQueue, for any number of        *)
(* sessions and whatever the client sends them: what the sessions are      *)
(* proved to implement is what the client's own theorems stand on.         *)
(***************************************************************************)
THEOREM SessionsBehave == PastSpec => SessionsAreQueues
<1>1. ClientInv /\ PastInv /\ [PastNext]_pastVars
        => [\A i \in DOMAIN sessions' : [Queue(i)!Next]_(Queue(i)!vars)]_pastVars
  BY StepOfQueues DEF PastNext, QueueStep
<1> QED BY <1>1, PastInvariant, PTL DEF PastSpec, SessionsAreQueues

(***************************************************************************)
(* The same as a refinement: place i of the pool, a queue that nothing was *)
(* pushed to until a session is made there, implements RequestQueue.       *)
(***************************************************************************)
THEOREM SessionImplementsQueue == ASSUME NEW i PROVE PastSpec => Queue(i)!Spec
<1>1. PastInit => Queue(i)!Init
  <2> SUFFICES ASSUME PastInit PROVE Queue(i)!Init
    OBVIOUS
  <2>1. i \notin DOMAIN sessions /\ i \notin DOMAIN past
    BY DEF PastInit, Init
  <2>2. /\ Accepting(i) = TRUE /\ Waiting(i) = <<>>
        /\ Past(i).refused = {} /\ Past(i).replies = <<>>
    BY <2>1 DEF Accepting, Waiting, Past, Nothing
  <2> QED BY <2>2 DEF Queue!Init
<1>2. ClientInv /\ PastInv /\ [PastNext]_pastVars => [Queue(i)!Next]_(Queue(i)!vars)
  <2> SUFFICES ASSUME ClientInv, PastInv, [PastNext]_pastVars
               PROVE  [Queue(i)!Next]_(Queue(i)!vars)
    OBVIOUS
  <2>1. CASE PastNext /\ i \in DOMAIN sessions'
    BY <2>1, StepOfQueues DEF PastNext, QueueStep
  <2>2. CASE PastNext /\ i \notin DOMAIN sessions'
    <3>1. DOMAIN past' = DOMAIN sessions' /\ DOMAIN past = DOMAIN sessions
      BY <2>2 DEF PastNext, Remember, PastInv
    <3>2. /\ i \notin DOMAIN sessions /\ i \notin DOMAIN past /\ i \notin DOMAIN past'
      BY <2>2, <3>1, StepOfQueues DEF PastNext
    <3>3. /\ Accepting(i)' = TRUE /\ Accepting(i) = TRUE
          /\ Waiting(i)' = <<>> /\ Waiting(i) = <<>>
          /\ Past(i)' = Nothing /\ Past(i) = Nothing
      BY <2>2, <3>2 DEF Accepting, Waiting, Past
    <3> QED BY <3>3 DEF Queue!vars
  <2>3. CASE UNCHANGED pastVars
    BY <2>3 DEF pastVars, vars, Queue!vars, Accepting, Waiting, Past
  <2> QED BY <2>1, <2>2, <2>3
<1> QED BY <1>1, <1>2, PastInvariant, PTL DEF PastSpec, Queue!Spec

=============================================================================
