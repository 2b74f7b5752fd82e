------------------------- MODULE TransportContract -------------------------
(***************************************************************************)
(* What a session knows of its transport: the part of its state that       *)
(* decides how async_connect, async_process_one and async_close may end,   *)
(* and for each of them the results it may end with.  Session is written   *)
(* against these operators, module Transport is shown to respect them.     *)
(***************************************************************************)

\* Error codes: "error" is any failure but operation_aborted.
ErrorCode == {"ok", "error", "aborted"}

(***************************************************************************)
(* open: the socket is open; running: running_, cleared by async_close and *)
(* set by async_connect; dirty: buffer_ may hold the rest of a response    *)
(* whose request failed; extra: it may hold bytes that came behind a       *)
(* complete response, or that a CONNECT left; used: a response was read    *)
(* over the current connection; proxied: a tunnel_async_transport; conn:   *)
(* the state of the connection.                                            *)
(***************************************************************************)
Transport == [open : BOOLEAN, running : BOOLEAN, dirty : BOOLEAN,
              extra : BOOLEAN, used : BOOLEAN, proxied : BOOLEAN,
              conn : {"none", "resolving", "connecting", "linked"}]

NewTransport(p) == [open |-> FALSE, running |-> TRUE, dirty |-> FALSE,
                    extra |-> FALSE, used |-> FALSE, proxied |-> p, conn |-> "none"]

\* The stream is replaced: an async_connect under way goes on with the new one.
NewStream(t) ==
    [t EXCEPT !.open = FALSE, !.used = FALSE,
              !.conn = IF @ = "linked" THEN "none" ELSE @]

\* Faulty variant: the stream is replaced and the buffer kept.
FaultyReset(t) == NewStream(t)

\* basic_async_transport::reset, and the last two calls of a tunnel's close.
Reset(t) == [NewStream(t) EXCEPT !.dirty = FALSE, !.extra = FALSE]

\* async_connect up to its first wait: only a direct transport that was closed
\* is reset here.
ConnectCall(t) ==
    [(IF t.running \/ t.proxied THEN t ELSE Reset(t))
        EXCEPT !.running = TRUE, !.conn = "resolving"]

\* The resolver answered: async_connect of the stream opens the socket.
Opened(t) == [t EXCEPT !.conn = "connecting", !.open = TRUE]

\* A timer of the stream fired: the socket is closed under its operations.
Dropped(t) == [t EXCEPT !.open = FALSE]

\* A read that failed may leave a part of the response in the buffer.
Soiled(t) == [t EXCEPT !.dirty = TRUE]

\* A message was read to its end: bytes behind it stay in the buffer, and no
\* one clears them before the next message is read.
Surplus(t) == [t EXCEPT !.extra = TRUE]

\* Only async_close aborts an operation.
Failures(t) == IF t.running THEN {"error"} ELSE {"error", "aborted"}

Result(ec, t) == [ec |-> ec, tr |-> t]

(***************************************************************************)
(* What an async_connect may end with.  A close that came too late lets it *)
(* succeed.  Only the CONNECT of a tunnel reads into buffer_, and accepted *)
(* or refused it may leave bytes there.                                    *)
(***************************************************************************)
ConnectResults(t) ==
    LET read == IF t.proxied THEN Surplus(t) ELSE t IN
    (IF t.conn = "connecting" /\ t.open
     THEN {Result("ok", [read EXCEPT !.conn = "linked", !.used = FALSE])}
     ELSE {})
    \cup {Result(ec, [u EXCEPT !.conn = "none"]) : ec \in Failures(t), u \in {t, read}}

(***************************************************************************)
(* What an async_process_one may end with.  After async_close the          *)
(* transport turns even a complete response into operation_aborted.  What  *)
(* is in the buffer is read first: a response may be made of the bytes an  *)
(* earlier message left there.                                             *)
(***************************************************************************)
ProcessResults(t) ==
    (IF t.running /\ t.open /\ t.conn = "linked"
     THEN {Result("ok", [Surplus(t) EXCEPT !.used = TRUE])}
     ELSE {})
    \cup {Result(ec, u) : ec \in Failures(t), u \in {t, Soiled(t)}}

\* async_close up to its first wait: pending I/O is cancelled.
CloseCall(t) == [t EXCEPT !.running = FALSE]

\* where a graceful async_close waits: for the shutdown, or for a bare post.
CloseState(t) == IF t.open THEN "closing" ELSE "close_posted"

(***************************************************************************)
(* The end of an async_close: only one that found the socket open and shut *)
(* it down closes it; a tunnel replaces its stream in any case.            *)
(***************************************************************************)
Closed(t, pc) ==
    IF pc = "closing"
    THEN [t EXCEPT !.open = FALSE,
                   !.conn = IF @ = "linked" THEN "none" ELSE @]
    ELSE t

CloseEnd(t, pc) == IF t.proxied THEN Reset(Closed(t, pc)) ELSE Closed(t, pc)

=============================================================================
