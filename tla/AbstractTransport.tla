------------------------- MODULE AbstractTransport -------------------------
(***************************************************************************)
(* What a transport promises its caller, whatever it is made of: the       *)
(* operations of TransportContract as a state machine.                     *)
(***************************************************************************)
EXTENDS TransportContract

CONSTANT Closes      \* the calls of async_close

VARIABLES
    tr,          \* the transport, as its caller sees it
    connectEc,   \* what the last async_connect answered, or "pending"
    processEc,   \* what the last async_process_one answered, or "pending"
    closing      \* where each async_close stands

vars == <<tr, connectEc, processEc, closing>>

Init ==
    /\ tr \in {NewTransport(p) : p \in BOOLEAN}
    /\ connectEc = "none"
    /\ processEc = "none"
    /\ closing = [k \in Closes |-> "idle"]

Connect ==
    /\ connectEc # "pending"
    /\ tr' = ConnectCall(tr)
    /\ connectEc' = "pending"
    /\ processEc' = "none"
    /\ UNCHANGED closing

Connected ==
    /\ connectEc = "pending"
    /\ \E res \in ConnectResults(tr) : tr' = res.tr /\ connectEc' = res.ec
    /\ UNCHANGED <<processEc, closing>>

\* The reply to a tunnel's CONNECT was read, the handshake is still to come.
Replied ==
    /\ tr.proxied /\ tr.conn = "connecting"
    /\ tr' = Surplus(tr)
    /\ UNCHANGED <<connectEc, processEc, closing>>

Process ==
    /\ processEc # "pending"
    /\ processEc' = "pending"
    /\ UNCHANGED <<tr, connectEc, closing>>

\* A transport that was closed aborts a request at once.
ProcessRefused ==
    /\ processEc # "pending" /\ ~tr.running
    /\ processEc' = "aborted"
    /\ UNCHANGED <<tr, connectEc, closing>>

Processed ==
    /\ processEc = "pending"
    /\ \E res \in ProcessResults(tr) : tr' = res.tr /\ processEc' = res.ec
    /\ UNCHANGED <<connectEc, closing>>

Open ==
    /\ tr.conn = "resolving"
    /\ tr' = Opened(tr)
    /\ UNCHANGED <<connectEc, processEc, closing>>

\* The socket is only lost under an operation.
Drop ==
    /\ \/ "pending" \in {connectEc, processEc}
       \/ \E k \in Closes : closing[k] = "closing"
    /\ tr.open
    /\ tr' = Dropped(tr)
    /\ UNCHANGED <<connectEc, processEc, closing>>

Close(k) ==
    /\ closing[k] = "idle"
    /\ \/ /\ tr' = CloseCall(tr)
          /\ closing' = [closing EXCEPT ![k] = CloseState(tr)]
       \/ /\ tr.open
          /\ tr' = CloseEnd(CloseCall(tr), "close_posted")
          /\ closing' = [closing EXCEPT ![k] = "done"]
    /\ UNCHANGED <<connectEc, processEc>>

\* The stream of a tunnel is not replaced under an operation.
CloseDone(k) ==
    /\ closing[k] \in {"closing", "close_posted"}
    /\ tr.proxied => /\ processEc # "pending"
                     /\ tr.conn = "connecting" => closing[k] = "close_posted"
    /\ tr' = CloseEnd(tr, closing[k])
    /\ closing' = [closing EXCEPT ![k] = "done"]
    /\ UNCHANGED <<connectEc, processEc>>

Next ==
    \/ Connect \/ Replied \/ Connected
    \/ Process \/ ProcessRefused \/ Processed
    \/ Open \/ Drop
    \/ \E k \in Closes : Close(k) \/ CloseDone(k)

Spec == Init /\ [][Next]_vars

=============================================================================
