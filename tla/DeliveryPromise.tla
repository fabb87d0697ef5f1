--------------------------- MODULE DeliveryPromise ---------------------------
(***************************************************************************)
(* What the notification service promises its users and its producers,     *)
(* with no worker, claim, lease or fault in sight.  An event owes rows of  *)
(* the inbox.  A row is noted, then pushed to devices, then marked as      *)
(* pushed; an event is finished when the rows it owes are noted, and       *)
(* marked if there is a device to push to; only then does its message      *)
(* leave the queue.  Nothing is taken back.                                *)
(***************************************************************************)
CONSTANTS
    Messages,
    Rows,          \* rows of the inbox somebody owes
    Devices,
    OwedRows,      \* of each message, the rows it owes
    Lasting,       \* of each row, the devices its user has throughout
    Hopeless       \* messages nobody can handle

VARIABLES
    inbox,         \* rows noted
    reached,       \* <<row, device>>: the device accepted a push of the row
    marked,        \* rows marked as pushed
    finished,      \* messages whose event is done
    acked          \* messages that left the queue

promise == <<inbox, reached, marked, finished, acked>>

Init ==
    /\ inbox = {}
    /\ reached = {}
    /\ marked = {}
    /\ finished = {}
    /\ acked = {}

Note(k) ==
    /\ inbox' = inbox \cup {k}
    /\ UNCHANGED <<reached, marked, finished, acked>>

Reach(k, d) ==
    /\ k \in inbox
    /\ reached' = reached \cup {<<k, d>>}
    /\ UNCHANGED <<inbox, marked, finished, acked>>

Mark(k) ==
    /\ k \in inbox
    /\ \A d \in Lasting[k] : <<k, d>> \in reached
    /\ marked' = marked \cup {k}
    /\ UNCHANGED <<inbox, reached, finished, acked>>

(* The acknowledgement of whoever finished the event may be lost.          *)
Finish(m) ==
    /\ OwedRows[m] \subseteq inbox
    /\ \A k \in OwedRows[m] : Lasting[k] # {} => k \in marked
    /\ finished' = finished \cup {m}
    /\ acked' = acked \/ acked' = acked \cup {m}
    /\ UNCHANGED <<inbox, reached, marked>>

Acknowledge(m) ==
    /\ m \in finished \cup Hopeless
    /\ acked' = acked \cup {m}
    /\ UNCHANGED <<inbox, reached, marked, finished>>

Next ==
    \/ \E k \in Rows : Note(k) \/ Mark(k)
    \/ \E k \in Rows, d \in Devices : Reach(k, d)
    \/ \E m \in Messages : Finish(m) \/ Acknowledge(m)

Spec == Init /\ [][Next]_promise
=============================================================================
