------------------------------ MODULE MCMessage ------------------------------
(***************************************************************************)
(* One chat message, delivered over and over to two workers.  Bob holds a  *)
(* device for good and one that may be retired or handed to Eve.           *)
(***************************************************************************)
EXTENDS NotificationService, TLC

CONSTANTS w1, w2, m1

MCTypeOf == m1 :> "new_message"
MCIdOf == m1 :> "id1"
MCAddressee == m1 :> "bob"
MCEntity == m1 :> "conversation"
MCSenders == m1 :> {"eve"}
MCKeys == {RowKey(m, u) : m \in Messages, u \in Users}
MCInitialOwner == [t \in Tokens |-> "bob"]
WorkerSymmetry == Permutations({w1, w2})
=============================================================================
