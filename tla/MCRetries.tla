------------------------------ MODULE MCRetries ------------------------------
(***************************************************************************)
(* The broker's view: m1 announces a gig to Ann and Bob, m2 is a malformed *)
(* chat message.  Ann's device may be retired; Bob comes and goes and may  *)
(* be deleted.                                                             *)
(***************************************************************************)
EXTENDS NotificationService, TLC

CONSTANTS w1, w2, m1, m2

MCTypeOf == (m1 :> "gig_category_matched") @@ (m2 :> "new_message")
MCIdOf == (m1 :> "id1") @@ (m2 :> "id2")
MCAddressee == [m \in Messages |-> "ann"]
MCEntity == (m1 :> "gig") @@ (m2 :> "conversation")
MCSenders == [m \in Messages |-> {}]
MCKeys == {RowKey(m, u) : m \in Messages, u \in Users}
MCInitialOwner == [t \in Tokens |-> "ann"]
=============================================================================
