----------------------------- MODULE MCContracts -----------------------------
(***************************************************************************)
(* Messages that meet in the tables: m1 and m2 are two approvals of one    *)
(* listing for Ann, so they share a row of notifications; m3 is a chat     *)
(* message whose claim id is the event id of m1.                           *)
(***************************************************************************)
EXTENDS NotificationService, TLC

CONSTANTS w1, w2, m1, m2, m3

MCTypeOf == (m1 :> "listing_approved") @@ (m2 :> "listing_approved")
            @@ (m3 :> "new_message")
MCIdOf == (m1 :> "id1") @@ (m2 :> "id2") @@ (m3 :> "id1")
MCAddressee == [m \in Messages |-> "ann"]
MCEntity == (m1 :> "listing") @@ (m2 :> "listing") @@ (m3 :> "conversation")
MCSenders == [m \in Messages |-> {}]
MCKeys == {RowKey(m, u) : m \in Messages, u \in Users}
MCInitialOwner == [t \in Tokens |-> "ann"]
WorkerSymmetry == Permutations({w1, w2})
=============================================================================
