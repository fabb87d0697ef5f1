------------------------------ MODULE MCFanOut -------------------------------
(***************************************************************************)
(* One gig announced to the subscribers of its category.  Ann stays        *)
(* subscribed and keeps her phone; Bob comes and goes and may be deleted;  *)
(* Eve never subscribes.  The tablet is hers to begin with and changes     *)
(* hands at any time.                                                      *)
(***************************************************************************)
EXTENDS LiveReads, TLC

CONSTANTS w1, w2, m1

MCTypeOf == m1 :> "gig_category_matched"
MCIdOf == m1 :> "id1"
MCAddressee == m1 :> "ann"
MCEntity == m1 :> "gig"
MCSenders == m1 :> {}
MCKeys == {RowKey(m, u) : m \in Messages, u \in Users}
MCInitialOwner == ("phone" :> "ann") @@ ("tablet" :> "eve")
WorkerSymmetry == Permutations({w1, w2})
=============================================================================
