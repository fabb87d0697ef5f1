------------------------- MODULE EventDeduplicator -------------------------
(***************************************************************************)
(* The table notification_processed_events and the statements the         *)
(* PostgreSQL deduplicator runs on it.  Every operator below is one SQL    *)
(* statement, hence atomic; Claim is two statements and the service model  *)
(* takes them in two steps.                                                *)
(*                                                                         *)
(* A row's claimed_at matters only through the test against the lease, so  *)
(* a row carries `stale` (claimed_at is older than eventClaimLease) and    *)
(* time passing is LeaseLapses.  The stored event_version is always        *)
(* CurrentVersion here, so `type` stands for the (type, version) contract. *)
(*                                                                         *)
(* uuid.New() draws a claim token per call of Service.Handle.  A worker    *)
(* runs one call at a time and must claim again before it works again, so  *)
(* the worker's identity stands for the token of its current call.         *)
(***************************************************************************)
CONSTANTS
    EventIds,      \* keys of the table
    EventTypes,
    Workers,       \* concurrent calls of Service.Handle
    NoRow          \* no row for this event_id

VARIABLE claims

ClaimRow == [type : EventTypes, token : Workers,
             stale : BOOLEAN, processed : BOOLEAN]

ASSUME NoRowAssumption == NoRow \notin ClaimRow

ClaimsTypeOK == claims \in [EventIds -> ClaimRow \cup {NoRow}]

ClaimsInit == claims = [id \in EventIds |-> NoRow]

Recorded(id) == claims[id] # NoRow

-----------------------------------------------------------------------------
(* Mutations of Acquirable: the lease is not compared; a processed row is  *)
(* claimable again once it is old; ON CONFLICT does nothing.               *)
AcquirableWithoutLease(id, type) ==
    Recorded(id) => /\ ~claims[id].processed
                    /\ claims[id].type = type

AcquirableWhenProcessed(id, type) ==
    Recorded(id) => /\ claims[id].stale
                    /\ claims[id].type = type

AcquirableOnce(id, type) == ~Recorded(id)

(* The INSERT finds no row, or its ON CONFLICT ... WHERE accepts the row.  *)
Acquirable(id, type) ==
    Recorded(id) => /\ ~claims[id].processed
                    /\ claims[id].stale
                    /\ claims[id].type = type

AcquireClaim(id, type, w) ==
    /\ Acquirable(id, type)
    /\ claims' = [claims EXCEPT ![id] =
            [type |-> type, token |-> w, stale |-> FALSE, processed |-> FALSE]]

(* Mutations: the state query does not look at processed_at; it does not   *)
(* compare the contract.                                                   *)
AnyRowIsProcessed(id, type) == Recorded(id) /\ claims[id].type = type

ProcessedAsAnything(id, type) == Recorded(id) /\ claims[id].processed

(* What the state query must find for Claim to return                      *)
(* ClaimAlreadyProcessed.  Anything else (the row is gone, its contract    *)
(* differs, it is in progress) makes Handle return a retryable error.      *)
AlreadyProcessed(id, type) ==
    /\ Recorded(id)
    /\ claims[id].type = type
    /\ claims[id].processed

(* Mutation: neither Complete nor Release compares the claim token.        *)
OwnedByAnyone(id, w) == Recorded(id) /\ ~claims[id].processed

(* The WHERE clause that Complete and Release share.                       *)
Owns(id, w) ==
    /\ Recorded(id)
    /\ claims[id].token = w
    /\ ~claims[id].processed

(* UPDATE ... SET processed_at; the caller fails when it affects no row.   *)
CompleteClaim(id, w) ==
    /\ Owns(id, w)
    /\ claims' = [claims EXCEPT ![id].processed = TRUE]

(* DELETE; affecting no row is not an error.                               *)
ReleaseClaim(id, w) ==
    claims' = [claims EXCEPT ![id] = IF Owns(id, w) THEN NoRow ELSE @]

(* NOW() passes claimed_at + eventClaimLease.                              *)
LeaseLapses(id) ==
    /\ Recorded(id)
    /\ ~claims[id].stale
    /\ claims' = [claims EXCEPT ![id].stale = TRUE]
=============================================================================
