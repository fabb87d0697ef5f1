---------------------- MODULE NotificationServiceClaims ----------------------
(***************************************************************************)
(* NotificationService keeps its types, for any number of workers,         *)
(* messages, users and tokens, and any number of faults.                   *)
(*                                                                         *)
(* What the claim promises: concurrent deliveries of an event are kept     *)
(* apart, and no event is acknowledged that nobody finished.               *)
(***************************************************************************)
EXTENDS NotificationService, TLAPS

(* Operators that say how a call goes on keep the calls well-typed.        *)
LEMMA ReturnType ==
    ASSUME CallsTypeOK, acked \subseteq Messages,
           NEW w \in Workers, pc[w] # "idle", NEW ack,
           Return(w, ack)
    PROVE  CallsTypeOK' /\ acked' \subseteq Messages
  <1>1. NoCall \in Calls
    BY MessagesAssumption DEF NoCall, Calls
  <1>2. QED
    BY <1>1 DEF CallsTypeOK, Return, GoTo, MsgOf, Phases, Working

LEMMA FinishType ==
    ASSUME CallsTypeOK,
           NEW w \in Workers, pc[w] # "idle", NEW u, NEW errors \in SUBSET Errors,
           FinishRecipient(w, u, errors)
    PROVE  CallsTypeOK'
  <1> DEFINE rest == call[w].todo \ {u}
             errs == call[w].errs \cup errors
             next == [NoCall EXCEPT !.msg = MsgOf(w), !.todo = rest,
                                    !.errs = errs, !.late = call[w].late]
  <1>1. call[w] \in Calls /\ MsgOf(w) \in Messages
    BY DEF CallsTypeOK
  <1>2. next \in Calls /\ next.msg = MsgOf(w)
    BY <1>1 DEF NoCall, Calls, MsgOf
  <1>3. call' = [call EXCEPT ![w] = next]
    BY DEF FinishRecipient
  <1>4. PICK phase \in {"create", "complete", "release"} :
            pc' = [pc EXCEPT ![w] = phase]
    BY DEF FinishRecipient, GoTo
  <1>5. QED
    BY <1>1, <1>2, <1>3, <1>4 DEF CallsTypeOK, MsgOf, Phases, Working

(* A worker that moves to another phase with its call changed or not.      *)
LEMMA AdvanceType ==
    ASSUME CallsTypeOK,
           NEW w \in Workers, NEW phase \in Phases, NEW next \in Calls,
           next.msg \in Messages,
           phase \in {"list", "send", "mark"} => next.rcpt \in Users,
           pc' = [pc EXCEPT ![w] = phase],
           call' = [call EXCEPT ![w] = next]
    PROVE  CallsTypeOK'
  BY DEF CallsTypeOK, MsgOf

LEMMA FaultType ==
    ASSUME faults \in Nat, disrupted \in [Messages \X Users -> Nat],
           NEW w \in Workers, NEW cut, Fault(w, cut)
    PROVE  faults' \in Nat /\ disrupted' \in [Messages \X Users -> Nat]
  BY DEF Fault

LEMMA DeliveredType ==
    ASSUME pushes \in [Messages \X Users \X Tokens -> Nat],
           NEW w \in Workers, MsgOf(w) \in Messages, call[w].rcpt \in Users,
           NEW t \in Tokens, Delivered(w, t)
    PROVE  pushes' \in [Messages \X Users \X Tokens -> Nat]
  BY DEF Delivered

(* The statements of the database keep the tables well-typed.              *)
LEMMA ClaimsTypes ==
    ASSUME ClaimsTypeOK, NEW id \in EventIds, NEW w \in Workers,
           NEW type \in EventTypes,
           \/ AcquireClaim(id, type, w)
           \/ CompleteClaim(id, w)
           \/ ReleaseClaim(id, w)
           \/ LeaseLapses(id)
    PROVE  ClaimsTypeOK'
  <1>1. PICK row \in ClaimRow \cup {NoRow} :
          claims' = [claims EXCEPT ![id] = row]
    <2>1. CASE AcquireClaim(id, type, w)
      BY <2>1 DEF AcquireClaim, ClaimRow
    <2>2. CASE CompleteClaim(id, w)
      <3>1. [claims[id] EXCEPT !.processed = TRUE] \in ClaimRow
        BY <2>2 DEF CompleteClaim, Owns, Recorded, ClaimsTypeOK, ClaimRow
      <3>2. claims' = [claims EXCEPT ![id] = [claims[id] EXCEPT !.processed = TRUE]]
        BY <2>2 DEF CompleteClaim
      <3>3. QED
        BY <3>1, <3>2
    <2>3. CASE ReleaseClaim(id, w)
      BY <2>3 DEF ReleaseClaim, ClaimsTypeOK
    <2>4. CASE LeaseLapses(id)
      <3>1. [claims[id] EXCEPT !.stale = TRUE] \in ClaimRow
        BY <2>4 DEF LeaseLapses, Recorded, ClaimsTypeOK, ClaimRow
      <3>2. claims' = [claims EXCEPT ![id] = [claims[id] EXCEPT !.stale = TRUE]]
        BY <2>4 DEF LeaseLapses
      <3>3. QED
        BY <3>1, <3>2
    <2>5. QED
      BY <2>1, <2>2, <2>3, <2>4
  <1>2. QED
    BY <1>1 DEF ClaimsTypeOK

LEMMA RowTypes ==
    ASSUME StoreTypeOK, NEW k,
           CreateRow(k) \/ MarkRowPushed(k) \/ UNCHANGED notifications
    PROVE  notifications' \in [Keys -> RowStates]
  BY DEF StoreTypeOK, CreateRow, MarkRowPushed, RowStates

LEMMA OwnerTypes ==
    ASSUME StoreTypeOK, NEW u, NEW T,
           DeleteTokens(u, T) \/ UNCHANGED owner
    PROVE  owner' \in [Tokens -> Users \cup {NoUser}]
  BY DEF StoreTypeOK, DeleteTokens

-----------------------------------------------------------------------------
LEMMA TypeInit == Init => TypeOK
  <1> SUFFICES ASSUME Init PROVE TypeOK
    OBVIOUS
  <1>1. NoCall \in Calls
    BY DEF NoCall, Calls
  <1>2. CallsTypeOK
    BY <1>1 DEF Init, CallsTypeOK, Phases
  <1>3. ClaimsTypeOK /\ StoreTypeOK
    BY EnvironmentAssumption DEF Init, ClaimsInit, ClaimsTypeOK, StoreTypeOK,
                                 RowStates
  <1>4. QED
    BY <1>2, <1>3, EnvironmentAssumption DEF Init, TypeOK

LEMMA StepType ==
    ASSUME TypeOK, NEW w \in Workers, Step(w)
    PROVE  TypeOK'
  <1> USE DEF TypeOK
  <1>0. pc[w] # "idle"
    BY DEF Step, Claim, ReadClaimState, Resolve, RefusePayload, Create,
           CreateOrphan, ListTokens, SendOne, DeleteGone, MarkPushed, Complete,
           Release
  <1>1. /\ call[w] \in Calls
        /\ MsgOf(w) \in Messages
        /\ IdAt(w) \in EventIds
        /\ TypeOf[MsgOf(w)] \in EventTypes
        /\ Addressee[MsgOf(w)] \in Users
    BY <1>0, MessagesAssumption DEF CallsTypeOK, IdAt
  <1>2. CASE Claim(w)
    <2>1. ClaimsTypeOK'
      BY <1>1, <1>2, ClaimsTypes DEF Claim, ClaimsTypeOK
    <2>2. CallsTypeOK'
      <3>1. PICK phase \in {"resolve", "create", "state"} :
              pc' = [pc EXCEPT ![w] = phase]
        BY <1>2 DEF Claim, GoTo
      <3>2. PICK todo \in {call[w].todo, {Addressee[MsgOf(w)]}} :
              call' = [call EXCEPT ![w] = [call[w] EXCEPT !.todo = todo]]
        <4>1. [call[w] EXCEPT !.todo = call[w].todo] = call[w]
          BY <1>1 DEF Calls
        <4>2. call = [call EXCEPT ![w] = call[w]]
          BY DEF CallsTypeOK
        <4>3. QED
          BY <1>2, <4>1, <4>2 DEF Claim
      <3>3. [call[w] EXCEPT !.todo = todo] \in Calls
        BY <1>1 DEF Calls
      <3>4. QED
        BY <1>1, <3>1, <3>2, <3>3, AdvanceType DEF Calls, MsgOf, Phases, Working
    <2>3. QED
      BY <1>2, <2>1, <2>2 DEF Claim, store, StoreTypeOK
  <1>3. CASE ReadClaimState(w)
    BY <1>0, <1>3, ReturnType
       DEF ReadClaimState, AlreadyProcessed, store, StoreTypeOK, ClaimsTypeOK
  <1>4. CASE Resolve(w)
    <2>1. PICK phase \in {"release", "complete", "create"} :
            pc' = [pc EXCEPT ![w] = phase]
      BY <1>4 DEF Resolve, GoTo
    <2>2. PICK next \in {[call[w] EXCEPT !.errs = {"retryable"}],
                        [call[w] EXCEPT !.todo = subscribed]} :
            call' = [call EXCEPT ![w] = next]
      BY <1>4 DEF Resolve
    <2>3. CallsTypeOK'
      <3>1. next \in Calls /\ next.msg = MsgOf(w)
        BY <1>1, <2>2 DEF Calls, Errors, MsgOf
      <3>2. phase \in Phases /\ phase \notin {"list", "send", "mark"}
        BY <2>1 DEF Phases, Working
      <3>3. QED
        BY <1>1, <2>1, <2>2, <3>1, <3>2, AdvanceType
    <2>4. QED
      BY <1>4, <2>3 DEF Resolve, store, StoreTypeOK, ClaimsTypeOK
  <1>5. ASSUME NEW u \in Users, RefusePayload(w, u) \/ CreateOrphan(w, u)
        PROVE  TypeOK'
    <2>1. CallsTypeOK'
      BY <1>0, <1>5, FinishType DEF RefusePayload, CreateOrphan, Errors
    <2>2. QED
      BY <1>5, <2>1 DEF RefusePayload, CreateOrphan, store, StoreTypeOK,
                        ClaimsTypeOK
  <1>6. ASSUME NEW u \in Users, Create(w, u)
        PROVE  TypeOK'
    <2>1. CallsTypeOK'
      <3>1. CASE FinishRecipient(w, u, {})
        BY <1>0, <3>1, FinishType
      <3>2. CASE call' = [call EXCEPT ![w].rcpt = u] /\ GoTo(w, "list")
        BY <1>1, <3>2 DEF CallsTypeOK, Calls, GoTo, MsgOf, Phases, Working
      <3>3. QED
        BY <1>6, <3>1, <3>2 DEF Create
    <2>2. notifications' \in [Keys -> RowStates]
      BY <1>6, RowTypes DEF Create
    <2>3. QED
      BY <1>6, <2>1, <2>2 DEF Create, StoreTypeOK, ClaimsTypeOK
  <1>7. CASE ListTokens(w)
    <2>1. CallsTypeOK'
      <3>1. CASE FinishRecipient(w, call[w].rcpt, {})
        BY <1>0, <3>1, FinishType
      <3>2. CASE /\ call' = [call EXCEPT ![w].devices = TokensOf(call[w].rcpt)]
                 /\ GoTo(w, "send")
        BY <1>1, <1>7, <3>2 DEF CallsTypeOK, Calls, GoTo, MsgOf, Phases, Working,
                                ListTokens, TokensOf
      <3>3. QED
        BY <1>7, <3>1, <3>2 DEF ListTokens
    <2>2. QED
      BY <1>7, <2>1 DEF ListTokens, store, StoreTypeOK, ClaimsTypeOK
  <1>8. ASSUME NEW t \in Tokens, SendOne(w, t)
        PROVE  TypeOK'
    <2>1. call[w].rcpt \in Users
      BY <1>8 DEF SendOne, CallsTypeOK
    <2>2. pushes' \in [Messages \X Users \X Tokens -> Nat]
      BY <1>1, <1>8, <2>1, DeliveredType DEF SendOne
    <2> DEFINE gone == IF t \in dead THEN call[w].gone \cup {t} ELSE call[w].gone
               next == [call[w] EXCEPT !.devices = @ \ {t}, !.gone = gone]
    <2>3. next \in Calls /\ next.msg = MsgOf(w) /\ next.rcpt = call[w].rcpt
      BY <1>1 DEF Calls, MsgOf
    <2>4. CallsTypeOK'
      <3>1. call' = [call EXCEPT ![w] = next]
        BY <1>1, <1>8 DEF SendOne, CallsTypeOK, Calls
      <3>2. pc' = [pc EXCEPT ![w] = pc[w]]
        BY <1>8 DEF SendOne, CallsTypeOK
      <3>3. QED
        BY <1>1, <2>1, <2>3, <3>1, <3>2, AdvanceType DEF CallsTypeOK
    <2>5. QED
      BY <1>8, <2>2, <2>4 DEF SendOne, store, StoreTypeOK, ClaimsTypeOK
  <1>9. CASE DeleteGone(w)
    <2>1. CallsTypeOK'
      <3>1. CASE FinishRecipient(w, call[w].rcpt, {"retryable"})
        BY <1>0, <3>1, FinishType DEF Errors
      <3>2. CASE call' = call /\ GoTo(w, "mark")
        BY <1>9, <3>2 DEF DeleteGone, CallsTypeOK, GoTo, MsgOf, Phases, Working
      <3>3. QED
        BY <1>9, <3>1, <3>2 DEF DeleteGone
    <2>2. owner' \in [Tokens -> Users \cup {NoUser}]
      BY <1>9, OwnerTypes DEF DeleteGone
    <2>3. QED
      BY <1>9, <2>1, <2>2 DEF DeleteGone, StoreTypeOK, ClaimsTypeOK
  <1>10. CASE MarkPushed(w)
    <2>1. CallsTypeOK'
      BY <1>0, <1>10, FinishType DEF MarkPushed
    <2>2. notifications' \in [Keys -> RowStates]
      BY <1>10, RowTypes DEF MarkPushed
    <2>3. QED
      BY <1>10, <2>1, <2>2 DEF MarkPushed, StoreTypeOK, ClaimsTypeOK
  <1>11. CASE Complete(w)
    <2>1. ClaimsTypeOK'
      BY <1>1, <1>11, ClaimsTypes DEF Complete, ClaimsTypeOK
    <2>2. CallsTypeOK' /\ acked' \subseteq Messages
      BY <1>0, <1>11, ReturnType DEF Complete
    <2>3. QED
      BY <1>11, <2>1, <2>2 DEF Complete, store, StoreTypeOK
  <1>12. CASE Release(w)
    <2>1. ClaimsTypeOK'
      BY <1>1, <1>12, ClaimsTypes DEF Release
    <2>2. CallsTypeOK' /\ acked' \subseteq Messages
      BY <1>0, <1>12, ReturnType DEF Release
    <2>3. QED
      BY <1>12, <2>1, <2>2 DEF Release, store, StoreTypeOK
  <1>13. QED
    BY <1>2, <1>3, <1>4, <1>5, <1>6, <1>7, <1>8, <1>9, <1>10, <1>11, <1>12
       DEF Step

LEMMA FailureType ==
    ASSUME TypeOK, NEW w \in Workers, Failure(w)
    PROVE  TypeOK'
  <1> USE DEF TypeOK
  <1>0. pc[w] # "idle"
    BY DEF Failure, Crash, ClaimFails, ResolveFails, CreateFails, ListFails,
           SendFails, DeleteFails, MarkFails, CompleteFails, ReleaseFails,
           Overrun, Working
  <1>1. /\ call[w] \in Calls
        /\ MsgOf(w) \in Messages
        /\ IdAt(w) \in EventIds
        /\ TypeOf[MsgOf(w)] \in EventTypes
    BY <1>0, MessagesAssumption DEF CallsTypeOK, IdAt
  <1>2. /\ \E cut : Fault(w, cut)
        /\ faults' \in Nat
        /\ disrupted' \in [Messages \X Users -> Nat]
    <2>1. \E cut : Fault(w, cut)
      BY DEF Failure, Crash, ClaimFails, ResolveFails, CreateFails, ListFails,
             SendFails, DeleteFails, MarkFails, CompleteFails, ReleaseFails,
             Overrun
    <2>2. QED
      BY <1>1, <2>1, FaultType
  <1>3. CASE Crash(w) \/ ReleaseFails(w)
    BY <1>0, <1>2, <1>3, ReturnType
       DEF Crash, ReleaseFails, store, StoreTypeOK, ClaimsTypeOK
  <1>4. CASE ClaimFails(w) \/ CompleteFails(w)
    <2>1. ClaimsTypeOK'
      BY <1>1, <1>4, ClaimsTypes DEF ClaimFails, CompleteFails
    <2>2. CallsTypeOK' /\ acked' \subseteq Messages
      BY <1>0, <1>4, ReturnType DEF ClaimFails, CompleteFails
    <2>3. QED
      BY <1>2, <1>4, <2>1, <2>2 DEF ClaimFails, CompleteFails, store, StoreTypeOK
  <1>5. CASE ResolveFails(w)
    <2> DEFINE next == [call[w] EXCEPT !.errs = {"retryable"}]
    <2>1. next \in Calls /\ next.msg = MsgOf(w)
      BY <1>1 DEF Calls, Errors, MsgOf
    <2>2. CallsTypeOK'
      <3>1. call' = [call EXCEPT ![w] = next]
        BY <1>5 DEF ResolveFails
      <3>2. pc' = [pc EXCEPT ![w] = "release"]
        BY <1>5 DEF ResolveFails, GoTo
      <3>3. QED
        BY <1>1, <2>1, <3>1, <3>2, AdvanceType DEF Phases, Working
    <2>3. QED
      BY <1>2, <1>5, <2>2 DEF ResolveFails, store, StoreTypeOK, ClaimsTypeOK
  <1>6. ASSUME NEW u \in Users, CreateFails(w, u)
        PROVE  TypeOK'
    <2>1. CallsTypeOK'
      BY <1>0, <1>6, FinishType DEF CreateFails, Errors
    <2>2. notifications' \in [Keys -> RowStates]
      BY <1>6, RowTypes DEF CreateFails
    <2>3. QED
      BY <1>2, <1>6, <2>1, <2>2 DEF CreateFails, StoreTypeOK, ClaimsTypeOK
  <1>7. CASE ListFails(w)
    <2>1. CallsTypeOK'
      BY <1>0, <1>7, FinishType DEF ListFails, Errors
    <2>2. QED
      BY <1>2, <1>7, <2>1 DEF ListFails, store, StoreTypeOK, ClaimsTypeOK
  <1>8. ASSUME NEW t \in Tokens, SendFails(w, t)
        PROVE  TypeOK'
    <2>1. call[w].rcpt \in Users
      BY <1>8 DEF SendFails, CallsTypeOK
    <2>2. pushes' \in [Messages \X Users \X Tokens -> Nat]
      BY <1>1, <1>8, <2>1, DeliveredType DEF SendFails
    <2> DEFINE next == [call[w] EXCEPT !.devices = @ \ {t}, !.failed = TRUE]
    <2>3. next \in Calls /\ next.msg = MsgOf(w) /\ next.rcpt = call[w].rcpt
      BY <1>1 DEF Calls, MsgOf
    <2>4. CallsTypeOK'
      <3>1. call' = [call EXCEPT ![w] = next]
        BY <1>1, <1>8 DEF SendFails, CallsTypeOK, Calls
      <3>2. pc' = [pc EXCEPT ![w] = pc[w]]
        BY <1>8 DEF SendFails, CallsTypeOK
      <3>3. QED
        BY <1>1, <2>1, <2>3, <3>1, <3>2, AdvanceType DEF CallsTypeOK
    <2>5. QED
      BY <1>2, <1>8, <2>2, <2>4 DEF SendFails, store, StoreTypeOK, ClaimsTypeOK
  <1>9. CASE DeleteFails(w)
    <2>1. CallsTypeOK'
      BY <1>0, <1>9, FinishType DEF DeleteFails, Errors
    <2>2. owner' \in [Tokens -> Users \cup {NoUser}]
      BY <1>9, OwnerTypes DEF DeleteFails
    <2>3. QED
      BY <1>2, <1>9, <2>1, <2>2 DEF DeleteFails, StoreTypeOK, ClaimsTypeOK
  <1>10. CASE MarkFails(w)
    <2>1. CallsTypeOK'
      BY <1>0, <1>10, FinishType DEF MarkFails, Errors
    <2>2. notifications' \in [Keys -> RowStates]
      BY <1>10, RowTypes DEF MarkFails
    <2>3. QED
      BY <1>2, <1>10, <2>1, <2>2 DEF MarkFails, StoreTypeOK, ClaimsTypeOK
  <1>11. CASE Overrun(w)
    <2>1. ClaimsTypeOK'
      BY <1>1, <1>11, ClaimsTypes DEF Overrun
    <2> DEFINE next == [call[w] EXCEPT !.late = TRUE]
    <2>2. next \in Calls /\ next.msg = MsgOf(w) /\ next.rcpt = call[w].rcpt
      BY <1>1 DEF Calls, MsgOf
    <2>3. CallsTypeOK'
      <3>1. call' = [call EXCEPT ![w] = next]
        BY <1>11 DEF Overrun
      <3>2. pc' = [pc EXCEPT ![w] = pc[w]]
        BY <1>11 DEF Overrun, CallsTypeOK
      <3>3. QED
        BY <1>1, <2>2, <3>1, <3>2, AdvanceType DEF CallsTypeOK
    <2>4. QED
      BY <1>2, <1>11, <2>1, <2>3 DEF Overrun, store, StoreTypeOK
  <1>12. QED
    BY <1>3, <1>4, <1>5, <1>6, <1>7, <1>8, <1>9, <1>10, <1>11 DEF Failure

LEMMA EnvironmentType ==
    ASSUME TypeOK, Environment
    PROVE  TypeOK'
  <1> USE DEF TypeOK
  <1>1. ASSUME NEW id \in EventIds, LeaseExpires(id)
        PROVE  TypeOK'
    <2>1. claims' \in [EventIds -> ClaimRow \cup {NoRow}]
      <3>1. [claims[id] EXCEPT !.stale = TRUE] \in ClaimRow
        BY <1>1 DEF LeaseExpires, LeaseLapses, Recorded, ClaimsTypeOK, ClaimRow
      <3>2. claims' = [claims EXCEPT ![id] = [claims[id] EXCEPT !.stale = TRUE]]
        BY <1>1 DEF LeaseExpires, LeaseLapses
      <3>3. QED
        BY <3>1, <3>2 DEF ClaimsTypeOK
    <2>2. QED
      BY <1>1, <2>1 DEF LeaseExpires, store, StoreTypeOK, ClaimsTypeOK,
                        CallsTypeOK, MsgOf
  <1>2. ASSUME NEW t \in Tokens, NEW u \in Users, TokenMoves(t, u)
        PROVE  TypeOK'
    BY <1>2 DEF TokenMoves, CoreAssigns, StoreTypeOK, ClaimsTypeOK, CallsTypeOK,
                MsgOf
  <1>3. ASSUME NEW t \in Tokens, TokenDies(t)
        PROVE  TypeOK'
    BY <1>3 DEF TokenDies, FirebaseRetires, StoreTypeOK, ClaimsTypeOK,
                CallsTypeOK, MsgOf
  <1>4. ASSUME NEW u \in Users, SubscriptionChanges(u)
        PROVE  TypeOK'
    BY <1>4 DEF SubscriptionChanges, StoreTypeOK, ClaimsTypeOK, CallsTypeOK,
                MsgOf
  <1>5. ASSUME NEW u \in Users, UserLeaves(u)
        PROVE  TypeOK'
    BY <1>5 DEF UserLeaves, CoreDeletes, StoreTypeOK, RowStates, ClaimsTypeOK,
                CallsTypeOK, MsgOf
  <1>6. QED
    BY <1>1, <1>2, <1>3, <1>4, <1>5 DEF Environment

LEMMA ReceiveType ==
    ASSUME TypeOK, NEW w \in Workers, NEW m \in Messages, Receive(w, m)
    PROVE  TypeOK'
  <1> USE DEF TypeOK
  <1> DEFINE next == [call[w] EXCEPT !.msg = m]
  <1>1. next \in Calls /\ next.msg = m
    BY DEF CallsTypeOK, Calls
  <1>2. call' = [call EXCEPT ![w] = next] /\ pc' = [pc EXCEPT ![w] = "claim"]
    BY DEF Receive, GoTo
  <1>3. CallsTypeOK'
    BY <1>1, <1>2, AdvanceType DEF Phases
  <1>4. QED
    BY <1>3 DEF Receive, store, StoreTypeOK, ClaimsTypeOK

LEMMA NextType ==
    TypeOK /\ [Next]_vars => TypeOK'
  <1> SUFFICES ASSUME TypeOK, [Next]_vars PROVE TypeOK'
    OBVIOUS
  <1>1. CASE UNCHANGED vars
    BY <1>1 DEF vars, TypeOK, ClaimsTypeOK, StoreTypeOK, CallsTypeOK, MsgOf
  <1>2. CASE Next
    BY <1>2, ReceiveType, StepType, FailureType, EnvironmentType DEF Next
  <1>3. QED
    BY <1>1, <1>2

(* Every variable of the service keeps its type, for any instance.         *)
THEOREM TypeCorrect == Spec => []TypeOK
  BY TypeInit, NextType, PTL DEF Spec

-----------------------------------------------------------------------------
(* The strengthening: a working call whose lease did not run out holds a   *)
(* fresh, unprocessed claim, and whatever claim a working call holds is of *)
(* its own event's type.                                                   *)
LeaseHeld(w) ==
    pc[w] \in Working /\ ~call[w].late =>
        Owns(IdAt(w), w) /\ ~claims[IdAt(w)].stale

OwnType(w) ==
    pc[w] \in Working /\ Owns(IdAt(w), w) =>
        claims[IdAt(w)].type = TypeOf[MsgOf(w)]

(* Only malformed payloads make non-retryable errors.                      *)
BlamesPoison(w) ==
    /\ pc[w] \notin Working => call[w].errs = {}
    /\ "nonRetryable" \in call[w].errs => MsgOf(w) \in Poison

WorkersOK == \A w \in Workers : LeaseHeld(w) /\ OwnType(w) /\ BlamesPoison(w)

ClaimInv == TypeOK /\ WorkersOK /\ NoEventLost

-----------------------------------------------------------------------------
(* Between Claim and the end of a call the claim is left alone, and so are *)
(* the call's message and its lateness.                                    *)
Internal(w) ==
    \/ Resolve(w)
    \/ \E u \in Users : RefusePayload(w, u) \/ Create(w, u) \/ CreateOrphan(w, u)
    \/ ListTokens(w)
    \/ \E t \in Tokens : SendOne(w, t)
    \/ DeleteGone(w)
    \/ MarkPushed(w)
    \/ ResolveFails(w)
    \/ \E u \in Users : CreateFails(w, u)
    \/ ListFails(w)
    \/ \E t \in Tokens : SendFails(w, t)
    \/ DeleteFails(w)
    \/ MarkFails(w)

OthersRest(w) ==
    \A v \in Workers \ {w} : pc'[v] = pc[v] /\ call'[v] = call[v]

KeepsWorking(w) ==
    /\ OthersRest(w)
    /\ pc'[w] \in Working
    /\ call'[w].msg = MsgOf(w)
    /\ call'[w].late = call[w].late
    /\ "nonRetryable" \in call'[w].errs =>
           "nonRetryable" \in call[w].errs \/ MsgOf(w) \in Poison

LEMMA FinishKeeps ==
    ASSUME CallsTypeOK, NEW w \in Workers, NEW u, NEW errors,
           FinishRecipient(w, u, errors),
           "nonRetryable" \in errors => MsgOf(w) \in Poison
    PROVE  KeepsWorking(w)
  <1> DEFINE rest == call[w].todo \ {u}
             errs == call[w].errs \cup errors
             next == [NoCall EXCEPT !.msg = MsgOf(w), !.todo = rest,
                                    !.errs = errs, !.late = call[w].late]
  <1>1. call' = [call EXCEPT ![w] = next]
    BY DEF FinishRecipient
  <1>2. next.msg = MsgOf(w) /\ next.late = call[w].late /\ next.errs = errs
    BY DEF NoCall
  <1>3. PICK phase \in Working : pc' = [pc EXCEPT ![w] = phase]
    BY DEF FinishRecipient, GoTo, Working
  <1>4. QED
    BY <1>1, <1>2, <1>3 DEF CallsTypeOK, KeepsWorking, OthersRest

LEMMA AdvanceKeeps ==
    ASSUME CallsTypeOK, NEW w \in Workers, NEW phase \in Working, NEW next,
           next.msg = MsgOf(w),
           next.late = call[w].late,
           next.errs \subseteq call[w].errs \cup {"retryable"},
           pc' = [pc EXCEPT ![w] = phase],
           call' = [call EXCEPT ![w] = next]
    PROVE  KeepsWorking(w)
  BY DEF CallsTypeOK, KeepsWorking, OthersRest

LEMMA InternalKeeps ==
    ASSUME TypeOK, NEW w \in Workers, Internal(w)
    PROVE  /\ claims' = claims
           /\ acked' = acked
           /\ pc[w] \in Working
           /\ KeepsWorking(w)
  <1>0. /\ CallsTypeOK
        /\ call[w] \in Calls
        /\ call = [call EXCEPT ![w] = call[w]]
        /\ pc = [pc EXCEPT ![w] = pc[w]]
    BY DEF TypeOK, CallsTypeOK
  <1>1. claims' = claims /\ acked' = acked /\ pc[w] \in Working
    BY DEF Internal, Resolve, RefusePayload, Create, CreateOrphan, ListTokens,
           SendOne, DeleteGone, MarkPushed, ResolveFails, CreateFails, ListFails,
           SendFails, DeleteFails, MarkFails, Working
  <1> SUFFICES KeepsWorking(w)
    BY <1>1
  <1>2. CASE Resolve(w) \/ ResolveFails(w)
    <2>1. PICK phase \in Working : pc' = [pc EXCEPT ![w] = phase]
      BY <1>2 DEF Resolve, ResolveFails, GoTo, Working
    <2>2. CASE call' = [call EXCEPT ![w].errs = {"retryable"}]
      <3> DEFINE next == [call[w] EXCEPT !.errs = {"retryable"}]
      <3>1. /\ next.msg = MsgOf(w)
            /\ next.late = call[w].late
            /\ next.errs = {"retryable"}
        BY <1>0 DEF Calls, MsgOf
      <3>2. call' = [call EXCEPT ![w] = next]
        BY <2>2
      <3>3. QED
        BY <1>0, <1>1, <2>1, <3>1, <3>2, AdvanceKeeps
    <2>3. CASE call' = [call EXCEPT ![w].todo = subscribed]
      <3> DEFINE next == [call[w] EXCEPT !.todo = subscribed]
      <3>1. /\ next.msg = MsgOf(w)
            /\ next.late = call[w].late
            /\ next.errs = call[w].errs
        BY <1>0 DEF Calls, MsgOf
      <3>2. call' = [call EXCEPT ![w] = next]
        BY <2>3
      <3>3. QED
        BY <1>0, <1>1, <2>1, <3>1, <3>2, AdvanceKeeps
    <2>4. QED
      BY <1>2, <2>2, <2>3 DEF Resolve, ResolveFails
  <1>3. ASSUME NEW u \in Users, RefusePayload(w, u) \/ CreateOrphan(w, u)
        PROVE  KeepsWorking(w)
    BY <1>0, <1>3, FinishKeeps DEF RefusePayload, CreateOrphan
  <1>4. ASSUME NEW u \in Users, Create(w, u) \/ CreateFails(w, u)
        PROVE  KeepsWorking(w)
    <2>1. CASE FinishRecipient(w, u, {}) \/ FinishRecipient(w, u, {"retryable"})
      BY <1>0, <2>1, FinishKeeps
    <2>2. CASE call' = [call EXCEPT ![w].rcpt = u] /\ GoTo(w, "list")
      <3> DEFINE next == [call[w] EXCEPT !.rcpt = u]
      <3>1. /\ next.msg = MsgOf(w)
            /\ next.late = call[w].late
            /\ next.errs = call[w].errs
        BY <1>0 DEF Calls, MsgOf
      <3>2. call' = [call EXCEPT ![w] = next] /\ pc' = [pc EXCEPT ![w] = "list"]
        BY <2>2 DEF GoTo
      <3>3. QED
        BY <1>0, <3>1, <3>2, AdvanceKeeps DEF Working
    <2>3. QED
      BY <1>4, <2>1, <2>2 DEF Create, CreateFails
  <1>5. CASE ListTokens(w) \/ ListFails(w)
    <2> DEFINE u == call[w].rcpt
    <2>1. CASE FinishRecipient(w, u, {}) \/ FinishRecipient(w, u, {"retryable"})
      BY <1>0, <2>1, FinishKeeps
    <2>2. CASE call' = [call EXCEPT ![w].devices = TokensOf(u)] /\ GoTo(w, "send")
      <3> DEFINE next == [call[w] EXCEPT !.devices = TokensOf(u)]
      <3>1. /\ next.msg = MsgOf(w)
            /\ next.late = call[w].late
            /\ next.errs = call[w].errs
        BY <1>0 DEF Calls, MsgOf
      <3>2. call' = [call EXCEPT ![w] = next] /\ pc' = [pc EXCEPT ![w] = "send"]
        BY <2>2 DEF GoTo
      <3>3. QED
        BY <1>0, <3>1, <3>2, AdvanceKeeps DEF Working
    <2>3. QED
      BY <1>5, <2>1, <2>2 DEF ListTokens, ListFails
  <1>6. ASSUME NEW t \in Tokens, SendOne(w, t) \/ SendFails(w, t)
        PROVE  KeepsWorking(w)
    <2>1. CASE SendOne(w, t)
      <3> DEFINE gone == IF t \in dead THEN call[w].gone \cup {t}
                                       ELSE call[w].gone
                 next == [call[w] EXCEPT !.devices = @ \ {t}, !.gone = gone]
      <3>1. /\ next.msg = MsgOf(w)
            /\ next.late = call[w].late
            /\ next.errs = call[w].errs
        BY <1>0 DEF Calls, MsgOf
      <3>2. call' = [call EXCEPT ![w] = next] /\ pc' = [pc EXCEPT ![w] = pc[w]]
        BY <1>0, <2>1 DEF SendOne, Calls, CallsTypeOK
      <3>3. QED
        BY <1>0, <1>1, <3>1, <3>2, AdvanceKeeps
    <2>2. CASE SendFails(w, t)
      <3> DEFINE next == [call[w] EXCEPT !.devices = @ \ {t}, !.failed = TRUE]
      <3>1. /\ next.msg = MsgOf(w)
            /\ next.late = call[w].late
            /\ next.errs = call[w].errs
        BY <1>0 DEF Calls, MsgOf
      <3>2. call' = [call EXCEPT ![w] = next] /\ pc' = [pc EXCEPT ![w] = pc[w]]
        BY <1>0, <2>2 DEF SendFails, Calls, CallsTypeOK
      <3>3. QED
        BY <1>0, <1>1, <3>1, <3>2, AdvanceKeeps
    <2>3. QED
      BY <1>6, <2>1, <2>2
  <1>7. CASE DeleteGone(w) \/ DeleteFails(w) \/ MarkPushed(w) \/ MarkFails(w)
    <2> DEFINE u == call[w].rcpt
    <2>1. CASE FinishRecipient(w, u, {}) \/ FinishRecipient(w, u, {"retryable"})
      BY <1>0, <2>1, FinishKeeps
    <2>2. CASE call' = call /\ GoTo(w, "mark")
      BY <1>0, <2>2, AdvanceKeeps DEF GoTo, Working, MsgOf
    <2>3. QED
      BY <1>7, <2>1, <2>2 DEF DeleteGone, DeleteFails, MarkPushed, MarkFails
  <1>8. QED
    BY <1>1, <1>2, <1>3, <1>4, <1>5, <1>6, <1>7 DEF Internal

-----------------------------------------------------------------------------
LEMMA ReturnRests ==
    ASSUME CallsTypeOK, NEW w \in Workers, NEW ack, Return(w, ack)
    PROVE  /\ OthersRest(w)
           /\ pc'[w] = "idle"
           /\ call'[w].errs = {}
  BY DEF CallsTypeOK, Return, GoTo, OthersRest, NoCall

(* A worker that is not touched, and whose claim is not, stays as it is.   *)
LEMMA WorkerInv ==
    ASSUME NEW v \in Workers,
           LeaseHeld(v), OwnType(v), BlamesPoison(v),
           pc'[v] = pc[v], call'[v] = call[v],
           \/ claims' = claims
           \/ pc[v] \notin Working
           \/ claims'[IdAt(v)] = claims[IdAt(v)]
           \/ ~Owns(IdAt(v), v) /\ ~Owns(IdAt(v), v)'
    PROVE  LeaseHeld(v)' /\ OwnType(v)' /\ BlamesPoison(v)'
  BY DEF LeaseHeld, OwnType, BlamesPoison, MsgOf, IdAt, Owns, Recorded

(* Processed rows stay, so what was acknowledged stays accounted for.      *)
LEMMA ProcessedStays ==
    ASSUME ClaimsTypeOK, NEW id \in EventIds, NEW w \in Workers,
           NEW type \in EventTypes,
           \/ AcquireClaim(id, type, w)
           \/ CompleteClaim(id, w)
           \/ ReleaseClaim(id, w)
           \/ LeaseLapses(id)
           \/ claims' = claims,
           NEW m \in Messages, Processed(m)
    PROVE  Processed(m)'
  <1>1. IdOf[m] \in EventIds
    BY MessagesAssumption
  <1>2. CASE AcquireClaim(id, type, w)
    BY <1>1, <1>2 DEF AcquireClaim, Acquirable, Recorded, ClaimsTypeOK,
                      Processed
  <1>3. CASE CompleteClaim(id, w)
    BY <1>1, <1>3 DEF CompleteClaim, Owns, Recorded, ClaimsTypeOK, ClaimRow,
                      Processed
  <1>4. CASE ReleaseClaim(id, w)
    BY <1>1, <1>4 DEF ReleaseClaim, Owns, Recorded, ClaimsTypeOK,
                      Processed
  <1>5. CASE LeaseLapses(id)
    BY <1>1, <1>5, NoRowAssumption
       DEF LeaseLapses, Recorded, ClaimsTypeOK, ClaimRow, Processed
  <1>6. CASE claims' = claims
    BY <1>6 DEF Processed, Recorded
  <1>7. QED
    BY <1>2, <1>3, <1>4, <1>5, <1>6

(* A write to a claim that v does not hold, before or after, is nothing    *)
(* to v.                                                                   *)
LEMMA NotMine ==
    ASSUME ClaimsTypeOK, NEW id \in EventIds, NEW w \in Workers, NEW v \in Workers,
           \/ CompleteClaim(id, w) /\ v # w
           \/ ReleaseClaim(id, w) /\ v # w
           \/ LeaseLapses(id) /\ ~Owns(id, v)
    PROVE  \A i \in EventIds : \/ claims'[i] = claims[i]
                               \/ ~Owns(i, v) /\ ~Owns(i, v)'
  <1>1. CASE CompleteClaim(id, w) /\ v # w
    BY <1>1 DEF CompleteClaim, Owns, Recorded, ClaimsTypeOK, ClaimRow
  <1>2. CASE ReleaseClaim(id, w) /\ v # w
    BY <1>2 DEF ReleaseClaim, Owns, Recorded, ClaimsTypeOK
  <1>3. CASE LeaseLapses(id) /\ ~Owns(id, v)
    BY <1>3 DEF LeaseLapses, Owns, Recorded, ClaimsTypeOK, ClaimRow
  <1>4. QED
    BY <1>1, <1>2, <1>3

LEMMA InternalInv ==
    ASSUME TypeOK, WorkersOK, NEW w \in Workers, Internal(w)
    PROVE  WorkersOK'
  <1>1. claims' = claims /\ pc[w] \in Working /\ KeepsWorking(w)
    BY InternalKeeps
  <1>2. ASSUME NEW v \in Workers \ {w}
        PROVE  LeaseHeld(v)' /\ OwnType(v)' /\ BlamesPoison(v)'
    BY <1>1, WorkerInv DEF WorkersOK, KeepsWorking, OthersRest
  <1>3. LeaseHeld(w)' /\ OwnType(w)' /\ BlamesPoison(w)'
    BY <1>1 DEF WorkersOK, KeepsWorking, LeaseHeld, OwnType, BlamesPoison,
                MsgOf, IdAt, Owns, Recorded
  <1>4. QED
    BY <1>2, <1>3 DEF WorkersOK

(* A call that ends, whether or not it touches its claim on the way out.   *)
LEMMA ReturnInv ==
    ASSUME TypeOK, WorkersOK, NEW w \in Workers, pc[w] # "idle",
           NEW ack, Return(w, ack),
           \/ claims' = claims
           \/ CompleteClaim(IdAt(w), w)
           \/ ReleaseClaim(IdAt(w), w)
    PROVE  WorkersOK'
  <1>1. /\ OthersRest(w)
        /\ pc'[w] = "idle"
        /\ call'[w].errs = {}
    BY ReturnRests DEF TypeOK
  <1>2. ASSUME NEW v \in Workers, pc[v] \in Working
        PROVE  IdAt(v) \in EventIds
    BY <1>2, MessagesAssumption DEF TypeOK, CallsTypeOK, IdAt, Working
  <1>3. IdAt(w) \in EventIds
    BY MessagesAssumption DEF TypeOK, CallsTypeOK, IdAt
  <1>4. ASSUME NEW v \in Workers \ {w}
        PROVE  LeaseHeld(v)' /\ OwnType(v)' /\ BlamesPoison(v)'
    <2>1. \/ claims' = claims
          \/ \A i \in EventIds : \/ claims'[i] = claims[i]
                                 \/ ~Owns(i, v) /\ ~Owns(i, v)'
      BY <1>3, NotMine DEF TypeOK
    <2>2. IdAt(v)' = IdAt(v)
      BY <1>1 DEF OthersRest, IdAt, MsgOf
    <2>3. \/ claims' = claims
          \/ pc[v] \notin Working
          \/ claims'[IdAt(v)] = claims[IdAt(v)]
          \/ ~Owns(IdAt(v), v) /\ ~Owns(IdAt(v), v)'
      BY <1>2, <2>1, <2>2 DEF Owns, Recorded
    <2>4. QED
      BY <1>1, <2>3, WorkerInv DEF WorkersOK, OthersRest
  <1>5. LeaseHeld(w)' /\ OwnType(w)' /\ BlamesPoison(w)'
    BY <1>1 DEF LeaseHeld, OwnType, BlamesPoison, Working
  <1>6. QED
    BY <1>4, <1>5 DEF WorkersOK

(* Whoever acquires a claim takes it only from a call that is late.        *)
LEMMA AcquireInv ==
    ASSUME TypeOK, WorkersOK, NEW w \in Workers, NEW id \in EventIds,
           NEW type \in EventTypes, pc[w] = "claim", AcquireClaim(id, type, w)
    PROVE  /\ claims'[id] = [type |-> type, token |-> w,
                             stale |-> FALSE, processed |-> FALSE]
           /\ \A v \in Workers \ {w} :
                  pc'[v] = pc[v] /\ call'[v] = call[v] =>
                      LeaseHeld(v)' /\ OwnType(v)' /\ BlamesPoison(v)'
  <1> DEFINE row == [type |-> type, token |-> w,
                     stale |-> FALSE, processed |-> FALSE]
  <1>1. claims' = [claims EXCEPT ![id] = row]
    BY DEF AcquireClaim
  <1>2. claims'[id] = row
    BY <1>1 DEF TypeOK, ClaimsTypeOK
  <1>3. ASSUME NEW v \in Workers \ {w}, pc'[v] = pc[v], call'[v] = call[v]
        PROVE  LeaseHeld(v)' /\ OwnType(v)' /\ BlamesPoison(v)'
    <2>1. LeaseHeld(v) /\ OwnType(v) /\ BlamesPoison(v)
      BY DEF WorkersOK
    <2>2. CASE pc[v] \notin Working
      BY <1>3, <2>1, <2>2, WorkerInv
    <2>3. CASE pc[v] \in Working /\ IdAt(v) # id
      <3>1. claims'[IdAt(v)] = claims[IdAt(v)]
        BY <1>1, <2>3, MessagesAssumption
           DEF TypeOK, ClaimsTypeOK, CallsTypeOK, IdAt, Working
      <3>2. QED
        BY <1>3, <2>1, <3>1, WorkerInv
    <2>4. CASE pc[v] \in Working /\ IdAt(v) = id
      <3>1. call[v].late
        BY <2>1, <2>4 DEF LeaseHeld, AcquireClaim, Acquirable, Owns, Recorded
      <3>2. IdAt(v)' = id /\ ~Owns(id, v)'
        BY <1>2, <1>3, <2>4 DEF IdAt, MsgOf, Owns
      <3>3. QED
        BY <1>3, <2>1, <3>1, <3>2 DEF LeaseHeld, OwnType, BlamesPoison, MsgOf
    <2>5. QED
      BY <2>2, <2>3, <2>4
  <1>4. QED
    BY <1>2, <1>3

LEMMA ClaimStepInv ==
    ASSUME TypeOK, WorkersOK, NEW w \in Workers, Claim(w)
    PROVE  WorkersOK'
  <1>0. /\ CallsTypeOK
        /\ pc[w] = "claim"
        /\ IdAt(w) \in EventIds
        /\ TypeOf[MsgOf(w)] \in EventTypes
        /\ call[w] \in Calls
    BY MessagesAssumption DEF TypeOK, CallsTypeOK, Claim, IdAt
  <1>1. /\ OthersRest(w)
        /\ call'[w].msg = MsgOf(w)
        /\ call'[w].errs = {}
    BY <1>0 DEF Claim, CallsTypeOK, Calls, OthersRest, GoTo, MsgOf, WorkersOK,
                BlamesPoison, Working
  <1>2. CASE AcquireClaim(IdAt(w), TypeOf[MsgOf(w)], w)
    <2>1. ASSUME NEW v \in Workers \ {w}
          PROVE  LeaseHeld(v)' /\ OwnType(v)' /\ BlamesPoison(v)'
      BY <1>0, <1>1, <1>2, AcquireInv DEF OthersRest
    <2>2. LeaseHeld(w)' /\ OwnType(w)'
      <3>1. /\ claims'[IdAt(w)] = [type |-> TypeOf[MsgOf(w)], token |-> w,
                                   stale |-> FALSE, processed |-> FALSE]
            /\ IdAt(w)' = IdAt(w)
            /\ MsgOf(w)' = MsgOf(w)
        BY <1>0, <1>1, <1>2, AcquireInv DEF IdAt, MsgOf
      <3>2. claims'[IdAt(w)] # NoRow
        <4>1. claims'[IdAt(w)] \in ClaimRow
          BY <1>0, <3>1 DEF ClaimRow
        <4>2. QED
          BY <4>1, NoRowAssumption
      <3>3. QED
        BY <3>1, <3>2 DEF LeaseHeld, OwnType, Owns, Recorded
    <2>3. BlamesPoison(w)'
      BY <1>1 DEF BlamesPoison
    <2>4. QED
      BY <2>1, <2>2, <2>3 DEF WorkersOK
  <1>3. CASE claims' = claims /\ GoTo(w, "state")
    <2>1. pc'[w] = "state"
      BY <1>0, <1>3 DEF GoTo, CallsTypeOK
    <2>2. ASSUME NEW v \in Workers \ {w}
          PROVE  LeaseHeld(v)' /\ OwnType(v)' /\ BlamesPoison(v)'
      BY <1>1, <1>3, WorkerInv DEF WorkersOK, OthersRest
    <2>3. LeaseHeld(w)' /\ OwnType(w)' /\ BlamesPoison(w)'
      BY <1>1, <2>1 DEF LeaseHeld, OwnType, BlamesPoison, Working
    <2>4. QED
      BY <2>2, <2>3 DEF WorkersOK
  <1>4. QED
    BY <1>2, <1>3 DEF Claim

(* The call fails although its INSERT went through: the claim stays, with  *)
(* nobody working under it.                                                *)
LEMMA ClaimFailsInv ==
    ASSUME TypeOK, WorkersOK, NEW w \in Workers, ClaimFails(w)
    PROVE  WorkersOK'
  <1>0. /\ pc[w] = "claim"
        /\ IdAt(w) \in EventIds
        /\ TypeOf[MsgOf(w)] \in EventTypes
    BY MessagesAssumption DEF TypeOK, CallsTypeOK, ClaimFails, IdAt
  <1>1. /\ OthersRest(w)
        /\ pc'[w] = "idle"
        /\ call'[w].errs = {}
    BY ReturnRests DEF ClaimFails, TypeOK
  <1>2. ASSUME NEW v \in Workers \ {w}
        PROVE  LeaseHeld(v)' /\ OwnType(v)' /\ BlamesPoison(v)'
    BY <1>0, <1>1, AcquireInv DEF OthersRest, ClaimFails
  <1>3. LeaseHeld(w)' /\ OwnType(w)' /\ BlamesPoison(w)'
    BY <1>1 DEF LeaseHeld, OwnType, BlamesPoison, Working
  <1>4. QED
    BY <1>2, <1>3 DEF WorkersOK

LEMMA OverrunInv ==
    ASSUME TypeOK, WorkersOK, NEW w \in Workers, Overrun(w)
    PROVE  WorkersOK'
  <1>0. /\ CallsTypeOK
        /\ call[w] \in Calls
        /\ IdAt(w) \in EventIds
        /\ pc[w] \in Working
        /\ Owns(IdAt(w), w)
        /\ LeaseLapses(IdAt(w))
        /\ pc' = pc
    BY MessagesAssumption DEF TypeOK, CallsTypeOK, Overrun, IdAt, Working
  <1>1. /\ OthersRest(w)
        /\ call'[w].msg = MsgOf(w)
        /\ call'[w].errs = call[w].errs
        /\ call'[w].late = TRUE
    BY <1>0 DEF Overrun, CallsTypeOK, Calls, OthersRest, MsgOf
  <1>2. ASSUME NEW v \in Workers \ {w}
        PROVE  LeaseHeld(v)' /\ OwnType(v)' /\ BlamesPoison(v)'
    <2>1. ~Owns(IdAt(w), v)
      BY <1>0 DEF Owns
    <2>2. \A i \in EventIds : \/ claims'[i] = claims[i]
                              \/ ~Owns(i, v) /\ ~Owns(i, v)'
      BY <1>0, <2>1, NotMine DEF TypeOK
    <2>3. pc[v] \in Working => IdAt(v) \in EventIds
      BY MessagesAssumption DEF TypeOK, CallsTypeOK, IdAt, Working
    <2>4. IdAt(v)' = IdAt(v)
      BY <1>1 DEF OthersRest, IdAt, MsgOf
    <2>5. \/ pc[v] \notin Working
          \/ claims'[IdAt(v)] = claims[IdAt(v)]
          \/ ~Owns(IdAt(v), v) /\ ~Owns(IdAt(v), v)'
      BY <2>2, <2>3, <2>4 DEF Owns, Recorded
    <2>6. QED
      BY <1>1, <2>5, WorkerInv DEF WorkersOK, OthersRest
  <1>3. /\ IdAt(w)' = IdAt(w)
        /\ MsgOf(w)' = MsgOf(w)
        /\ claims'[IdAt(w)].type = claims[IdAt(w)].type
    BY <1>0, <1>1 DEF IdAt, MsgOf, LeaseLapses, Recorded, TypeOK, ClaimsTypeOK,
                      ClaimRow
  <1>4. LeaseHeld(w)' /\ OwnType(w)' /\ BlamesPoison(w)'
    BY <1>0, <1>1, <1>3 DEF WorkersOK, LeaseHeld, OwnType, BlamesPoison
  <1>5. QED
    BY <1>2, <1>4 DEF WorkersOK

LEMMA EnvironmentInv ==
    ASSUME TypeOK, WorkersOK, Environment
    PROVE  WorkersOK'
  <1>1. pc' = pc /\ call' = call
    BY DEF Environment, LeaseExpires, TokenMoves, TokenDies, SubscriptionChanges,
           UserLeaves
  <1>2. CASE claims' = claims
    BY <1>1, <1>2, WorkerInv DEF WorkersOK
  <1>3. ASSUME NEW id \in EventIds, LeaseExpires(id)
        PROVE  WorkersOK'
    <2> SUFFICES ASSUME NEW v \in Workers
                 PROVE  LeaseHeld(v)' /\ OwnType(v)' /\ BlamesPoison(v)'
      BY DEF WorkersOK
    <2>1. pc[v] \in Working => IdAt(v) \in EventIds
      BY MessagesAssumption DEF TypeOK, CallsTypeOK, IdAt, Working
    <2>2. IdAt(v)' = IdAt(v)
      BY <1>1 DEF IdAt, MsgOf
    <2>3. \/ pc[v] \notin Working
          \/ claims'[IdAt(v)] = claims[IdAt(v)]
          \/ ~Owns(IdAt(v), v) /\ ~Owns(IdAt(v), v)'
      <3>1. CASE pc[v] \in Working /\ IdAt(v) = id
        <4>1. ~Owns(id, v)
          BY <1>3, <3>1 DEF LeaseExpires, Held
        <4>2. claims'[id] = claims[id] \/ ~Owns(id, v)'
          BY <1>3, <4>1, NotMine DEF LeaseExpires, TypeOK
        <4>3. QED
          BY <2>2, <3>1, <4>1, <4>2 DEF Owns, Recorded
      <3>2. CASE pc[v] \in Working /\ IdAt(v) # id
        BY <1>3, <2>1, <3>2 DEF LeaseExpires, LeaseLapses, TypeOK, ClaimsTypeOK
      <3>3. QED
        BY <3>1, <3>2
    <2>4. QED
      BY <1>1, <2>3, WorkerInv DEF WorkersOK
  <1>4. QED
    BY <1>2, <1>3 DEF Environment, TokenMoves, TokenDies, SubscriptionChanges,
           UserLeaves

LEMMA ReceiveInv ==
    ASSUME TypeOK, WorkersOK, NEW w \in Workers, NEW m \in Messages, Receive(w, m)
    PROVE  WorkersOK'
  <1>1. /\ OthersRest(w)
        /\ claims' = claims
        /\ pc'[w] = "claim"
        /\ call'[w].errs = {}
    BY DEF TypeOK, CallsTypeOK, Calls, Receive, GoTo, OthersRest, WorkersOK,
           BlamesPoison, Working
  <1>2. ASSUME NEW v \in Workers \ {w}
        PROVE  LeaseHeld(v)' /\ OwnType(v)' /\ BlamesPoison(v)'
    BY <1>1, WorkerInv DEF WorkersOK, OthersRest
  <1>3. LeaseHeld(w)' /\ OwnType(w)' /\ BlamesPoison(w)'
    BY <1>1 DEF LeaseHeld, OwnType, BlamesPoison, Working
  <1>4. QED
    BY <1>2, <1>3 DEF WorkersOK

LEMMA WorkersNext ==
    ASSUME TypeOK, WorkersOK, [Next]_vars
    PROVE  WorkersOK'
  <1>1. ASSUME NEW w \in Workers, Step(w) \/ Failure(w)
        PROVE  WorkersOK'
    <2>1. CASE \/ ReadClaimState(w) \/ Complete(w) \/ Release(w)
               \/ Crash(w) \/ CompleteFails(w) \/ ReleaseFails(w)
      BY <2>1, ReturnInv DEF ReadClaimState, Complete, Release, Crash,
                             CompleteFails, ReleaseFails
    <2>2. CASE Internal(w)
      BY <2>2, InternalInv
    <2>3. CASE Claim(w) \/ ClaimFails(w) \/ Overrun(w)
      BY <2>3, ClaimStepInv, ClaimFailsInv, OverrunInv
    <2>4. QED
      BY <1>1, <2>1, <2>2, <2>3 DEF Step, Failure, Internal
  <1>2. CASE UNCHANGED vars
    BY <1>2, WorkerInv DEF vars, WorkersOK
  <1>3. QED
    BY <1>1, <1>2, ReceiveInv, EnvironmentInv DEF Next

-----------------------------------------------------------------------------
(* Only these statements change the table.                                 *)
LEMMA ClaimsChange ==
    ASSUME TypeOK, [Next]_vars
    PROVE  \/ claims' = claims
           \/ \E id \in EventIds, type \in EventTypes, w \in Workers :
                 \/ AcquireClaim(id, type, w)
                 \/ CompleteClaim(id, w)
                 \/ ReleaseClaim(id, w)
                 \/ LeaseLapses(id)
  <1>1. ASSUME NEW w \in Workers, Step(w) \/ Failure(w)
        PROVE  \/ claims' = claims
               \/ \E id \in EventIds, type \in EventTypes :
                     \/ AcquireClaim(id, type, w)
                     \/ CompleteClaim(id, w)
                     \/ ReleaseClaim(id, w)
                     \/ LeaseLapses(id)
    <2>1. CASE \/ Claim(w) \/ Complete(w) \/ Release(w)
               \/ ClaimFails(w) \/ CompleteFails(w) \/ Overrun(w)
      <3>1. IdAt(w) \in EventIds /\ TypeOf[MsgOf(w)] \in EventTypes
        BY <2>1, MessagesAssumption
           DEF TypeOK, CallsTypeOK, IdAt, Claim, Complete, Release, ClaimFails,
               CompleteFails, Overrun, Working
      <3>2. QED
        BY <2>1, <3>1 DEF Claim, Complete, Release, ClaimFails, CompleteFails,
                          Overrun
    <2>2. CASE Internal(w)
      BY <2>2, InternalKeeps
    <2>3. CASE ReadClaimState(w) \/ Crash(w) \/ ReleaseFails(w)
      BY <2>3 DEF ReadClaimState, Crash, ReleaseFails
    <2>4. QED
      BY <1>1, <2>1, <2>2, <2>3 DEF Step, Failure, Internal
  <1>2. ASSUME NEW id \in EventIds, LeaseExpires(id), claims' # claims
        PROVE  \E type \in EventTypes, w \in Workers : LeaseLapses(id)
    <2>1. claims[id] \in ClaimRow
      BY <1>2 DEF LeaseExpires, LeaseLapses, Recorded, TypeOK, ClaimsTypeOK
    <2>2. claims[id].type \in EventTypes /\ claims[id].token \in Workers
      BY <2>1 DEF ClaimRow
    <2>3. QED
      BY <1>2, <2>2 DEF LeaseExpires
  <1>3. CASE UNCHANGED vars \/ \E w \in Workers, m \in Messages : Receive(w, m)
    BY <1>3 DEF vars, Receive
  <1>4. CASE Environment
    BY <1>2, <1>4 DEF Environment, TokenMoves, TokenDies, SubscriptionChanges,
           UserLeaves
  <1>5. QED
    BY <1>1, <1>3, <1>4 DEF Next

LEMMA ProcessedNext ==
    ASSUME TypeOK, [Next]_vars, NEW m \in Messages, Processed(m)
    PROVE  Processed(m)'
  <1>1. CASE claims' = claims
    BY <1>1 DEF Processed, Recorded
  <1>2. QED
    BY <1>1, ClaimsChange, ProcessedStays DEF TypeOK

(* A message is acknowledged when its event is processed, or was just now, *)
(* or when it is poison.                                                   *)
LEMMA AckNext ==
    ASSUME TypeOK, WorkersOK, [Next]_vars, NEW m \in acked' \ acked
    PROVE  Processed(m)' \/ m \in Poison
  <1>1. PICK w \in Workers :
            \/ ReadClaimState(w) \/ Complete(w) \/ Release(w) \/ Crash(w)
            \/ ClaimFails(w) \/ CompleteFails(w) \/ ReleaseFails(w)
    <2>1. ASSUME NEW w \in Workers, Internal(w)
          PROVE  FALSE
      BY <2>1, InternalKeeps
    <2>2. ~UNCHANGED vars /\ ~Environment
      BY DEF vars, Environment, LeaseExpires, TokenMoves, TokenDies,
             SubscriptionChanges, UserLeaves
    <2>3. \A w \in Workers : ~Claim(w) /\ ~Overrun(w)
      BY DEF Claim, Overrun
    <2>4. \A w \in Workers, n \in Messages : ~Receive(w, n)
      BY DEF Receive
    <2>5. QED
      BY <2>1, <2>2, <2>3, <2>4 DEF Next, Step, Failure, Internal
  <1>2. CASE ReadClaimState(w)
    <2>1. m = MsgOf(w) /\ Processed(m)
      BY <1>2 DEF ReadClaimState, Return, AlreadyProcessed, Processed,
                      IdAt
    <2>2. m \in Messages
      BY <1>2, <2>1 DEF TypeOK, CallsTypeOK, ReadClaimState
    <2>3. QED
      BY <2>1, <2>2, ProcessedNext
  <1>3. CASE Complete(w)
    <2>1. m = MsgOf(w) /\ CompleteClaim(IdAt(w), w)
      BY <1>3 DEF Complete, Return
    <2>2. claims[IdAt(w)].type = TypeOf[m]
      BY <1>3, <2>1 DEF WorkersOK, OwnType, Complete, CompleteClaim, Working
    <2>3. IdAt(w) = IdOf[m] /\ IdOf[m] \in EventIds
      BY <1>3, <2>1, MessagesAssumption DEF Complete, TypeOK, CallsTypeOK, IdAt
    <2> DEFINE row == [claims[IdOf[m]] EXCEPT !.processed = TRUE]
    <2>4. row \in ClaimRow /\ row.processed /\ row.type = TypeOf[m]
      BY <2>1, <2>2, <2>3 DEF CompleteClaim, Owns, Recorded, TypeOK,
                              ClaimsTypeOK, ClaimRow
    <2>5. claims'[IdOf[m]] = row
      BY <2>1, <2>3 DEF CompleteClaim, TypeOK, ClaimsTypeOK
    <2>6. claims'[IdOf[m]] # NoRow
      BY <2>4, <2>5, NoRowAssumption
    <2>7. QED
      BY <2>4, <2>5, <2>6 DEF Processed, Recorded
  <1>4. CASE Release(w) \/ ReleaseFails(w)
    BY <1>4 DEF Release, ReleaseFails, Return, WorkersOK, BlamesPoison
  <1>5. CASE Crash(w) \/ ClaimFails(w) \/ CompleteFails(w)
    BY <1>5 DEF Crash, ClaimFails, CompleteFails, Return
  <1>6. QED
    BY <1>1, <1>2, <1>3, <1>4, <1>5

LEMMA ClaimInvInit == Init => ClaimInv
  <1> SUFFICES ASSUME Init PROVE ClaimInv
    OBVIOUS
  <1>1. TypeOK
    BY TypeInit
  <1>2. WorkersOK
    BY DEF Init, WorkersOK, LeaseHeld, OwnType, BlamesPoison, NoCall, Working
  <1>3. NoEventLost
    BY DEF Init, NoEventLost
  <1>4. QED
    BY <1>1, <1>2, <1>3 DEF ClaimInv

LEMMA ClaimInvNext == ClaimInv /\ [Next]_vars => ClaimInv'
  <1> SUFFICES ASSUME ClaimInv, [Next]_vars PROVE ClaimInv'
    OBVIOUS
  <1>1. TypeOK /\ WorkersOK /\ NoEventLost /\ TypeOK'
    BY NextType DEF ClaimInv
  <1>2. ASSUME NEW m \in acked'
        PROVE  Processed(m)' \/ m \in Poison
    <2>1. CASE m \in acked
      BY <1>1, <2>1, ProcessedNext DEF NoEventLost, TypeOK
    <2>2. CASE m \notin acked
      BY <1>1, <2>2, AckNext
    <2>3. QED
      BY <2>1, <2>2
  <1>3. QED
    BY <1>1, <1>2, WorkersNext DEF ClaimInv, NoEventLost

LEMMA ClaimInvariant == Spec => []ClaimInv
  BY ClaimInvInit, ClaimInvNext, PTL DEF Spec

(* Two calls work on one event at once only when a lease ran out: for any  *)
(* number of deliveries, workers and faults.                               *)
THEOREM ClaimsExclude == Spec => []ClaimExclusive
  <1>1. ClaimInv => ClaimExclusive
    BY DEF ClaimInv, WorkersOK, LeaseHeld, ClaimExclusive, Owns
  <1>2. QED
    BY <1>1, ClaimInvariant, PTL

(* No message is acknowledged unless its event is recorded as processed,   *)
(* or its payload is malformed.                                            *)
THEOREM NothingLost == Spec => []NoEventLost
  <1>1. ClaimInv => NoEventLost
    BY DEF ClaimInv
  <1>2. QED
    BY <1>1, ClaimInvariant, PTL
=============================================================================
