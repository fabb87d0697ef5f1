--------------------- MODULE NotificationServiceDelivery ---------------------
(***************************************************************************)
(* What becomes of the tables: records are final, tokens are deleted only  *)
(* when they are retired, and an event recorded as processed has notified  *)
(* everyone it is owed to.                                                 *)
(***************************************************************************)
EXTENDS NotificationServiceClaims

HasRow(m, u) == notifications[RowKey(m, u)] # "absent"

RowsGrow ==
    \A k \in Keys \ Erased' :
        /\ notifications[k] = "pushed" => notifications'[k] = "pushed"
        /\ notifications[k] # "absent" => notifications'[k] # "absent"

LEMMA StatementsGrow ==
    ASSUME StoreTypeOK, NEW k \in Keys,
           CreateRow(k) \/ MarkRowPushed(k) \/ UNCHANGED notifications
    PROVE  RowsGrow
  BY DEF StoreTypeOK, CreateRow, MarkRowPushed, RowsGrow

LEMMA RowsNext ==
    ASSUME TypeOK, [Next]_vars
    PROVE  RowsGrow
  <1>1. CASE notifications' = notifications
    BY <1>1 DEF RowsGrow
  <1>2. ASSUME NEW w \in Workers, NEW u \in Users,
               Create(w, u) \/ CreateFails(w, u)
        PROVE  RowsGrow
    <2>1. RowKey(MsgOf(w), u) \in Keys
      BY <1>2, MessagesAssumption
         DEF Create, CreateFails, TypeOK, CallsTypeOK
    <2>2. QED
      BY <1>2, <2>1, StatementsGrow DEF Create, CreateFails, TypeOK
  <1>3. ASSUME NEW w \in Workers, MarkPushed(w) \/ MarkFails(w)
        PROVE  RowsGrow
    <2>1. KeyAt(w) \in Keys
      BY <1>3, MessagesAssumption
         DEF MarkPushed, MarkFails, TypeOK, CallsTypeOK, KeyAt
    <2>2. QED
      BY <1>3, <2>1, StatementsGrow DEF MarkPushed, MarkFails, TypeOK
  <1>4. ASSUME NEW w \in Workers, Step(w) \/ Failure(w)
        PROVE  RowsGrow
    <2>1. CASE \/ Claim(w) \/ ReadClaimState(w) \/ Resolve(w)
               \/ \E u \in Users : RefusePayload(w, u) \/ CreateOrphan(w, u)
               \/ ListTokens(w)
               \/ \E t \in Tokens : SendOne(w, t) \/ SendFails(w, t)
               \/ DeleteGone(w) \/ Complete(w) \/ Release(w)
      BY <1>1, <2>1
         DEF Claim, ReadClaimState, Resolve, RefusePayload, CreateOrphan,
             ListTokens, SendOne, SendFails, DeleteGone, Complete, Release, store
    <2>2. CASE \/ Crash(w) \/ ClaimFails(w) \/ ResolveFails(w) \/ ListFails(w)
               \/ DeleteFails(w) \/ CompleteFails(w) \/ ReleaseFails(w)
               \/ Overrun(w)
      BY <1>1, <2>2
         DEF Crash, ClaimFails, ResolveFails, ListFails, DeleteFails,
             CompleteFails, ReleaseFails, Overrun, store
    <2>3. QED
      BY <1>2, <1>3, <1>4, <2>1, <2>2 DEF Step, Failure
  <1>5. CASE Environment \/ UNCHANGED vars
             \/ \E w \in Workers, m \in Messages : Receive(w, m)
    <2>1. ASSUME NEW u \in Users, UserLeaves(u)
          PROVE  RowsGrow
      <3>1. Inbox(u) \subseteq Erased'
        BY <2>1 DEF UserLeaves, CoreDeletes, Erased
      <3>2. QED
        BY <2>1, <3>1 DEF UserLeaves, CoreDeletes, RowsGrow
    <2>2. QED
      BY <1>1, <1>5, <2>1
         DEF Environment, LeaseExpires, TokenMoves, TokenDies,
             SubscriptionChanges, Receive, store, vars
  <1>6. QED
    BY <1>4, <1>5 DEF Next

(* The claim of a processed event stays, and stays of its type.            *)
LEMMA ProcessedClaimStays ==
    ASSUME TypeOK, [Next]_vars, NEW id \in EventIds,
           Recorded(id), claims[id].processed
    PROVE  /\ claims'[id] # NoRow
           /\ claims'[id].processed
           /\ claims'[id].type = claims[id].type
  <1>0. claims \in [EventIds -> ClaimRow \cup {NoRow}]
    BY DEF TypeOK, ClaimsTypeOK
  <1>1. CASE claims' = claims
    BY <1>1 DEF Recorded
  <1>2. ASSUME NEW i \in EventIds, NEW type \in EventTypes, NEW w \in Workers,
               \/ AcquireClaim(i, type, w)
               \/ CompleteClaim(i, w)
               \/ ReleaseClaim(i, w)
        PROVE  claims'[id] = claims[id]
    BY <1>0, <1>2 DEF AcquireClaim, Acquirable, CompleteClaim, ReleaseClaim,
                      Owns, Recorded
  <1>3. ASSUME NEW i \in EventIds, LeaseLapses(i), i = id
        PROVE  /\ claims'[id] # NoRow
               /\ claims'[id].processed
               /\ claims'[id].type = claims[id].type
    <2> DEFINE row == [claims[id] EXCEPT !.stale = TRUE]
    <2>1. /\ row \in ClaimRow
          /\ row.processed = claims[id].processed
          /\ row.type = claims[id].type
      BY <1>0 DEF Recorded, ClaimRow
    <2>2. claims'[id] = row
      BY <1>0, <1>3 DEF LeaseLapses
    <2>3. QED
      BY <2>1, <2>2, NoRowAssumption
  <1>4. ASSUME NEW i \in EventIds, LeaseLapses(i), i # id
        PROVE  claims'[id] = claims[id]
    BY <1>0, <1>4 DEF LeaseLapses
  <1>5. QED
    BY <1>1, <1>2, <1>3, <1>4, ClaimsChange DEF Recorded

(* Nothing recorded is taken back: processed events, and rows of the       *)
(* inbox, whatever late calls, retries and lapsed leases do.               *)
THEOREM RecordsAreFinal == Spec => ProcessedIsFinal
  <1>1. TypeOK /\ [Next]_vars =>
          [/\ \A id \in EventIds :
                 Recorded(id) /\ claims[id].processed =>
                     /\ claims'[id] # NoRow
                     /\ claims'[id].processed
                     /\ claims'[id].type = claims[id].type
           /\ \A k \in Keys \ Erased' :
                 /\ notifications[k] = "pushed" => notifications'[k] = "pushed"
                 /\ notifications[k] # "absent" => notifications'[k] # "absent"]_vars
    BY ProcessedClaimStays, RowsNext DEF RowsGrow
  <1>2. QED
    BY <1>1, TypeCorrect, PTL DEF Spec, ProcessedIsFinal

-----------------------------------------------------------------------------
(* A token a call holds for unregistered is one that Firebase retired.     *)
GoneDead == \A w \in Workers : call[w].gone \subseteq dead

LEMMA GoneDeadNext ==
    ASSUME TypeOK, GoneDead, [Next]_vars
    PROVE  GoneDead'
  <1> SUFFICES ASSUME NEW v \in Workers
               PROVE  call'[v].gone \subseteq dead'
    BY DEF GoneDead
  <1>0. /\ call \in [Workers -> Calls]
        /\ call[v].gone \subseteq dead
    BY DEF TypeOK, CallsTypeOK, GoneDead
  <1>1. dead \subseteq dead'
    BY DEF Next, Environment, LeaseExpires, TokenMoves, TokenDies, UserLeaves,
           FirebaseRetires, SubscriptionChanges, Receive, Step, Claim,
           ReadClaimState, Resolve, RefusePayload, Create, CreateOrphan,
           ListTokens, SendOne, DeleteGone, MarkPushed, Complete, Release,
           Failure, Crash, ClaimFails, ResolveFails, CreateFails, ListFails,
           SendFails, DeleteFails, MarkFails, CompleteFails, ReleaseFails,
           Overrun, store, vars
  <1>2. ASSUME call'[v].gone \in {call[v].gone, {}}
        PROVE  call'[v].gone \subseteq dead'
    BY <1>0, <1>1, <1>2
  <1>3. ASSUME NEW w \in Workers, NEW ack, Return(w, ack)
        PROVE  call'[v].gone \in {call[v].gone, {}}
    BY <1>0, <1>3 DEF Return, NoCall
  <1>4. ASSUME NEW w \in Workers, NEW u, NEW errors, FinishRecipient(w, u, errors)
        PROVE  call'[v].gone \in {call[v].gone, {}}
    <2> DEFINE next == [NoCall EXCEPT !.msg = MsgOf(w),
                                      !.todo = call[w].todo \ {u},
                                      !.errs = call[w].errs \cup errors,
                                      !.late = call[w].late]
    <2>1. call' = [call EXCEPT ![w] = next]
      BY <1>4 DEF FinishRecipient
    <2>2. next.gone = {}
      BY DEF NoCall
    <2>3. QED
      BY <1>0, <2>1, <2>2
  <1>5. ASSUME NEW w \in Workers, Step(w)
        PROVE  call'[v].gone \subseteq dead'
    <2>1. CASE Claim(w) \/ Resolve(w)
      BY <1>0, <1>2, <2>1 DEF Claim, Resolve, Calls
    <2>2. CASE ReadClaimState(w) \/ Complete(w) \/ Release(w)
      BY <1>2, <1>3, <2>2 DEF ReadClaimState, Complete, Release
    <2>3. ASSUME NEW u \in Users,
                 RefusePayload(w, u) \/ Create(w, u) \/ CreateOrphan(w, u)
          PROVE  call'[v].gone \subseteq dead'
      <3>1. CASE call' = [call EXCEPT ![w].rcpt = u]
        BY <1>0, <1>2, <3>1 DEF Calls
      <3>2. QED
        BY <1>2, <1>4, <2>3, <3>1 DEF RefusePayload, Create, CreateOrphan
    <2>4. CASE ListTokens(w) \/ DeleteGone(w) \/ MarkPushed(w)
      <3>1. CASE \/ call' = [call EXCEPT ![w].devices = TokensOf(call[w].rcpt)]
                 \/ call' = call
        BY <1>0, <1>2, <3>1 DEF Calls
      <3>2. QED
        BY <1>2, <1>4, <2>4, <3>1 DEF ListTokens, DeleteGone, MarkPushed
    <2>5. ASSUME NEW t \in Tokens, SendOne(w, t)
          PROVE  call'[v].gone \subseteq dead'
      <3>1. CASE t \in dead
        <4>1. call'[v].gone \subseteq call[v].gone \cup {t}
          BY <1>0, <2>5, <3>1 DEF SendOne, Calls
        <4>2. QED
          BY <1>0, <1>1, <3>1, <4>1
      <3>2. CASE t \notin dead
        BY <1>0, <1>2, <2>5, <3>2 DEF SendOne, Calls
      <3>3. QED
        BY <3>1, <3>2
    <2>6. QED
      BY <1>5, <2>1, <2>2, <2>3, <2>4, <2>5 DEF Step
  <1>6. ASSUME NEW w \in Workers, Failure(w)
        PROVE  call'[v].gone \subseteq dead'
    <2>1. CASE Crash(w) \/ ClaimFails(w) \/ CompleteFails(w) \/ ReleaseFails(w)
      BY <1>2, <1>3, <2>1 DEF Crash, ClaimFails, CompleteFails, ReleaseFails
    <2>2. CASE \/ \E u \in Users : CreateFails(w, u)
               \/ ListFails(w) \/ DeleteFails(w) \/ MarkFails(w)
      BY <1>2, <1>4, <2>2 DEF CreateFails, ListFails, DeleteFails, MarkFails
    <2>3. CASE ResolveFails(w) \/ Overrun(w)
      BY <1>0, <1>2, <2>3 DEF ResolveFails, Overrun, Calls
    <2>4. CASE \E t \in Tokens : SendFails(w, t)
      BY <1>0, <1>2, <2>4 DEF SendFails, Calls
    <2>5. QED
      BY <1>6, <2>1, <2>2, <2>3, <2>4 DEF Failure
  <1>7. CASE Environment \/ UNCHANGED vars
    BY <1>2, <1>7 DEF Environment, LeaseExpires, TokenMoves, TokenDies,
                      SubscriptionChanges, UserLeaves, vars
  <1>8. CASE \E w \in Workers, m \in Messages : Receive(w, m)
    BY <1>0, <1>2, <1>8 DEF Receive, Calls
  <1>9. QED
    BY <1>5, <1>6, <1>7, <1>8 DEF Next

(* Registrations leave fcm_tokens with their account, or by the statement  *)
(* of a call that heard UNREGISTERED from Firebase.                        *)
LEMMA TokensNext ==
    ASSUME TypeOK, GoneDead, [Next]_vars,
           NEW t \in Tokens, owner[t] # NoUser, owner'[t] = NoUser,
           owner[t] \notin deleted'
    PROVE  /\ t \in dead
           /\ \E w \in Workers : t \in call[w].gone /\ call[w].rcpt = owner[t]
  <1>1. PICK w \in Workers : DeleteTokens(call[w].rcpt, call[w].gone)
    <2>1. owner' # owner
      OBVIOUS
    <2>2. ASSUME NEW s \in Tokens, NEW u \in Users, TokenMoves(s, u)
          PROVE  FALSE
      BY <2>2, NoUserAssumption DEF TokenMoves, CoreAssigns, TypeOK, StoreTypeOK
    <2>3. ASSUME NEW u \in Users, UserLeaves(u)
          PROVE  FALSE
      BY <2>3 DEF UserLeaves, CoreDeletes, TypeOK, StoreTypeOK
    <2>4. QED
      BY <2>1, <2>2, <2>3
         DEF Next, Environment, LeaseExpires, TokenDies,
             SubscriptionChanges, Receive, Step, Claim, ReadClaimState, Resolve,
             RefusePayload, Create, CreateOrphan, ListTokens, SendOne,
             DeleteGone, MarkPushed, Complete, Release, Failure, Crash, ClaimFails, ResolveFails,
             CreateFails, ListFails, SendFails, DeleteFails, MarkFails,
             CompleteFails, ReleaseFails, Overrun, store, vars
  <1>2. t \in call[w].gone /\ call[w].rcpt = owner[t]
    BY <1>1 DEF DeleteTokens
  <1>3. QED
    BY <1>2 DEF GoneDead

LEMMA GoneInvariant == Spec => [](TypeOK /\ GoneDead)
  <1>1. Init => GoneDead
    BY DEF Init, GoneDead, NoCall
  <1>2. TypeOK /\ GoneDead /\ [Next]_vars => GoneDead'
    BY GoneDeadNext
  <1>3. QED
    BY <1>1, <1>2, TypeCorrect, PTL DEF Spec

(* A registration is deleted only when Firebase retired the token, and     *)
(* only from the user who is being notified: a token that Core moved       *)
(* meanwhile stays with its new owner.                                     *)
THEOREM TokensDeletedWhenRetired == Spec => OnlyRetiredTokensDeleted
  <1>1. TypeOK /\ GoneDead /\ [Next]_vars =>
          [\A t \in Tokens :
              owner[t] # NoUser /\ owner'[t] = NoUser /\ owner[t] \notin deleted' =>
                  /\ t \in dead
                  /\ \E w \in Workers : /\ t \in call[w].gone
                                        /\ call[w].rcpt = owner[t]]_vars
    BY TokensNext
  <1>2. QED
    BY <1>1, GoneInvariant, PTL DEF Spec, OnlyRetiredTokensDeleted

-----------------------------------------------------------------------------
OnlyLeaversDeleted == deleted \subseteq Leaving

(* A device that stays with a user who stays is never taken from them.     *)
SteadyOwned ==
    \A u \in Users \ Leaving : \A t \in Steady(u) : owner[t] = u /\ t \notin dead

LEMMA SteadyNext ==
    ASSUME TypeOK, GoneDead, SteadyOwned, OnlyLeaversDeleted, [Next]_vars
    PROVE  SteadyOwned'
  <1> SUFFICES ASSUME NEW u \in Users \ Leaving, NEW t \in Steady(u)
               PROVE  owner'[t] = u /\ t \notin dead'
    BY DEF SteadyOwned, Steady
  <1>0. /\ owner[t] = u
        /\ t \in Tokens \ (dead \cup Movable \cup Mortal)
        /\ owner \in [Tokens -> Users \cup {NoUser}]
    BY DEF SteadyOwned, Steady, TypeOK, StoreTypeOK
  <1>1. ASSUME NEW w \in Workers, DeleteTokens(call[w].rcpt, call[w].gone)
        PROVE  owner'[t] = u
    BY <1>0, <1>1 DEF DeleteTokens, GoneDead
  <1>2. ASSUME NEW s \in Tokens, NEW v \in Users, TokenMoves(s, v)
        PROVE  owner'[t] = u
    BY <1>0, <1>2 DEF TokenMoves, CoreAssigns
  <1>3. ASSUME NEW v \in Users, UserLeaves(v)
        PROVE  owner'[t] = u
    BY <1>0, <1>3 DEF UserLeaves, CoreDeletes
  <1>4. owner'[t] = u
    BY <1>0, <1>1, <1>2, <1>3
       DEF Next, Environment, LeaseExpires, TokenDies, SubscriptionChanges,
           Receive, Step, Claim, ReadClaimState, Resolve, RefusePayload, Create,
           CreateOrphan, ListTokens, SendOne, DeleteGone, MarkPushed, Complete,
           Release, Failure, Crash, ClaimFails, ResolveFails, CreateFails,
           ListFails, SendFails, DeleteFails, MarkFails, CompleteFails,
           ReleaseFails, Overrun, store, vars
  <1>5. t \notin dead'
    BY <1>0
       DEF Next, Environment, LeaseExpires, TokenMoves, TokenDies,
           FirebaseRetires, SubscriptionChanges, UserLeaves, Receive, Step,
           Claim, ReadClaimState, Resolve, RefusePayload, Create, CreateOrphan,
           ListTokens, SendOne, DeleteGone, MarkPushed, Complete, Release,
           Failure, Crash, ClaimFails, ResolveFails, CreateFails, ListFails,
           SendFails, DeleteFails, MarkFails, CompleteFails, ReleaseFails,
           Overrun, store, vars
  <1>6. QED
    BY <1>4, <1>5

-----------------------------------------------------------------------------
(* A user has been served: has a row, marked if they have a lasting device. *)
Done(m, u) ==
    /\ HasRow(m, u)
    /\ Steady(u) # {} => notifications[RowKey(m, u)] = "pushed"

(* What a working call has done so far: as long as it has met no error,    *)
(* whoever its message is owed to and is no longer to do has been served;  *)
(* the recipient it is pushing to has a row, if the message is owed to     *)
(* them.                                                                   *)
Served(w) ==
    /\ pc[w] = "resolve" => FanOut(MsgOf(w)) /\ call[w].errs = {}
    /\ pc[w] \in Working \ {"resolve"} /\ call[w].errs = {} =>
           \A u \in Owed(MsgOf(w)) \ call[w].todo : Done(MsgOf(w), u)
    /\ pc[w] \in {"list", "send", "mark"} /\ call[w].rcpt \in Owed(MsgOf(w)) =>
           HasRow(MsgOf(w), call[w].rcpt)
    /\ pc[w] = "complete" => call[w].todo = {} /\ call[w].errs = {}

StaySubscribed == InitialSubscribers \ (Churning \cup Leaving) \subseteq subscribed

ServedInv ==
    /\ StaySubscribed
    /\ OnlyLeaversDeleted
    /\ SteadyOwned
    /\ \A w \in Workers : Served(w)

(* HasRow and Done after a step, of a message and user of before or after. *)
NewRow(m, u) == notifications'[RowKey(m, u)] # "absent"
NewDone(m, u) ==
    /\ NewRow(m, u)
    /\ Steady(u) # {} => notifications'[RowKey(m, u)] = "pushed"

RowsStay ==
    \A m \in Messages : \A u \in Owed(m) : /\ HasRow(m, u) => NewRow(m, u)
                                           /\ Done(m, u) => NewDone(m, u)

LEMMA OwedUsers ==
    ASSUME NEW m \in Messages
    PROVE  /\ Owed(m) \subseteq Users
           /\ Owed(m) \subseteq Recipients(m)
           /\ Owed(m) \cap Leaving = {}
           /\ \A u \in Users : RowKey(m, u) \in Keys
  BY MessagesAssumption, EnvironmentAssumption DEF Owed, Recipients

(* A row has one user.                                                     *)
LEMMA InboxesDiffer ==
    ASSUME NEW m \in Messages, NEW u \in Recipients(m), NEW v \in Users,
           RowKey(m, u) \in Inbox(v)
    PROVE  u = v
  <1>1. PICK n \in Messages : v \in Recipients(n) /\ RowKey(m, u) = RowKey(n, v)
    BY DEF Inbox
  <1>2. CASE TypeOf[m] = "new_message" /\ TypeOf[n] = "new_message"
    <2>1. IdOf[m] = IdOf[n]
      BY <1>1, <1>2 DEF RowKey
    <2>2. m = n
      BY <1>2, <2>1, ProducerAssumption
    <2>3. QED
      BY <1>1, <1>2, <2>2 DEF Recipients, FanOut
  <1>3. CASE TypeOf[m] # "new_message" /\ TypeOf[n] # "new_message"
    BY <1>1, <1>3 DEF RowKey
  <1>4. CASE TypeOf[m] = "new_message" /\ TypeOf[n] # "new_message"
    BY <1>1, <1>4 DEF RowKey
  <1>5. CASE TypeOf[m] # "new_message" /\ TypeOf[n] = "new_message"
    BY <1>1, <1>5 DEF RowKey
  <1>6. QED
    BY <1>2, <1>3, <1>4, <1>5

LEMMA RowsStayNext ==
    ASSUME TypeOK, OnlyLeaversDeleted, [Next]_vars
    PROVE  OnlyLeaversDeleted' /\ RowsStay
  <1>1. OnlyLeaversDeleted'
    BY DEF OnlyLeaversDeleted, Next, Environment, LeaseExpires, TokenMoves,
           TokenDies, UserLeaves, CoreDeletes, SubscriptionChanges, Receive,
           Step, Claim, ReadClaimState, Resolve, RefusePayload, Create,
           CreateOrphan, ListTokens, SendOne, DeleteGone, MarkPushed, Complete,
           Release, Failure, Crash, ClaimFails, ResolveFails, CreateFails,
           ListFails, SendFails, DeleteFails, MarkFails, CompleteFails,
           ReleaseFails, Overrun, store, vars
  <1>2. ASSUME NEW m \in Messages, NEW u \in Owed(m)
        PROVE  RowKey(m, u) \in Keys \ Erased'
    <2>1. RowKey(m, u) \in Keys /\ u \in Recipients(m) /\ u \notin Leaving
      BY OwedUsers
    <2>2. ASSUME NEW v \in deleted', RowKey(m, u) \in Inbox(v)
          PROVE  FALSE
      <3>1. v \in Leaving /\ v \in Users
        BY <1>1, EnvironmentAssumption DEF OnlyLeaversDeleted
      <3>2. QED
        BY <2>1, <2>2, <3>1, InboxesDiffer
    <2>3. QED
      BY <2>1, <2>2 DEF Erased
  <1>3. RowsStay
    BY <1>2, RowsNext DEF RowsGrow, RowsStay, HasRow, NewRow, Done, NewDone
  <1>4. QED
    BY <1>1, <1>3

(* A call that nobody touches.                                             *)
LEMMA ServedRests ==
    ASSUME TypeOK, RowsStay, NEW v \in Workers, Served(v),
           pc'[v] = pc[v], call'[v] = call[v]
    PROVE  Served(v)'
  <1>1. MsgOf(v)' = MsgOf(v)
    BY DEF MsgOf
  <1>2. CASE pc[v] \notin Working
    BY <1>2 DEF Served, Working
  <1>3. CASE pc[v] \in Working
    <2>1. MsgOf(v) \in Messages
      BY <1>3 DEF TypeOK, CallsTypeOK, Working
    <2>2. \A u \in Owed(MsgOf(v)) : /\ HasRow(MsgOf(v), u) => NewRow(MsgOf(v)', u)
                                    /\ Done(MsgOf(v), u) => NewDone(MsgOf(v)', u)
      BY <1>1, <2>1 DEF RowsStay, HasRow, NewRow, Done, NewDone
    <2>3. pc[v] # "resolve" /\ call[v].errs = {} =>
              \A u \in Owed(MsgOf(v)) \ call[v].todo : NewDone(MsgOf(v)', u)
      BY <1>3, <2>2 DEF Served
    <2>4. pc[v] \in {"list", "send", "mark"} /\ call[v].rcpt \in Owed(MsgOf(v)) =>
              NewRow(MsgOf(v)', call[v].rcpt)
      BY <2>2 DEF Served
    <2>5. QED
      BY <1>1, <2>3, <2>4 DEF Served, HasRow, NewRow, Done, NewDone
  <1>4. QED
    BY <1>2, <1>3

(* handleOne came back for u, with an error or having served u.            *)
LEMMA ServedFinish ==
    ASSUME TypeOK, RowsStay, NEW w \in Workers, NEW u \in Users, NEW errors,
           Served(w), pc[w] \in Working \ {"resolve"},
           FinishRecipient(w, u, errors),
           errors # {} \/ u \notin Owed(MsgOf(w)) \/ NewDone(MsgOf(w), u)
    PROVE  Served(w)'
  <1> DEFINE rest == call[w].todo \ {u}
             errs == call[w].errs \cup errors
             next == [NoCall EXCEPT !.msg = MsgOf(w), !.todo = rest,
                                    !.errs = errs, !.late = call[w].late]
  <1>0. /\ call \in [Workers -> Calls]
        /\ pc \in [Workers -> Phases]
        /\ MsgOf(w) \in Messages
    BY DEF TypeOK, CallsTypeOK, Working
  <1>1. call' = [call EXCEPT ![w] = next]
    BY DEF FinishRecipient
  <1>2. next.msg = MsgOf(w) /\ next.todo = rest /\ next.errs = errs
    BY DEF NoCall
  <1>3. call'[w].msg = MsgOf(w) /\ call'[w].todo = rest /\ call'[w].errs = errs
    BY <1>0, <1>1, <1>2
  <1>4. pc'[w] = IF rest # {} THEN "create"
                 ELSE IF errs = {} THEN "complete" ELSE "release"
    BY <1>0 DEF FinishRecipient, GoTo
  <1>5. MsgOf(w)' = MsgOf(w)
    BY <1>3 DEF MsgOf
  <1>6. ASSUME errs = {}, NEW x \in Owed(MsgOf(w)) \ rest
        PROVE  NewDone(MsgOf(w), x)
    <2>1. CASE x = u
      BY <1>6, <2>1
    <2>2. CASE x # u
      <3>1. Done(MsgOf(w), x)
        BY <1>6, <2>2 DEF Served
      <3>2. QED
        BY <1>0, <1>6, <3>1 DEF RowsStay
    <2>3. QED
      BY <2>1, <2>2
  <1>7. ASSUME errs = {}, NEW x \in Owed(MsgOf(w)) \ rest
        PROVE  NewDone(MsgOf(w)', x)
    BY <1>5, <1>6, <1>7 DEF NewDone, NewRow
  <1>8. QED
    BY <1>3, <1>4, <1>5, <1>7 DEF Served, Done, HasRow, NewDone, NewRow

(* A call that goes on with the same recipients left and the same errors,  *)
(* and has a row for the one it serves.                                    *)
LEMMA ServedAdvance ==
    ASSUME TypeOK, RowsStay, NEW w \in Workers, Served(w),
           pc[w] \in Working \ {"resolve"},
           pc'[w] \in {pc[w], "list", "send", "mark"},
           call'[w].msg = call[w].msg,
           call'[w].todo = call[w].todo,
           call'[w].errs = call[w].errs,
           \/ pc'[w] \notin {"list", "send", "mark"}
           \/ call'[w].rcpt \notin Owed(MsgOf(w))
           \/ NewRow(MsgOf(w), call'[w].rcpt)
    PROVE  Served(w)'
  <1>1. MsgOf(w)' = MsgOf(w) /\ MsgOf(w) \in Messages
    BY DEF MsgOf, TypeOK, CallsTypeOK, Working
  <1>2. \A u \in Owed(MsgOf(w)) : Done(MsgOf(w), u) => NewDone(MsgOf(w)', u)
    BY <1>1 DEF RowsStay, NewDone, NewRow
  <1>3. /\ pc'[w] \in Working \ {"resolve"}
        /\ pc'[w] = "complete" => pc[w] = "complete"
    BY DEF Working
  <1>4. pc'[w] \in {"list", "send", "mark"} =>
            \/ call'[w].rcpt \notin Owed(MsgOf(w)')
            \/ NewRow(MsgOf(w)', call'[w].rcpt)
    BY <1>1 DEF NewRow
  <1>5. QED
    BY <1>1, <1>2, <1>3, <1>4 DEF Served, Done, HasRow, NewDone, NewRow

(* One lemma per way through handleOne, each for the worker that steps.    *)
LEMMA ServedResolve ==
    ASSUME TypeOK, RowsStay, StaySubscribed, NEW w \in Workers, Served(w),
           Resolve(w) \/ ResolveFails(w)
    PROVE  Served(w)'
  <1>0. /\ call \in [Workers -> Calls]
        /\ pc \in [Workers -> Phases]
        /\ pc[w] = "resolve"
        /\ FanOut(MsgOf(w)) /\ call[w].errs = {}
    BY DEF TypeOK, CallsTypeOK, Resolve, ResolveFails, Served
  <1>1. CASE /\ call' = [call EXCEPT ![w].errs = {"retryable"}]
             /\ GoTo(w, "release")
    BY <1>0, <1>1 DEF GoTo, Calls, Served
  <1>2. CASE /\ call' = [call EXCEPT ![w].todo = subscribed]
             /\ GoTo(w, IF subscribed = {} THEN "complete" ELSE "create")
    <2>1. /\ call'[w].msg = call[w].msg
          /\ call'[w].todo = subscribed
          /\ call'[w].errs = {}
      BY <1>0, <1>2 DEF Calls
    <2>2. pc'[w] = IF subscribed = {} THEN "complete" ELSE "create"
      BY <1>0, <1>2 DEF GoTo
    <2>3. MsgOf(w)' = MsgOf(w) /\ Owed(MsgOf(w)) \subseteq subscribed
      BY <1>0, <2>1 DEF MsgOf, Owed, StaySubscribed
    <2>4. QED
      BY <2>1, <2>2, <2>3 DEF Served
  <1>3. QED
    BY <1>1, <1>2 DEF Resolve, ResolveFails

LEMMA ServedCreate ==
    ASSUME TypeOK, RowsStay, NEW w \in Workers, Served(w), NEW u \in Users,
           \/ RefusePayload(w, u) \/ Create(w, u) \/ CreateOrphan(w, u)
           \/ CreateFails(w, u)
    PROVE  Served(w)'
  <1>0. /\ pc[w] = "create"
        /\ pc[w] \in Working \ {"resolve"}
        /\ call \in [Workers -> Calls]
        /\ pc \in [Workers -> Phases]
        /\ MsgOf(w) \in Messages
    BY DEF RefusePayload, Create, CreateOrphan, CreateFails, TypeOK,
           CallsTypeOK, Working
  <1>1. CASE RefusePayload(w, u) \/ CreateOrphan(w, u) \/ CreateFails(w, u)
    BY <1>0, <1>1, ServedFinish DEF RefusePayload, CreateOrphan, CreateFails
  <1>2. CASE Create(w, u)
    <2>1. NewRow(MsgOf(w), u)
      <3>1. RowKey(MsgOf(w), u) \in Keys
        BY <1>0, OwedUsers
      <3>2. QED
        BY <1>2, <3>1 DEF Create, CreateRow, NewRow, TypeOK, StoreTypeOK
    <2>2. CASE /\ notifications[RowKey(MsgOf(w), u)] = "pushed"
               /\ FinishRecipient(w, u, {})
      <3>1. notifications'[RowKey(MsgOf(w), u)] = "pushed"
        <4>1. RowKey(MsgOf(w), u) \in Keys
          BY <1>0, OwedUsers
        <4>2. QED
          BY <1>2, <2>2, <4>1 DEF Create, CreateRow, TypeOK, StoreTypeOK
      <3>2. QED
        BY <1>0, <2>1, <2>2, <3>1, ServedFinish DEF NewDone
    <2>3. CASE call' = [call EXCEPT ![w].rcpt = u] /\ GoTo(w, "list")
      <3>1. /\ call'[w].msg = call[w].msg
            /\ call'[w].todo = call[w].todo
            /\ call'[w].errs = call[w].errs
            /\ call'[w].rcpt = u
            /\ pc'[w] = "list"
        BY <1>0, <2>3 DEF Calls, GoTo
      <3>2. QED
        BY <1>0, <2>1, <3>1, ServedAdvance
    <2>4. QED
      BY <1>2, <2>2, <2>3 DEF Create
  <1>3. QED
    BY <1>1, <1>2

LEMMA ServedPush ==
    ASSUME TypeOK, RowsStay, NEW w \in Workers, Served(w),
           \/ ListTokens(w) \/ ListFails(w)
           \/ \E t \in Tokens : SendOne(w, t) \/ SendFails(w, t)
           \/ DeleteGone(w) \/ DeleteFails(w)
           \/ MarkPushed(w) \/ MarkFails(w),
           SteadyOwned
    PROVE  Served(w)'
  <1> DEFINE u == call[w].rcpt
  <1>0. /\ pc[w] \in {"list", "send", "mark"}
        /\ pc[w] \in Working \ {"resolve"}
        /\ call \in [Workers -> Calls]
        /\ pc \in [Workers -> Phases]
        /\ u \in Users
        /\ MsgOf(w) \in Messages
    BY DEF ListTokens, ListFails, SendOne, SendFails, DeleteGone, DeleteFails,
           MarkPushed, MarkFails, TypeOK, CallsTypeOK, Working
  <1>1. u \in Owed(MsgOf(w)) => HasRow(MsgOf(w), u) /\ NewRow(MsgOf(w), u)
    BY <1>0 DEF Served, RowsStay
  <1>2. CASE FinishRecipient(w, u, {"retryable"})
    BY <1>0, <1>2, ServedFinish
  <1>3. ASSUME /\ call'[w].msg = call[w].msg
               /\ call'[w].todo = call[w].todo
               /\ call'[w].errs = call[w].errs
               /\ call'[w].rcpt = u
               /\ pc'[w] \in {pc[w], "send", "mark"}
        PROVE  Served(w)'
    BY <1>0, <1>1, <1>3, ServedAdvance
  <1>4. CASE ListTokens(w)
    <2>1. CASE /\ call' = [call EXCEPT ![w].devices = TokensOf(u)]
               /\ GoTo(w, "send")
      BY <1>0, <1>3, <2>1 DEF Calls, GoTo
    <2>2. CASE TokensOf(u) = {} /\ FinishRecipient(w, u, {})
      <3>1. u \in Owed(MsgOf(w)) => u \in Users \ Leaving
        BY <1>0, OwedUsers
      <3>2. u \in Owed(MsgOf(w)) => Steady(u) = {}
        BY <2>2, <3>1 DEF SteadyOwned, Steady, TokensOf
      <3>3. QED
        BY <1>0, <1>1, <2>2, <3>2, ServedFinish DEF NewDone
    <2>3. QED
      BY <1>4, <2>1, <2>2 DEF ListTokens
  <1>5. CASE DeleteGone(w)
    <2>1. CASE call' = call /\ GoTo(w, "mark")
      BY <1>0, <1>3, <2>1 DEF GoTo
    <2>2. QED
      BY <1>2, <1>5, <2>1 DEF DeleteGone
  <1>6. CASE MarkPushed(w)
    <2>1. RowKey(MsgOf(w), u) \in Keys
      BY <1>0, OwedUsers
    <2>2. u \in Owed(MsgOf(w)) => NewDone(MsgOf(w), u)
      BY <1>1, <1>6, <2>1 DEF MarkPushed, MarkRowPushed, KeyAt, HasRow, NewDone,
                              NewRow, TypeOK, StoreTypeOK
    <2>3. QED
      BY <1>0, <1>6, <2>2, ServedFinish DEF MarkPushed
  <1>7. ASSUME NEW t \in Tokens, SendOne(w, t) \/ SendFails(w, t)
        PROVE  Served(w)'
    BY <1>0, <1>3, <1>7 DEF SendOne, SendFails, Calls
  <1>8. CASE ListFails(w) \/ DeleteFails(w) \/ MarkFails(w)
    BY <1>2, <1>8 DEF ListFails, DeleteFails, MarkFails
  <1>9. QED
    BY <1>4, <1>5, <1>6, <1>7, <1>8

LEMMA ServedClaim ==
    ASSUME TypeOK, WorkersOK, RowsStay, NEW w \in Workers, Claim(w)
    PROVE  Served(w)'
  <1>0. /\ call \in [Workers -> Calls]
        /\ pc \in [Workers -> Phases]
        /\ call[w].errs = {}
    BY DEF TypeOK, CallsTypeOK, WorkersOK, BlamesPoison, Claim, Working
  <1>1. CASE FanOut(MsgOf(w)) /\ GoTo(w, "resolve") /\ call' = call
    BY <1>0, <1>1 DEF GoTo, Served, FanOut, MsgOf
  <1>2. CASE /\ ~FanOut(MsgOf(w))
             /\ GoTo(w, "create")
             /\ call' = [call EXCEPT ![w].todo = {Addressee[MsgOf(w)]}]
    <2>1. /\ call'[w].msg = call[w].msg
          /\ call'[w].todo = {Addressee[MsgOf(w)]}
          /\ pc'[w] = "create"
      BY <1>0, <1>2 DEF GoTo, Calls
    <2>2. MsgOf(w)' = MsgOf(w) /\ Owed(MsgOf(w)) \subseteq {Addressee[MsgOf(w)]}
      BY <1>2, <2>1 DEF MsgOf, Owed
    <2>3. QED
      BY <2>1, <2>2 DEF Served
  <1>3. CASE GoTo(w, "state")
    BY <1>0, <1>3 DEF GoTo, Served, Working
  <1>4. QED
    BY <1>1, <1>2, <1>3 DEF Claim

LEMMA ServedOverrun ==
    ASSUME TypeOK, RowsStay, NEW w \in Workers, Served(w), Overrun(w)
    PROVE  Served(w)'
  <1>0. /\ call \in [Workers -> Calls]
        /\ pc[w] \in Working
        /\ MsgOf(w) \in Messages
    BY DEF TypeOK, CallsTypeOK, Overrun, Working
  <1>1. /\ pc'[w] = pc[w]
        /\ call'[w].msg = call[w].msg
        /\ call'[w].todo = call[w].todo
        /\ call'[w].errs = call[w].errs
        /\ call'[w].rcpt = call[w].rcpt
    BY <1>0 DEF Overrun, Calls
  <1>2. CASE pc[w] = "resolve"
    BY <1>1, <1>2 DEF Served, FanOut, MsgOf
  <1>3. CASE pc[w] # "resolve"
    <2>1. \/ pc[w] \notin {"list", "send", "mark"}
          \/ call[w].rcpt \notin Owed(MsgOf(w))
          \/ NewRow(MsgOf(w), call[w].rcpt)
      BY <1>0 DEF Served, RowsStay
    <2>2. QED
      BY <1>0, <1>1, <1>3, <2>1, ServedAdvance
  <1>4. QED
    BY <1>2, <1>3

LEMMA StepRests ==
    ASSUME TypeOK, NEW w \in Workers, Step(w) \/ Failure(w)
    PROVE  OthersRest(w)
  <1>0. CallsTypeOK
    BY DEF TypeOK
  <1>1. CASE Internal(w)
    BY <1>1, InternalKeeps DEF KeepsWorking
  <1>2. CASE \/ ReadClaimState(w) \/ Complete(w) \/ Release(w) \/ Crash(w)
             \/ ClaimFails(w) \/ CompleteFails(w) \/ ReleaseFails(w)
    BY <1>0, <1>2, ReturnRests
       DEF ReadClaimState, Complete, Release, Crash, ClaimFails, CompleteFails,
           ReleaseFails
  <1>3. CASE Claim(w) \/ Overrun(w)
    BY <1>0, <1>3 DEF Claim, Overrun, GoTo, OthersRest, CallsTypeOK
  <1>4. QED
    BY <1>1, <1>2, <1>3 DEF Step, Failure, Internal

LEMMA ServedStep ==
    ASSUME TypeOK, WorkersOK, RowsStay, ServedInv,
           NEW w \in Workers, Step(w) \/ Failure(w)
    PROVE  Served(w)'
  <1>0. Served(w) /\ StaySubscribed /\ SteadyOwned /\ CallsTypeOK
    BY DEF ServedInv, TypeOK
  <1>1. CASE \/ ReadClaimState(w) \/ Complete(w) \/ Release(w) \/ Crash(w)
             \/ ClaimFails(w) \/ CompleteFails(w) \/ ReleaseFails(w)
    <2>1. pc'[w] = "idle"
      BY <1>0, <1>1, ReturnRests
         DEF ReadClaimState, Complete, Release, Crash, ClaimFails,
             CompleteFails, ReleaseFails
    <2>2. QED
      BY <2>1 DEF Served, Working
  <1>2. CASE Resolve(w) \/ ResolveFails(w)
    BY <1>0, <1>2, ServedResolve
  <1>3. CASE \E u \in Users : \/ RefusePayload(w, u) \/ Create(w, u)
                             \/ CreateOrphan(w, u) \/ CreateFails(w, u)
    BY <1>0, <1>3, ServedCreate
  <1>4. CASE Claim(w) \/ Overrun(w)
    BY <1>0, <1>4, ServedClaim, ServedOverrun
  <1>5. CASE \/ ListTokens(w) \/ ListFails(w)
             \/ \E t \in Tokens : SendOne(w, t) \/ SendFails(w, t)
             \/ DeleteGone(w) \/ DeleteFails(w)
             \/ MarkPushed(w) \/ MarkFails(w)
    BY <1>0, <1>5, ServedPush
  <1>6. QED
    BY <1>1, <1>2, <1>3, <1>4, <1>5 DEF Step, Failure

LEMMA ServedNext ==
    ASSUME TypeOK, WorkersOK, GoneDead, ServedInv, [Next]_vars
    PROVE  ServedInv'
  <1>0. OnlyLeaversDeleted' /\ RowsStay /\ SteadyOwned'
    BY RowsStayNext, SteadyNext DEF ServedInv
  <1>1. StaySubscribed'
    BY DEF ServedInv, StaySubscribed, Next, Environment, LeaseExpires,
           TokenMoves, TokenDies, SubscriptionChanges, UserLeaves, Receive,
           Step, Claim, ReadClaimState, Resolve, RefusePayload, Create,
           CreateOrphan, ListTokens, SendOne, DeleteGone, MarkPushed, Complete,
           Release, Failure, Crash, ClaimFails, ResolveFails, CreateFails,
           ListFails, SendFails, DeleteFails, MarkFails, CompleteFails,
           ReleaseFails, Overrun, store, vars
  <1>2. ASSUME NEW v \in Workers, pc'[v] = pc[v], call'[v] = call[v]
        PROVE  Served(v)'
    BY <1>0, <1>2, ServedRests DEF ServedInv
  <1>3. ASSUME NEW w \in Workers, Step(w) \/ Failure(w), NEW v \in Workers
        PROVE  Served(v)'
    BY <1>0, <1>2, <1>3, ServedStep, StepRests DEF OthersRest
  <1>4. ASSUME NEW w \in Workers, NEW m \in Messages, Receive(w, m),
               NEW v \in Workers
        PROVE  Served(v)'
    <2>1. CASE v = w
      BY <1>4, <2>1 DEF Receive, GoTo, Served, Working, TypeOK, CallsTypeOK
    <2>2. CASE v # w
      BY <1>2, <1>4, <2>2 DEF Receive, GoTo, TypeOK, CallsTypeOK
    <2>3. QED
      BY <2>1, <2>2
  <1>5. CASE Environment \/ UNCHANGED vars
    BY <1>0, <1>1, <1>2, <1>5
       DEF Environment, LeaseExpires, TokenMoves, TokenDies,
           SubscriptionChanges, UserLeaves, vars, ServedInv
  <1>6. QED
    BY <1>0, <1>1, <1>3, <1>4, <1>5 DEF Next, ServedInv

-----------------------------------------------------------------------------
(* No other statement than Complete's makes an event processed.            *)
LEMMA OthersDoNotProcess ==
    ASSUME TypeOK, NEW m \in Messages, NEW id \in EventIds,
           \/ LeaseLapses(id)
           \/ \E w \in Workers : \/ ReleaseClaim(id, w)
                                \/ \E type \in EventTypes :
                                      AcquireClaim(id, type, w),
           Processed(m)'
    PROVE  Processed(m)
  <1>0. claims \in [EventIds -> ClaimRow \cup {NoRow}] /\ IdOf[m] \in EventIds
    BY MessagesAssumption DEF TypeOK, ClaimsTypeOK
  <1>1. ASSUME NEW row \in ClaimRow \cup {NoRow},
               claims' = [claims EXCEPT ![id] = row],
               \/ row = NoRow \/ row = claims[id]
               \/ ~row.processed
               \/ /\ claims[id] # NoRow
                  /\ row.processed = claims[id].processed
                  /\ row.type = claims[id].type
        PROVE  Processed(m)
    BY <1>0, <1>1 DEF Processed, Recorded
  <1>2. CASE LeaseLapses(id)
    <2> DEFINE row == [claims[id] EXCEPT !.stale = TRUE]
    <2>1. /\ claims[id] # NoRow
          /\ row \in ClaimRow
          /\ row.processed = claims[id].processed
          /\ row.type = claims[id].type
      BY <1>0, <1>2 DEF LeaseLapses, Recorded, ClaimRow
    <2>2. claims' = [claims EXCEPT ![id] = row]
      BY <1>2 DEF LeaseLapses
    <2>3. QED
      BY <1>1, <2>1, <2>2
  <1>3. ASSUME NEW w \in Workers, ReleaseClaim(id, w)
        PROVE  Processed(m)
    BY <1>0, <1>1, <1>3 DEF ReleaseClaim
  <1>4. ASSUME NEW w \in Workers, NEW type \in EventTypes,
               AcquireClaim(id, type, w)
        PROVE  Processed(m)
    BY <1>1, <1>4 DEF AcquireClaim, ClaimRow
  <1>5. QED
    BY <1>2, <1>3, <1>4

(* Complete makes the event of its own call processed, and no other.       *)
LEMMA CompleteProcesses ==
    ASSUME TypeOK, WorkersOK, NEW w \in Workers, pc[w] = "complete",
           CompleteClaim(IdAt(w), w), NEW m \in Messages
    PROVE  Processed(m)' <=> Processed(m) \/ m = MsgOf(w)
  <1> DEFINE row == [claims[IdAt(w)] EXCEPT !.processed = TRUE]
  <1>0. /\ claims \in [EventIds -> ClaimRow \cup {NoRow}]
        /\ IdOf[m] \in EventIds
        /\ MsgOf(w) \in Messages
        /\ IdAt(w) \in EventIds
    BY MessagesAssumption DEF TypeOK, ClaimsTypeOK, CallsTypeOK, IdAt
  <1>1. claims' = [claims EXCEPT ![IdAt(w)] = row]
    BY DEF CompleteClaim
  <1>2. /\ row \in ClaimRow
        /\ row.processed
        /\ row.type = TypeOf[MsgOf(w)]
        /\ ~claims[IdAt(w)].processed
    BY <1>0 DEF CompleteClaim, Owns, Recorded, ClaimRow, WorkersOK, OwnType,
                Working
  <1>3. CASE IdOf[m] = IdAt(w)
    <2>1. Processed(m)' <=> TypeOf[MsgOf(w)] = TypeOf[m]
      BY <1>0, <1>1, <1>2, <1>3, NoRowAssumption DEF Processed, Recorded
    <2>2. QED
      BY <1>0, <1>2, <1>3, <2>1, ProducerAssumption DEF Processed, IdAt
  <1>4. CASE IdOf[m] # IdAt(w)
    BY <1>0, <1>1, <1>4 DEF Processed, Recorded, IdAt
  <1>5. QED
    BY <1>3, <1>4

(* An event becomes processed for the message of a call that completes it. *)
LEMMA CompletedBy ==
    ASSUME TypeOK, WorkersOK, [Next]_vars,
           NEW m \in Messages, ~Processed(m), Processed(m)'
    PROVE  \E w \in Workers : pc[w] = "complete" /\ MsgOf(w) = m
  <1>1. ASSUME NEW id \in EventIds,
               \/ LeaseLapses(id)
               \/ \E w \in Workers : \/ ReleaseClaim(id, w)
                                    \/ \E type \in EventTypes :
                                          AcquireClaim(id, type, w)
        PROVE  FALSE
    BY <1>1, OthersDoNotProcess
  <1>2. claims' # claims
    BY DEF Processed, Recorded
  <1>3. PICK w \in Workers : Complete(w) \/ CompleteFails(w)
    <2>1. ASSUME NEW w \in Workers, Step(w) \/ Failure(w),
                 ~Complete(w), ~CompleteFails(w)
          PROVE  FALSE
      <3>1. CASE Internal(w)
        BY <1>2, <3>1, InternalKeeps
      <3>2. CASE ReadClaimState(w) \/ Crash(w) \/ ReleaseFails(w)
        BY <1>2, <3>2 DEF ReadClaimState, Crash, ReleaseFails
      <3>3. CASE Claim(w) \/ ClaimFails(w) \/ Release(w) \/ Overrun(w)
        <4>1. IdAt(w) \in EventIds /\ TypeOf[MsgOf(w)] \in EventTypes
          BY <3>3, MessagesAssumption
             DEF Claim, ClaimFails, Release, Overrun, Working, IdAt, TypeOK,
                 CallsTypeOK
        <4>2. QED
          BY <1>1, <1>2, <3>3, <4>1 DEF Claim, ClaimFails, Release, Overrun
      <3>4. QED
        BY <2>1, <3>1, <3>2, <3>3 DEF Step, Failure, Internal
    <2>2. ~Environment
      BY <1>1, <1>2 DEF Environment, LeaseExpires, TokenMoves, TokenDies,
                        SubscriptionChanges, UserLeaves
    <2>3. QED
      BY <1>2, <2>1, <2>2 DEF Next, Receive, vars
  <1>4. /\ pc[w] = "complete"
        /\ CompleteClaim(IdAt(w), w)
    BY <1>2, <1>3 DEF Complete, CompleteFails
  <1>5. QED
    BY <1>4, CompleteProcesses

(* Whoever a processed event is owed to has been served.                   *)
ProcessedServed ==
    \A m \in Messages : Processed(m) => \A u \in Owed(m) : Done(m, u)

DeliveryInv == ClaimInv /\ GoneDead /\ ServedInv /\ ProcessedServed

LEMMA ProcessedServedNext ==
    ASSUME TypeOK, WorkersOK, ServedInv, ProcessedServed, [Next]_vars
    PROVE  ProcessedServed'
  <1> SUFFICES ASSUME NEW m \in Messages, Processed(m)', NEW u \in Owed(m)
               PROVE  NewDone(m, u)
    BY DEF ProcessedServed, Done, HasRow, NewDone, NewRow, Owed
  <1>1. Done(m, u)
    <2>1. CASE Processed(m)
      BY <2>1 DEF ProcessedServed
    <2>2. CASE ~Processed(m)
      <3>1. PICK w \in Workers : pc[w] = "complete" /\ MsgOf(w) = m
        BY <2>2, CompletedBy
      <3>2. QED
        BY <3>1 DEF ServedInv, Served, Working
    <2>3. QED
      BY <2>1, <2>2
  <1>2. QED
    BY <1>1, RowsStayNext DEF ServedInv, RowsStay

LEMMA DeliveryInvariant == Spec => []DeliveryInv
  <1>1. Init => GoneDead /\ ServedInv /\ ProcessedServed
    <2> SUFFICES ASSUME Init PROVE GoneDead /\ ServedInv /\ ProcessedServed
      OBVIOUS
    <2>1. ServedInv
      BY DEF Init, ServedInv, StaySubscribed, OnlyLeaversDeleted, SteadyOwned,
             Steady, Served, NoCall, Working
    <2>2. GoneDead /\ ProcessedServed
      BY MessagesAssumption
         DEF Init, GoneDead, NoCall, ProcessedServed, Processed, Recorded,
             ClaimsInit
    <2>3. QED
      BY <2>1, <2>2
  <1>2. DeliveryInv /\ [Next]_vars => GoneDead' /\ ServedInv' /\ ProcessedServed'
    BY GoneDeadNext, ServedNext, ProcessedServedNext DEF DeliveryInv, ClaimInv
  <1>3. QED
    BY <1>1, <1>2, ClaimInvariant, PTL DEF Spec, DeliveryInv

(* A processed event has left a notification with everyone it is owed to,  *)
(* for any number of recipients, workers and faults.                       *)
THEOREM ProcessedHaveNotified == Spec => []ProcessedNotifies
  <1>1. DeliveryInv => ProcessedNotifies
    BY DEF DeliveryInv, ProcessedServed, Done, HasRow, ProcessedNotifies
  <1>2. QED
    BY <1>1, DeliveryInvariant, PTL

(* ... and has been pushed to those of them who have a lasting device.     *)
THEOREM ProcessedHavePushed == Spec => []ProcessedPushes
  <1>1. DeliveryInv => ProcessedPushes
    BY DEF DeliveryInv, ProcessedServed, Done, ProcessedPushes
  <1>2. QED
    BY <1>1, DeliveryInvariant, PTL
=============================================================================
