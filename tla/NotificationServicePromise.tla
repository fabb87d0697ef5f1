--------------------- MODULE NotificationServicePromise ---------------------
(***************************************************************************)
(* pushed_at is set on a row only when each lasting device of its user     *)
(* accepted the push.                                                      *)
(*                                                                         *)
(* With that, the service implements DeliveryPromise: each of its steps    *)
(* notes, pushes or marks a kept row, finishes or acknowledges an event,   *)
(* or changes nothing of what is promised.                                 *)
(***************************************************************************)
EXTENDS NotificationServiceDelivery

(* Whom a call is for; and how far it has come with its recipient's lasting *)
(* devices: each is still to be tried, or was reached, or Send failed.      *)
Doing(w) ==
    /\ pc[w] \in Working => call[w].todo \subseteq Recipients(MsgOf(w))
    /\ pc[w] \in {"list", "send", "mark"} =>
           call[w].rcpt \in Recipients(MsgOf(w))
    /\ pc[w] = "send" /\ call[w].rcpt \notin Leaving /\ ~call[w].failed =>
           \A t \in Steady(call[w].rcpt) \ call[w].devices :
               pushes[<<MsgOf(w), call[w].rcpt, t>>] > 0
    /\ pc[w] = "mark" /\ call[w].rcpt \notin Leaving =>
           \A t \in Steady(call[w].rcpt) :
               pushes[<<MsgOf(w), call[w].rcpt, t>>] > 0

DoingInv == \A w \in Workers : Doing(w)

PushesGrow ==
    /\ \A d \in Messages \X Users \X Tokens : pushes[d] > 0 => pushes'[d] > 0
    /\ pushes' \in [Messages \X Users \X Tokens -> Nat]

LEMMA PushesNext ==
    ASSUME TypeOK, [Next]_vars
    PROVE  PushesGrow
  <1>0. /\ pushes \in [Messages \X Users \X Tokens -> Nat]
        /\ pushes' \in [Messages \X Users \X Tokens -> Nat]
    <2>1. TypeOK'
      BY NextType
    <2>2. QED
      BY <2>1 DEF TypeOK
  <1>1. CASE pushes' = pushes
    BY <1>0, <1>1 DEF PushesGrow
  <1>2. ASSUME NEW w \in Workers, NEW t \in Tokens, Delivered(w, t)
        PROVE  PushesGrow
    BY <1>0, <1>2 DEF Delivered, PushesGrow
  <1>3. QED
    BY <1>1, <1>2
       DEF Next, Environment, LeaseExpires, TokenMoves, TokenDies,
           SubscriptionChanges, UserLeaves, Receive, Step, Claim,
           ReadClaimState, Resolve, RefusePayload, Create, CreateOrphan,
           ListTokens, SendOne, DeleteGone, MarkPushed, Complete, Release,
           Failure, Crash, ClaimFails, ResolveFails, CreateFails, ListFails,
           SendFails, DeleteFails, MarkFails, CompleteFails, ReleaseFails,
           Overrun, vars

LEMMA SteadyTokens ==
    ASSUME NEW u
    PROVE  Steady(u) \subseteq Tokens
  BY DEF Steady

-----------------------------------------------------------------------------
(* A call in an earlier or a later phase than "send" and "mark", with no   *)
(* recipients it did not have.                                             *)
LEMMA DoingOutside ==
    ASSUME NEW w \in Workers,
           pc'[w] \notin {"list", "send", "mark"},
           \/ pc'[w] \notin Working
           \/ /\ call'[w].msg = MsgOf(w)
              /\ call'[w].todo \subseteq Recipients(MsgOf(w))
    PROVE  Doing(w)'
  BY DEF Doing, MsgOf

LEMMA DoingFinish ==
    ASSUME TypeOK, NEW w \in Workers, Doing(w), pc[w] \in Working,
           NEW u, NEW errors, FinishRecipient(w, u, errors)
    PROVE  Doing(w)'
  <1> DEFINE rest == call[w].todo \ {u}
             errs == call[w].errs \cup errors
             next == [NoCall EXCEPT !.msg = MsgOf(w), !.todo = rest,
                                    !.errs = errs, !.late = call[w].late]
  <1>0. call \in [Workers -> Calls] /\ pc \in [Workers -> Phases]
    BY DEF TypeOK, CallsTypeOK
  <1>1. call' = [call EXCEPT ![w] = next]
    BY DEF FinishRecipient
  <1>2. next.msg = MsgOf(w) /\ next.todo = rest
    BY DEF NoCall
  <1>3. pc'[w] \in {"create", "complete", "release"}
    BY <1>0 DEF FinishRecipient, GoTo
  <1>4. QED
    BY <1>0, <1>1, <1>2, <1>3, DoingOutside DEF Doing

(* A call that stays with its recipient, one step further.                 *)
LEMMA DoingAdvance ==
    ASSUME TypeOK, PushesGrow, NEW w \in Workers, Doing(w),
           pc[w] \in Working,
           call'[w].msg = MsgOf(w),
           call'[w].todo = call[w].todo,
           pc'[w] \in {"list", "send", "mark"},
           call'[w].rcpt \in Recipients(MsgOf(w)),
           pc'[w] = "send" /\ call'[w].rcpt \notin Leaving /\ ~call'[w].failed =>
               \A t \in Steady(call'[w].rcpt) \ call'[w].devices :
                   pushes'[<<MsgOf(w), call'[w].rcpt, t>>] > 0,
           pc'[w] = "mark" /\ call'[w].rcpt \notin Leaving =>
               \A t \in Steady(call'[w].rcpt) :
                   pushes'[<<MsgOf(w), call'[w].rcpt, t>>] > 0
    PROVE  Doing(w)'
  <1>1. MsgOf(w)' = MsgOf(w)
    BY DEF MsgOf
  <1>2. QED
    BY <1>1 DEF Doing, Working

LEMMA DoingRests ==
    ASSUME TypeOK, PushesGrow, NEW v \in Workers, Doing(v),
           pc'[v] = pc[v], call'[v] = call[v]
    PROVE  Doing(v)'
  <1>1. MsgOf(v)' = MsgOf(v)
    BY DEF MsgOf
  <1>2. CASE pc[v] \notin {"list", "send", "mark"}
    BY <1>1, <1>2, DoingOutside DEF Doing, MsgOf
  <1>3. CASE pc[v] \in {"list", "send", "mark"}
    <2>1. MsgOf(v) \in Messages /\ call[v].rcpt \in Users /\ pc[v] \in Working
      BY <1>3 DEF TypeOK, CallsTypeOK, Working
    <2>2. \A t \in Tokens : pushes[<<MsgOf(v), call[v].rcpt, t>>] > 0 =>
                                pushes'[<<MsgOf(v), call[v].rcpt, t>>] > 0
      BY <2>1 DEF PushesGrow
    <2>3. Steady(call[v].rcpt) \subseteq Tokens
      BY SteadyTokens
    <2>4. QED
      BY <1>1, <1>3, <2>1, <2>2, <2>3, DoingAdvance DEF Doing, MsgOf
  <1>4. QED
    BY <1>2, <1>3

-----------------------------------------------------------------------------
LEMMA DoingPush ==
    ASSUME TypeOK, PushesGrow, SteadyOwned, NEW w \in Workers, Doing(w),
           \/ ListTokens(w)
           \/ \E t \in Tokens : SendOne(w, t) \/ SendFails(w, t)
           \/ DeleteGone(w)
    PROVE  Doing(w)'
  <1> DEFINE u == call[w].rcpt
             m == MsgOf(w)
  <1>0. /\ pc[w] \in {"list", "send"}
        /\ pc[w] \in Working
        /\ call \in [Workers -> Calls]
        /\ pc \in [Workers -> Phases]
        /\ u \in Users
        /\ m \in Messages
        /\ u \in Recipients(m)
        /\ Steady(u) \subseteq Tokens
    BY SteadyTokens
       DEF ListTokens, SendOne, SendFails, DeleteGone, TypeOK, CallsTypeOK,
           Working, Doing
  <1>1. CASE FinishRecipient(w, u, {}) \/ FinishRecipient(w, u, {"retryable"})
    BY <1>0, <1>1, DoingFinish
  <1>2. CASE /\ call' = [call EXCEPT ![w].devices = TokensOf(u)]
             /\ GoTo(w, "send")
    <2>1. /\ call'[w].msg = m
          /\ call'[w].todo = call[w].todo
          /\ call'[w].rcpt = u
          /\ call'[w].devices = TokensOf(u)
          /\ pc'[w] = "send"
      BY <1>0, <1>2 DEF Calls, GoTo, MsgOf
    <2>2. u \notin Leaving => Steady(u) \ TokensOf(u) = {}
      BY <1>0 DEF SteadyOwned, TokensOf
    <2>3. QED
      BY <1>0, <2>1, <2>2, DoingAdvance
  <1>3. CASE pc[w] = "send" /\ call[w].devices = {} /\ ~call[w].failed
             /\ call' = call /\ GoTo(w, "mark")
    <2>1. call'[w] = call[w] /\ pc'[w] = "mark"
      BY <1>0, <1>3 DEF GoTo
    <2>2. u \notin Leaving => \A t \in Steady(u) : pushes[<<m, u, t>>] > 0
      BY <1>3 DEF Doing
    <2>3. u \notin Leaving => \A t \in Steady(u) : pushes'[<<m, u, t>>] > 0
      BY <1>0, <2>2 DEF PushesGrow
    <2>4. QED
      BY <1>0, <2>1, <2>3, DoingAdvance DEF MsgOf
  <1>4. ASSUME NEW t \in Tokens, SendOne(w, t)
        PROVE  Doing(w)'
    <2>1. /\ call'[w].msg = m
          /\ call'[w].todo = call[w].todo
          /\ call'[w].rcpt = u
          /\ call'[w].failed = call[w].failed
          /\ call'[w].devices = call[w].devices \ {t}
          /\ pc[w] = "send"
          /\ pc'[w] = "send"
      BY <1>0, <1>4 DEF SendOne, Calls, MsgOf
    <2>2. u \notin Leaving /\ t \in Steady(u) => pushes'[<<m, u, t>>] > 0
      <3>1. u \notin Leaving /\ t \in Steady(u) => Delivered(w, t)
        BY <1>0, <1>4 DEF SendOne, SteadyOwned
      <3>2. Delivered(w, t) => pushes'[<<m, u, t>>] > 0
        BY <1>0 DEF Delivered, TypeOK
      <3>3. QED
        BY <3>1, <3>2
    <2>3. u \notin Leaving /\ ~call[w].failed =>
              \A s \in Steady(u) \ call[w].devices : pushes'[<<m, u, s>>] > 0
      BY <1>0, <2>1 DEF Doing, PushesGrow
    <2>4. u \notin Leaving /\ ~call[w].failed =>
              \A s \in Steady(u) \ (call[w].devices \ {t}) :
                  pushes'[<<m, u, s>>] > 0
      BY <2>2, <2>3
    <2>5. QED
      BY <1>0, <2>1, <2>4, DoingAdvance
  <1>5. ASSUME NEW t \in Tokens, SendFails(w, t)
        PROVE  Doing(w)'
    <2>1. /\ call'[w].msg = m
          /\ call'[w].todo = call[w].todo
          /\ call'[w].rcpt = u
          /\ call'[w].failed
          /\ pc'[w] = "send"
      BY <1>0, <1>5 DEF SendFails, Calls, MsgOf
    <2>2. QED
      BY <1>0, <2>1, DoingAdvance
  <1>6. QED
    BY <1>1, <1>2, <1>3, <1>4, <1>5 DEF ListTokens, DeleteGone

LEMMA DoingStep ==
    ASSUME TypeOK, WorkersOK, PushesGrow, SteadyOwned,
           NEW w \in Workers, Doing(w), Served(w), Step(w) \/ Failure(w)
    PROVE  Doing(w)'
  <1>0. /\ CallsTypeOK
        /\ call \in [Workers -> Calls]
        /\ pc \in [Workers -> Phases]
        /\ subscribed \subseteq Users
        /\ pc[w] # "idle" => MsgOf(w) \in Messages
    BY DEF TypeOK, CallsTypeOK
  <1>1. CASE \/ ReadClaimState(w) \/ Complete(w) \/ Release(w) \/ Crash(w)
             \/ ClaimFails(w) \/ CompleteFails(w) \/ ReleaseFails(w)
    <2>1. pc'[w] = "idle"
      BY <1>0, <1>1, ReturnRests
         DEF ReadClaimState, Complete, Release, Crash, ClaimFails,
             CompleteFails, ReleaseFails
    <2>2. QED
      BY <2>1, DoingOutside DEF Working
  <1>2. CASE Claim(w)
    <2>1. CASE FanOut(MsgOf(w)) /\ GoTo(w, "resolve") /\ call' = call
      <3>1. /\ pc'[w] = "resolve"
            /\ call'[w].todo \subseteq Recipients(MsgOf(w))
            /\ call'[w].msg = MsgOf(w)
        BY <1>0, <2>1 DEF GoTo, Recipients, Calls, MsgOf
      <3>2. QED
        BY <3>1, DoingOutside
    <2>2. CASE /\ ~FanOut(MsgOf(w))
               /\ GoTo(w, "create")
               /\ call' = [call EXCEPT ![w].todo = {Addressee[MsgOf(w)]}]
      <3>1. /\ pc'[w] = "create"
            /\ call'[w].todo \subseteq Recipients(MsgOf(w))
            /\ call'[w].msg = MsgOf(w)
        BY <1>0, <2>2 DEF GoTo, Recipients, Calls, MsgOf
      <3>2. QED
        BY <3>1, DoingOutside
    <2>3. CASE GoTo(w, "state")
      BY <1>0, <2>3, DoingOutside DEF GoTo, Working
    <2>4. QED
      BY <1>2, <2>1, <2>2, <2>3 DEF Claim
  <1>3. CASE Resolve(w) \/ ResolveFails(w)
    <2>1. FanOut(MsgOf(w))
      BY <1>3 DEF Served, Resolve, ResolveFails
    <2>2. /\ pc'[w] \in {"release", "complete", "create"}
          /\ call'[w].msg = MsgOf(w)
          /\ call'[w].todo \subseteq Users
      BY <1>0, <1>3 DEF Resolve, ResolveFails, GoTo, Calls, MsgOf
    <2>3. QED
      BY <2>1, <2>2, DoingOutside DEF Recipients
  <1>4. ASSUME NEW u \in Users, \/ RefusePayload(w, u) \/ Create(w, u)
                                \/ CreateOrphan(w, u) \/ CreateFails(w, u)
        PROVE  Doing(w)'
    <2>1. /\ pc[w] = "create"
          /\ pc[w] \in Working
          /\ u \in call[w].todo
      BY <1>4 DEF RefusePayload, Create, CreateOrphan, CreateFails, Working
    <2>2. CASE call' = [call EXCEPT ![w].rcpt = u] /\ GoTo(w, "list")
      <3>1. /\ pc'[w] = "list"
            /\ call'[w].msg = MsgOf(w)
            /\ call'[w].todo = call[w].todo
            /\ call'[w].rcpt = u
            /\ u \in Recipients(MsgOf(w))
        BY <1>0, <2>1, <2>2 DEF GoTo, Calls, MsgOf, Doing
      <3>2. QED
        BY <2>1, <3>1, DoingAdvance
    <2>3. QED
      BY <1>4, <2>1, <2>2, DoingFinish
         DEF RefusePayload, Create, CreateOrphan, CreateFails
  <1>5. CASE ListFails(w) \/ DeleteFails(w) \/ MarkPushed(w) \/ MarkFails(w)
    <2>1. pc[w] \in Working
      BY <1>5 DEF ListFails, DeleteFails, MarkPushed, MarkFails, Working
    <2>2. QED
      BY <1>5, <2>1, DoingFinish DEF ListFails, DeleteFails, MarkPushed, MarkFails
  <1>6. CASE Overrun(w)
    <2>1. /\ pc'[w] = pc[w]
          /\ pc[w] \in Working
          /\ pushes' = pushes
          /\ call'[w].msg = MsgOf(w)
          /\ call'[w].todo = call[w].todo
          /\ call'[w].rcpt = call[w].rcpt
          /\ call'[w].devices = call[w].devices
          /\ call'[w].failed = call[w].failed
      BY <1>0, <1>6 DEF Overrun, Calls, MsgOf
    <2>2. CASE pc[w] \in {"list", "send", "mark"}
      BY <2>1, <2>2, DoingAdvance DEF Doing
    <2>3. CASE pc[w] \notin {"list", "send", "mark"}
      BY <2>1, <2>3, DoingOutside DEF Doing
    <2>4. QED
      BY <2>2, <2>3
  <1>7. QED
    BY <1>1, <1>2, <1>3, <1>4, <1>5, <1>6, DoingPush DEF Step, Failure

LEMMA DoingNext ==
    ASSUME DeliveryInv, DoingInv, [Next]_vars
    PROVE  DoingInv'
  <1>0. /\ TypeOK /\ WorkersOK /\ PushesGrow /\ SteadyOwned
        /\ \A w \in Workers : Served(w) /\ Doing(w)
    BY PushesNext DEF DeliveryInv, ClaimInv, ServedInv, DoingInv
  <1>1. ASSUME NEW v \in Workers, pc'[v] = pc[v], call'[v] = call[v]
        PROVE  Doing(v)'
    BY <1>0, <1>1, DoingRests
  <1>2. ASSUME NEW w \in Workers, Step(w) \/ Failure(w), NEW v \in Workers
        PROVE  Doing(v)'
    BY <1>0, <1>1, <1>2, DoingStep, StepRests DEF OthersRest
  <1>3. ASSUME NEW w \in Workers, NEW m \in Messages, Receive(w, m),
               NEW v \in Workers
        PROVE  Doing(v)'
    <2>1. CASE v = w
      BY <1>0, <1>3, <2>1, DoingOutside DEF Receive, GoTo, Working, TypeOK,
                                            CallsTypeOK
    <2>2. CASE v # w
      BY <1>0, <1>1, <1>3, <2>2 DEF Receive, GoTo, TypeOK, CallsTypeOK
    <2>3. QED
      BY <2>1, <2>2
  <1>4. CASE Environment \/ UNCHANGED vars
    BY <1>1, <1>4
       DEF Environment, LeaseExpires, TokenMoves, TokenDies,
           SubscriptionChanges, UserLeaves, vars, DoingInv
  <1>5. QED
    BY <1>2, <1>3, <1>4 DEF Next, DoingInv

-----------------------------------------------------------------------------
(* A row becomes marked only at the end of a call that pushed it.          *)
LEMMA MarkedBy ==
    ASSUME TypeOK, [Next]_vars, NEW k \in Keys,
           notifications[k] # "pushed", notifications'[k] = "pushed"
    PROVE  \E w \in Workers : pc[w] = "mark" /\ KeyAt(w) = k
  <1>1. notifications \in [Keys -> RowStates]
    BY DEF TypeOK, StoreTypeOK
  <1>2. ASSUME NEW i, CreateRow(i)
        PROVE  FALSE
    BY <1>1, <1>2 DEF CreateRow, RowStates
  <1>3. ASSUME NEW u \in Users, UserLeaves(u)
        PROVE  FALSE
    BY <1>1, <1>3 DEF UserLeaves, CoreDeletes
  <1>4. PICK w \in Workers : pc[w] = "mark" /\ MarkRowPushed(KeyAt(w))
    <2>1. notifications' # notifications
      OBVIOUS
    <2>2. QED
      BY <1>2, <1>3, <2>1
         DEF Next, Environment, LeaseExpires, TokenMoves, TokenDies,
             SubscriptionChanges, Receive, Step, Claim, ReadClaimState,
             Resolve, RefusePayload, Create, CreateOrphan, ListTokens, SendOne,
             DeleteGone, MarkPushed, Complete, Release, Failure, Crash,
             ClaimFails, ResolveFails, CreateFails, ListFails, SendFails,
             DeleteFails, MarkFails, CompleteFails, ReleaseFails, Overrun,
             store, vars
  <1>5. KeyAt(w) = k
    BY <1>1, <1>4 DEF MarkRowPushed
  <1>6. QED
    BY <1>4, <1>5

(* u was pushed the row of m on t, for m or for an event with the same row. *)
Reached(m, u, t) ==
    \E n \in Messages : RowKey(n, u) = RowKey(m, u) /\ pushes[<<n, u, t>>] > 0

NewReached(m, u, t) ==
    \E n \in Messages : RowKey(n, u) = RowKey(m, u) /\ pushes'[<<n, u, t>>] > 0

LEMMA MarkedReached ==
    ASSUME DeliveryInv, DoingInv, PushedReachesSteady, [Next]_vars
    PROVE  PushedReachesSteady'
  <1>0. TypeOK /\ PushesGrow
    BY PushesNext DEF DeliveryInv, ClaimInv
  <1> SUFFICES ASSUME NEW m \in Messages, NEW u \in Owed(m),
                      notifications'[RowKey(m, u)] = "pushed",
                      NEW t \in Steady(u)
               PROVE  NewReached(m, u, t)
    BY DEF PushedReachesSteady, NewReached, Owed, Steady
  <1>1. /\ RowKey(m, u) \in Keys
        /\ u \in Users \ Leaving
        /\ u \in Recipients(m)
        /\ t \in Tokens
    BY OwedUsers, SteadyTokens
  <1>2. Reached(m, u, t)
    <2>1. CASE notifications[RowKey(m, u)] = "pushed"
      BY <2>1 DEF PushedReachesSteady, Reached
    <2>2. CASE notifications[RowKey(m, u)] # "pushed"
      <3>1. PICK w \in Workers : pc[w] = "mark" /\ KeyAt(w) = RowKey(m, u)
        BY <1>0, <1>1, <2>2, MarkedBy
      <3>2. /\ MsgOf(w) \in Messages
            /\ call[w].rcpt \in Users
            /\ call[w].rcpt \in Recipients(MsgOf(w))
        BY <1>0, <3>1 DEF TypeOK, CallsTypeOK, DoingInv, Doing
      <3>3. RowKey(m, u) \in Inbox(call[w].rcpt)
        BY <3>1, <3>2 DEF Inbox, KeyAt
      <3>4. call[w].rcpt = u
        BY <1>1, <3>2, <3>3, InboxesDiffer
      <3>5. pushes[<<MsgOf(w), u, t>>] > 0
        BY <1>1, <3>1, <3>4 DEF DoingInv, Doing
      <3>6. QED
        BY <3>1, <3>2, <3>4, <3>5 DEF Reached, KeyAt
    <2>3. QED
      BY <2>1, <2>2
  <1>3. QED
    BY <1>0, <1>1, <1>2 DEF Reached, NewReached, PushesGrow

LEMMA PushInvariant == Spec => [](DeliveryInv /\ DoingInv)
  <1>1. Init => DoingInv
    BY DEF Init, DoingInv, Doing, Working
  <1>2. DeliveryInv /\ DoingInv /\ [Next]_vars => DoingInv'
    BY DoingNext
  <1>3. QED
    BY <1>1, <1>2, DeliveryInvariant, PTL DEF Spec

(* The row of someone an event is owed to is marked only when each device  *)
(* that was theirs throughout accepted its push, for any number of         *)
(* devices, workers, faults and events that share the row.                 *)
THEOREM MarkedWhenReached == Spec => []PushedReachesSteady
  <1>1. Init => PushedReachesSteady
    <2> SUFFICES ASSUME Init PROVE PushedReachesSteady
      OBVIOUS
    <2>1. \A m \in Messages : \A u \in Owed(m) : RowKey(m, u) \in Keys
      BY OwedUsers
    <2>2. QED
      BY <2>1 DEF Init, PushedReachesSteady
  <1>2. DeliveryInv /\ DoingInv /\ PushedReachesSteady /\ [Next]_vars
            => PushedReachesSteady'
    BY MarkedReached
  <1>3. QED
    BY <1>1, <1>2, PushInvariant, PTL DEF Spec

(* When a message is acknowledged, everyone it was owed to has a           *)
(* notification, and each of their lasting devices accepted the push, for  *)
(* any number of workers, deliveries, faults and events that share rows.   *)
THEOREM AckedAreDelivered == Spec => []AckedReachesAll
  <1>1. TypeOK /\ NoEventLost /\ ProcessedNotifies /\ ProcessedPushes
            /\ PushedReachesSteady => AckedReachesAll
    <2> SUFFICES ASSUME TypeOK, NoEventLost, ProcessedNotifies,
                        ProcessedPushes, PushedReachesSteady,
                        NEW m \in acked \ Poison, NEW u \in Owed(m)
                 PROVE  /\ notifications[RowKey(m, u)] # "absent"
                        /\ \A t \in Steady(u) : \E n \in Messages :
                              /\ RowKey(n, u) = RowKey(m, u)
                              /\ pushes[<<n, u, t>>] > 0
      BY DEF AckedReachesAll
    <2>1. m \in Messages /\ Processed(m)
      BY DEF TypeOK, NoEventLost
    <2>2. notifications[RowKey(m, u)] # "absent"
      BY <2>1 DEF ProcessedNotifies
    <2>3. Steady(u) # {} => notifications[RowKey(m, u)] = "pushed"
      BY <2>1 DEF ProcessedPushes
    <2>4. QED
      BY <2>1, <2>2, <2>3 DEF PushedReachesSteady
  <1>2. QED
    BY <1>1, TypeCorrect, NothingLost, ProcessedHaveNotified, ProcessedHavePushed,
       MarkedWhenReached, PTL

-----------------------------------------------------------------------------
Noted == {k \in KeptRows : notifications[k] # "absent"}
Marked == {k \in KeptRows : notifications[k] = "pushed"}
Finished == {m \in Messages : Processed(m)}

(* The actions of DeliveryPromise, of the variables mapped.                *)
Notes ==
    /\ \E k \in KeptRows : Noted' = Noted \cup {k}
    /\ UNCHANGED <<Accepted, Marked, Finished, acked>>

Reaches ==
    /\ \E k \in KeptRows, d \in Tokens :
          /\ k \in Noted
          /\ Accepted' = Accepted \cup {<<k, d>>}
    /\ UNCHANGED <<Noted, Marked, Finished, acked>>

Marks ==
    /\ \E k \in KeptRows :
          /\ k \in Noted
          /\ \A d \in KeptDevices[k] : <<k, d>> \in Accepted
          /\ Marked' = Marked \cup {k}
    /\ UNCHANGED <<Noted, Accepted, Finished, acked>>

Finishes ==
    /\ \E m \in Messages :
          /\ \A u \in Owed(m) :
                /\ RowKey(m, u) \in Noted
                /\ KeptDevices[RowKey(m, u)] # {} => RowKey(m, u) \in Marked
          /\ Finished' = Finished \cup {m}
          /\ acked' = acked \/ acked' = acked \cup {m}
    /\ UNCHANGED <<Noted, Accepted, Marked>>

Acknowledges ==
    /\ \E m \in Messages : /\ m \in Finished \cup Poison
                           /\ acked' = acked \cup {m}
    /\ UNCHANGED <<Noted, Accepted, Marked, Finished>>

Stutters == UNCHANGED <<Noted, Accepted, Marked, Finished, acked>>

Promised == Notes \/ Reaches \/ Marks \/ Finishes \/ Acknowledges \/ Stutters

LEMMA PromisedIsNext ==
    ASSUME Promised
    PROVE  [Promise!Next]_(Promise!promise)
  <1>1. CASE Notes
    BY <1>1 DEF Notes, Noted, Marked, Finished, Promise!Next, Promise!Note
  <1>2. CASE Reaches
    BY <1>2 DEF Reaches, Noted, Marked, Finished, Promise!Next, Promise!Reach
  <1>3. CASE Marks
    BY <1>3 DEF Marks, Noted, Marked, Finished, Promise!Next, Promise!Mark
  <1>4. CASE Finishes
    BY <1>4 DEF Finishes, Noted, Marked, Finished, Promise!Next, Promise!Finish
  <1>5. CASE Acknowledges
    BY <1>5 DEF Acknowledges, Noted, Marked, Finished, Promise!Next,
                Promise!Acknowledge
  <1>6. CASE Stutters
    BY <1>6 DEF Stutters, Noted, Marked, Finished, Promise!promise
  <1>7. QED
    BY <1>1, <1>2, <1>3, <1>4, <1>5, <1>6 DEF Promised

-----------------------------------------------------------------------------
LEMMA Untouched ==
    /\ notifications' = notifications => UNCHANGED <<Noted, Marked>>
    /\ pushes' = pushes => UNCHANGED Accepted
    /\ claims' = claims => UNCHANGED Finished
  BY DEF Noted, Marked, Accepted, Finished, Processed, Recorded

(* A kept row belongs to one user, whose lasting devices are the row's,    *)
(* and any message that notes it owes it to them.                          *)
LEMMA KeptOwner ==
    ASSUME NEW m \in Messages, NEW u \in Users, u \in Recipients(m),
           RowKey(m, u) \in KeptRows
    PROVE  /\ u \in Owed(m)
           /\ KeptDevices[RowKey(m, u)] \subseteq Steady(u)
  <1>1. ASSUME NEW n \in Messages, NEW v \in Owed(n), RowKey(n, v) = RowKey(m, u)
        PROVE  v = u
    <2>1. v \in Recipients(n) /\ RowKey(n, v) \in Inbox(u)
      BY <1>1, OwedUsers DEF Inbox
    <2>2. QED
      BY <2>1, InboxesDiffer
  <1>2. PICK n \in Messages : \E v \in Owed(n) : RowKey(n, v) = RowKey(m, u)
    BY DEF KeptRows
  <1>3. u \in Owed(n) /\ RowKey(n, u) = RowKey(m, u)
    BY <1>1, <1>2
  <1>4. u \in Owed(m)
    <2>1. CASE TypeOf[m] = "new_message" /\ TypeOf[n] = "new_message"
      BY <1>3, <2>1, ProducerAssumption DEF RowKey
    <2>2. CASE TypeOf[m] # "new_message" /\ TypeOf[n] # "new_message"
      <3>1. TypeOf[m] = TypeOf[n]
        BY <1>3, <2>2 DEF RowKey
      <3>2. QED
        BY <1>3, <3>1 DEF Owed, Recipients, FanOut
    <2>3. CASE \/ TypeOf[m] = "new_message" /\ TypeOf[n] # "new_message"
               \/ TypeOf[m] # "new_message" /\ TypeOf[n] = "new_message"
      BY <1>3, <2>3 DEF RowKey
    <2>4. QED
      BY <2>1, <2>2, <2>3
  <1>5. KeptDevices[RowKey(m, u)] \subseteq Steady(u)
    BY <1>1 DEF KeptDevices
  <1>6. QED
    BY <1>4, <1>5

-----------------------------------------------------------------------------
LEMMA CreatePromised ==
    ASSUME TypeOK, NEW w \in Workers, NEW u \in Users,
           Create(w, u) \/ CreateFails(w, u)
    PROVE  Promised
  <1> DEFINE k == RowKey(MsgOf(w), u)
  <1>0. /\ notifications \in [Keys -> RowStates]
        /\ UNCHANGED <<Accepted, Finished, acked>>
    BY Untouched DEF TypeOK, StoreTypeOK, Create, CreateFails
  <1>1. CASE notifications' = notifications
    BY <1>0, <1>1, Untouched DEF Promised, Stutters
  <1>2. CASE CreateRow(k)
    <2>1. Marked' = Marked
      BY <1>0, <1>2 DEF CreateRow, Marked
    <2>2. CASE k \in KeptRows
      <3>1. k \in Keys
        BY <2>2, OwedUsers DEF KeptRows
      <3>2. Noted' = Noted \cup {k}
        BY <1>0, <1>2, <2>2, <3>1 DEF CreateRow, Noted
      <3>3. QED
        BY <1>0, <2>1, <2>2, <3>2 DEF Promised, Notes
    <2>3. CASE k \notin KeptRows
      <3>1. Noted' = Noted
        BY <1>0, <1>2, <2>3 DEF CreateRow, Noted
      <3>2. QED
        BY <1>0, <2>1, <3>1 DEF Promised, Stutters
    <2>4. QED
      BY <2>2, <2>3
  <1>3. QED
    BY <1>1, <1>2 DEF Create, CreateFails

(* What a call that pushes a kept row knows of it.                         *)
LEMMA Pushing ==
    ASSUME TypeOK, NEW w \in Workers, Served(w), Doing(w),
           pc[w] \in {"send", "mark"}, KeyAt(w) \in KeptRows
    PROVE  /\ MsgOf(w) \in Messages
           /\ call[w].rcpt \in Users
           /\ KeyAt(w) \in Noted
           /\ pc[w] = "mark" =>
                  \A d \in KeptDevices[KeyAt(w)] : <<KeyAt(w), d>> \in Accepted
  <1> DEFINE m == MsgOf(w)
             u == call[w].rcpt
  <1>1. m \in Messages /\ u \in Users /\ u \in Recipients(m)
    BY DEF TypeOK, CallsTypeOK, Doing
  <1>2. u \in Owed(m) /\ KeptDevices[KeyAt(w)] \subseteq Steady(u)
    BY <1>1, KeptOwner DEF KeyAt
  <1>3. KeyAt(w) \in Noted
    BY <1>2 DEF Served, HasRow, KeyAt, Noted
  <1>4. ASSUME pc[w] = "mark", NEW d \in KeptDevices[KeyAt(w)]
        PROVE  <<KeyAt(w), d>> \in Accepted
    <2>1. d \in Tokens /\ u \notin Leaving
      BY <1>1, <1>2, SteadyTokens, OwedUsers
    <2>2. pushes[<<m, u, d>>] > 0
      BY <1>2, <1>4, <2>1 DEF Doing
    <2>3. QED
      BY <1>1, <2>1, <2>2 DEF Accepted, KeyAt
  <1>5. QED
    BY <1>1, <1>3, <1>4

LEMMA MarkPromised ==
    ASSUME TypeOK, NEW w \in Workers, Served(w), Doing(w),
           MarkPushed(w) \/ MarkFails(w)
    PROVE  Promised
  <1> DEFINE k == KeyAt(w)
  <1>0. /\ notifications \in [Keys -> RowStates]
        /\ UNCHANGED <<Accepted, Finished, acked>>
        /\ pc[w] = "mark"
    BY Untouched DEF TypeOK, StoreTypeOK, MarkPushed, MarkFails
  <1>1. CASE notifications' = notifications
    BY <1>0, <1>1, Untouched DEF Promised, Stutters
  <1>2. CASE MarkRowPushed(k)
    <2>1. Noted' = Noted
      BY <1>0, <1>2 DEF MarkRowPushed, Noted
    <2>2. CASE k \in KeptRows
      <3>1. k \in Keys
        BY <2>2, OwedUsers DEF KeptRows
      <3>2. /\ k \in Noted
            /\ \A d \in KeptDevices[k] : <<k, d>> \in Accepted
        BY <1>0, <2>2, Pushing
      <3>3. Marked' = Marked \cup {k}
        BY <1>0, <1>2, <2>2, <3>1, <3>2 DEF MarkRowPushed, Marked, Noted
      <3>4. QED
        BY <1>0, <2>1, <2>2, <3>2, <3>3 DEF Promised, Marks
    <2>3. CASE k \notin KeptRows
      <3>1. Marked' = Marked
        BY <1>0, <1>2, <2>3 DEF MarkRowPushed, Marked
      <3>2. QED
        BY <1>0, <2>1, <3>1 DEF Promised, Stutters
    <2>4. QED
      BY <2>2, <2>3
  <1>3. QED
    BY <1>1, <1>2 DEF MarkPushed, MarkFails

LEMMA SendPromised ==
    ASSUME TypeOK, NEW w \in Workers, Served(w), Doing(w), NEW t \in Tokens,
           SendOne(w, t) \/ SendFails(w, t)
    PROVE  Promised
  <1> DEFINE k == KeyAt(w)
             m == MsgOf(w)
             u == call[w].rcpt
  <1>0. /\ UNCHANGED <<Noted, Marked, Finished, acked>>
        /\ pc[w] = "send"
        /\ pushes \in [Messages \X Users \X Tokens -> Nat]
        /\ m \in Messages
        /\ u \in Users
    BY Untouched DEF TypeOK, CallsTypeOK, SendOne, SendFails, store
  <1>1. CASE pushes' = pushes
    BY <1>0, <1>1, Untouched DEF Promised, Stutters
  <1>2. CASE Delivered(w, t)
    <2>1. \A d \in Messages \X Users \X Tokens :
              pushes'[d] > 0 <=> pushes[d] > 0 \/ d = <<m, u, t>>
      BY <1>0, <1>2 DEF Delivered
    <2> DEFINE New == {d \in KeptRows \X Tokens : d[1] = k /\ d[2] = t}
    <2>2. Accepted' = Accepted \cup New
      <3>1. ASSUME NEW d \in Accepted'
            PROVE  d \in Accepted \cup New
        <4>1. PICK n \in Messages, v \in Users :
                  RowKey(n, v) = d[1] /\ pushes'[<<n, v, d[2]>>] > 0
          BY <3>1 DEF Accepted
        <4>2. d \in KeptRows \X Tokens
          BY <3>1 DEF Accepted
        <4>3. CASE pushes[<<n, v, d[2]>>] > 0
          BY <4>1, <4>2, <4>3 DEF Accepted
        <4>4. CASE <<n, v, d[2]>> = <<m, u, t>>
          BY <4>1, <4>2, <4>4 DEF KeyAt
        <4>5. QED
          BY <2>1, <4>1, <4>2, <4>3, <4>4
      <3>2. ASSUME NEW d \in Accepted
            PROVE  d \in Accepted'
        <4>1. PICK n \in Messages, v \in Users :
                  RowKey(n, v) = d[1] /\ pushes[<<n, v, d[2]>>] > 0
          BY <3>2 DEF Accepted
        <4>2. d \in KeptRows \X Tokens /\ pushes'[<<n, v, d[2]>>] > 0
          BY <2>1, <3>2, <4>1 DEF Accepted
        <4>3. QED
          BY <4>1, <4>2 DEF Accepted
      <3>3. ASSUME NEW d \in New
            PROVE  d \in Accepted'
        <4>1. RowKey(m, u) = d[1] /\ pushes'[<<m, u, d[2]>>] > 0
          BY <1>0, <2>1, <3>3 DEF KeyAt
        <4>2. QED
          BY <1>0, <3>3, <4>1 DEF Accepted
      <3>4. QED
        BY <3>1, <3>2, <3>3
    <2>3. CASE k \in KeptRows
      <3>1. k \in Noted /\ New = {<<k, t>>}
        BY <1>0, <2>3, Pushing
      <3>2. QED
        BY <1>0, <2>2, <2>3, <3>1 DEF Promised, Reaches
    <2>4. CASE k \notin KeptRows
      BY <1>0, <2>2, <2>4 DEF Promised, Stutters
    <2>5. QED
      BY <2>3, <2>4
  <1>3. QED
    BY <1>1, <1>2 DEF SendOne, SendFails

-----------------------------------------------------------------------------
LEMMA CompletePromised ==
    ASSUME TypeOK, WorkersOK, NEW w \in Workers, Served(w),
           Complete(w) \/ CompleteFails(w)
    PROVE  Promised
  <1> DEFINE m == MsgOf(w)
  <1>0. /\ UNCHANGED <<Noted, Accepted, Marked>>
        /\ pc[w] = "complete"
        /\ m \in Messages
        /\ acked' = acked \/ acked' = acked \cup {m}
    BY Untouched
       DEF TypeOK, CallsTypeOK, Complete, CompleteFails, Return, store
  <1>1. CASE claims' = claims /\ acked' = acked
    BY <1>0, <1>1, Untouched DEF Promised, Stutters
  <1>2. CASE CompleteClaim(IdAt(w), w)
    <2>1. Finished' = Finished \cup {m}
      BY <1>0, <1>2, CompleteProcesses DEF Finished
    <2>2. ASSUME NEW u \in Owed(m)
          PROVE  /\ RowKey(m, u) \in Noted
                 /\ KeptDevices[RowKey(m, u)] # {} => RowKey(m, u) \in Marked
      <3>1. u \in Users /\ u \in Recipients(m) /\ RowKey(m, u) \in KeptRows
        BY <1>0, OwedUsers DEF KeptRows
      <3>2. KeptDevices[RowKey(m, u)] \subseteq Steady(u)
        BY <1>0, <3>1, KeptOwner
      <3>3. Done(m, u)
        BY <1>0 DEF Served, Working
      <3>4. QED
        BY <3>1, <3>2, <3>3 DEF Done, HasRow, Noted, Marked
    <2>3. QED
      BY <1>0, <2>1, <2>2 DEF Promised, Finishes
  <1>3. QED
    BY <1>1, <1>2 DEF Complete, CompleteFails, Return

(* Calls that end without completing, and claims that change hands.        *)
LEMMA ClaimsPromised ==
    ASSUME TypeOK, WorkersOK, [Next]_vars,
           \/ \E id \in EventIds : LeaseExpires(id)
           \/ \E w \in Workers :
                 \/ Claim(w) \/ ReadClaimState(w) \/ Release(w) \/ Crash(w)
                 \/ ClaimFails(w) \/ ReleaseFails(w) \/ Overrun(w)
    PROVE  Promised
  <1>1. UNCHANGED <<Noted, Accepted, Marked>>
    BY Untouched
       DEF LeaseExpires, Claim, ReadClaimState, Release, Crash, ClaimFails,
           ReleaseFails, Overrun, store
  <1>2. UNCHANGED Finished
    <2>1. ASSUME NEW id \in EventIds,
                 \/ LeaseLapses(id)
                 \/ \E w \in Workers : \/ ReleaseClaim(id, w)
                                      \/ \E type \in EventTypes :
                                            AcquireClaim(id, type, w)
          PROVE  UNCHANGED Finished
      <3>1. \A m \in Messages : Processed(m)' <=> Processed(m)
        BY <2>1, ProcessedNext, OthersDoNotProcess
      <3>2. QED
        BY <3>1 DEF Finished
    <2>2. ASSUME NEW w \in Workers,
                 Claim(w) \/ ClaimFails(w) \/ Release(w) \/ Overrun(w)
          PROVE  UNCHANGED Finished
      <3>1. IdAt(w) \in EventIds /\ TypeOf[MsgOf(w)] \in EventTypes
        BY <2>2, MessagesAssumption
           DEF Claim, ClaimFails, Release, Overrun, Working, IdAt, TypeOK,
               CallsTypeOK
      <3>2. QED
        BY <2>1, <2>2, <3>1, Untouched
           DEF Claim, ClaimFails, Release, Overrun
    <2>3. QED
      BY <2>1, <2>2, Untouched
         DEF LeaseExpires, ReadClaimState, Crash, ReleaseFails
  <1>3. \/ acked' = acked
        \/ \E m \in Finished \cup (Poison \cap Messages) : acked' = acked \cup {m}
    <2>1. ASSUME NEW w \in Workers, ReadClaimState(w)
          PROVE  acked' = acked \/ \E m \in Finished : acked' = acked \cup {m}
      <3>1. MsgOf(w) \in Messages
        BY <2>1 DEF ReadClaimState, TypeOK, CallsTypeOK
      <3>2. AlreadyProcessed(IdAt(w), TypeOf[MsgOf(w)]) => MsgOf(w) \in Finished
        BY <3>1 DEF AlreadyProcessed, Processed, IdAt, Finished
      <3>3. QED
        BY <2>1, <3>2 DEF ReadClaimState, Return
    <2>2. ASSUME NEW w \in Workers, Release(w) \/ ReleaseFails(w)
          PROVE  acked' = acked \/ \E m \in Poison : acked' = acked \cup {m}
      BY <2>2 DEF Release, ReleaseFails, Return, WorkersOK, BlamesPoison
    <2>3. QED
      BY <2>1, <2>2, MessagesAssumption
         DEF LeaseExpires, Claim, Crash, ClaimFails, Overrun, Return
  <1>4. CASE acked' = acked
    BY <1>1, <1>2, <1>4 DEF Promised, Stutters
  <1>5. CASE \E m \in Finished \cup (Poison \cap Messages) :
                acked' = acked \cup {m}
    <2>1. Finished \subseteq Messages
      BY DEF Finished
    <2>2. \E m \in Messages : m \in Finished \cup Poison /\ acked' = acked \cup {m}
      BY <1>5, <2>1
    <2>3. QED
      BY <1>1, <1>2, <2>2 DEF Promised, Acknowledges
  <1>6. QED
    BY <1>3, <1>4, <1>5

(* A kept row's user stays, so no deletion of an account takes it away.    *)
LEMMA LeavePromised ==
    ASSUME TypeOK, NEW v \in Users, UserLeaves(v)
    PROVE  Promised
  <1>1. UNCHANGED <<Accepted, Finished, acked>>
    BY Untouched DEF UserLeaves
  <1>2. ASSUME NEW k \in KeptRows
        PROVE  k \in Keys /\ notifications'[k] = notifications[k]
    <2>0. PICK m \in Messages : \E u \in Owed(m) : k = RowKey(m, u)
      BY DEF KeptRows
    <2>1. PICK u \in Owed(m) : k = RowKey(m, u)
      BY <2>0
    <2>2. /\ u \in Users \ Leaving
          /\ u \in Recipients(m)
          /\ k \in Keys
      BY <2>1, OwedUsers
    <2>3. k \notin Inbox(v)
      BY <2>1, <2>2, InboxesDiffer DEF UserLeaves
    <2>4. QED
      BY <2>2, <2>3 DEF UserLeaves, CoreDeletes
  <1>3. UNCHANGED <<Noted, Marked>>
    BY <1>2 DEF Noted, Marked
  <1>4. QED
    BY <1>1, <1>3 DEF Promised, Stutters

LEMMA NextPromised ==
    ASSUME DeliveryInv, DoingInv, [Next]_vars
    PROVE  Promised
  <1>0. /\ TypeOK
        /\ WorkersOK
        /\ \A w \in Workers : Served(w) /\ Doing(w)
    BY DEF DeliveryInv, ClaimInv, ServedInv, DoingInv
  <1>1. CASE UNCHANGED <<claims, notifications, pushes, acked>>
    BY <1>1, Untouched DEF Promised, Stutters
  <1>2. ASSUME NEW w \in Workers, Step(w)
        PROVE  Promised
    <2>1. CASE \/ Resolve(w) \/ ListTokens(w) \/ DeleteGone(w)
               \/ \E u \in Users : RefusePayload(w, u) \/ CreateOrphan(w, u)
      BY <1>1, <2>1
         DEF Resolve, ListTokens, DeleteGone, RefusePayload, CreateOrphan, store
    <2>2. QED
      BY <1>0, <1>2, <2>1, CreatePromised, MarkPromised, SendPromised,
         CompletePromised, ClaimsPromised DEF Step
  <1>3. ASSUME NEW w \in Workers, Failure(w)
        PROVE  Promised
    <2>1. CASE ResolveFails(w) \/ ListFails(w) \/ DeleteFails(w)
      BY <1>1, <2>1 DEF ResolveFails, ListFails, DeleteFails, store
    <2>2. QED
      BY <1>0, <1>3, <2>1, CreatePromised, MarkPromised, SendPromised,
         CompletePromised, ClaimsPromised DEF Failure
  <1>4. CASE Environment
    <2>1. CASE \/ \E t \in Tokens, u \in Users : TokenMoves(t, u)
               \/ \E t \in Tokens : TokenDies(t)
               \/ \E u \in Users : SubscriptionChanges(u)
      BY <1>1, <2>1 DEF TokenMoves, TokenDies, SubscriptionChanges
    <2>2. QED
      BY <1>0, <1>4, <2>1, ClaimsPromised, LeavePromised DEF Environment
  <1>5. CASE UNCHANGED vars \/ \E w \in Workers, m \in Messages : Receive(w, m)
    BY <1>1, <1>5 DEF Receive, store, vars
  <1>6. QED
    BY <1>2, <1>3, <1>4, <1>5 DEF Next

(* The service keeps DeliveryPromise, for any number of workers, messages, *)
(* users, devices and faults.                                              *)
THEOREM PromiseKept == Spec => KeepsPromise
  <1>1. Init => Promise!Init
    <2> SUFFICES ASSUME Init PROVE Promise!Init
      OBVIOUS
    <2>1. \A k \in KeptRows : notifications[k] = "absent"
      BY OwedUsers DEF Init, KeptRows
    <2>2. Accepted = {}
      <3>1. \A m \in Messages, u \in Users, t \in Tokens :
                pushes[<<m, u, t>>] = 0
        BY DEF Init
      <3>2. ASSUME NEW d \in KeptRows \X Tokens, NEW m \in Messages,
                   NEW u \in Users
            PROVE  ~(pushes[<<m, u, d[2]>>] > 0)
        <4>1. d[2] \in Tokens
          OBVIOUS
        <4>2. pushes[<<m, u, d[2]>>] = 0
          BY <3>1, <4>1
        <4>3. QED
          BY <4>2
      <3>3. QED
        BY <3>2 DEF Accepted
    <2>3. \A m \in Messages : ~Processed(m)
      BY MessagesAssumption DEF Init, ClaimsInit, Processed, Recorded
    <2>4. acked = {}
      BY DEF Init
    <2>5. QED
      BY <2>1, <2>2, <2>3, <2>4 DEF Promise!Init
  <1>2. DeliveryInv /\ DoingInv /\ [Next]_vars => [Promise!Next]_(Promise!promise)
    BY NextPromised, PromisedIsNext
  <1>3. QED
    BY <1>1, <1>2, PushInvariant, PTL DEF Spec, KeepsPromise, Promise!Spec
=============================================================================
