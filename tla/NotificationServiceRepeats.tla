---------------------- MODULE NotificationServiceRepeats ----------------------
(***************************************************************************)
(* A device is pushed a message once, and once more at most for each       *)
(* attempt that was cut short; and only by calls whose message is for its  *)
(* owner.                                                                  *)
(***************************************************************************)
EXTENDS NotificationServicePromise, LiveReads, FiniteSetTheorems

(* A call is late only while it works, has a failed send only while it     *)
(* sends, and serves one of the recipients it has left, whose row it found *)
(* or created; the row is gone only when the recipient is.                 *)
Orderly(w) ==
    /\ pc[w] \notin Working => ~call[w].late
    /\ call[w].failed => pc[w] = "send"
    /\ pc[w] \in {"list", "send", "mark"} =>
           /\ call[w].rcpt \in call[w].todo
           /\ notifications[KeyAt(w)] # "absent" \/ call[w].rcpt \in deleted

OrderlyInv == \A w \in Workers : Orderly(w)

(* The rows of a deleted user do not come back.                            *)
RowsGone ==
    \A m \in Messages : \A u \in Recipients(m) \cap deleted :
        notifications[RowKey(m, u)] = "absent"

(* Nothing is pushed to those a message is not for.                        *)
NoStrangers ==
    \A m \in Messages, u \in Users, t \in Tokens :
        u \notin Recipients(m) => pushes[<<m, u, t>>] = 0

-----------------------------------------------------------------------------
(* What a worker leaves behind when a recipient, or the call, is done.     *)
LEMMA FinishEffect ==
    ASSUME TypeOK, NEW w \in Workers, NEW u, NEW errors,
           FinishRecipient(w, u, errors)
    PROVE  /\ pc'[w] \in {"create", "complete", "release"}
           /\ call'[w].msg = MsgOf(w)
           /\ call'[w].todo = call[w].todo \ {u}
           /\ call'[w].late = call[w].late
           /\ call'[w].failed = FALSE
  <1> DEFINE next == [NoCall EXCEPT !.msg = MsgOf(w),
                                    !.todo = call[w].todo \ {u},
                                    !.errs = call[w].errs \cup errors,
                                    !.late = call[w].late]
  <1>0. call \in [Workers -> Calls] /\ pc \in [Workers -> Phases]
    BY DEF TypeOK, CallsTypeOK
  <1>1. call'[w] = next
    BY <1>0 DEF FinishRecipient
  <1>2. /\ next.msg = MsgOf(w)
        /\ next.todo = call[w].todo \ {u}
        /\ next.late = call[w].late
        /\ next.failed = FALSE
    BY DEF NoCall
  <1>3. pc'[w] \in {"create", "complete", "release"}
    BY <1>0 DEF FinishRecipient, GoTo
  <1>4. QED
    BY <1>1, <1>2, <1>3

LEMMA ReturnEffect ==
    ASSUME TypeOK, NEW w \in Workers, NEW ack, Return(w, ack)
    PROVE  pc'[w] = "idle" /\ ~call'[w].late /\ ~call'[w].failed
  <1>1. pc'[w] = "idle" /\ call'[w] = NoCall
    BY DEF Return, GoTo, TypeOK, CallsTypeOK
  <1>2. ~NoCall.late /\ ~NoCall.failed
    BY DEF NoCall
  <1>3. QED
    BY <1>1, <1>2

(* Rows disappear only with their user.                                    *)
LEMMA RowsKept ==
    ASSUME TypeOK, [Next]_vars, NEW m \in Messages, NEW u \in Recipients(m)
    PROVE  /\ u \in deleted => u \in deleted'
           /\ notifications[RowKey(m, u)] = "pushed" =>
                  notifications'[RowKey(m, u)] = "pushed" \/ u \in deleted'
           /\ notifications[RowKey(m, u)] # "absent" =>
                  notifications'[RowKey(m, u)] # "absent" \/ u \in deleted'
  <1>1. u \in Users /\ RowKey(m, u) \in Keys
    BY MessagesAssumption DEF Recipients
  <1>2. TypeOK'
    BY NextType
  <1>3. RowKey(m, u) \in Erased' => u \in deleted'
    <2> SUFFICES ASSUME NEW v \in deleted', RowKey(m, u) \in Inbox(v)
                 PROVE  u \in deleted'
      BY DEF Erased
    <2>1. v \in Users
      BY <1>2 DEF TypeOK, StoreTypeOK
    <2>2. QED
      BY <2>1, InboxesDiffer
  <1>4. deleted \subseteq deleted'
    BY DEF Next, Environment, LeaseExpires, TokenMoves, TokenDies, UserLeaves,
           CoreDeletes, SubscriptionChanges, Receive, Step, Claim,
           ReadClaimState, Resolve, RefusePayload, Create, CreateOrphan,
           ListTokens, SendOne, DeleteGone, MarkPushed, Complete, Release,
           Failure, Crash, ClaimFails, ResolveFails, CreateFails, ListFails,
           SendFails, DeleteFails, MarkFails, CompleteFails, ReleaseFails,
           Overrun, store, vars
  <1>5. QED
    BY <1>1, <1>3, <1>4, RowsNext DEF RowsGrow

-----------------------------------------------------------------------------
LEMMA OrderlyRests ==
    ASSUME TypeOK, DoingInv, [Next]_vars, NEW v \in Workers, Orderly(v),
           pc'[v] = pc[v],
           call'[v].msg = call[v].msg,
           call'[v].todo = call[v].todo,
           call'[v].rcpt = call[v].rcpt,
           call'[v].failed => call[v].failed \/ pc[v] = "send",
           call'[v].late => call[v].late \/ pc[v] \in Working
    PROVE  Orderly(v)'
  <1>1. KeyAt(v)' = KeyAt(v)
    BY DEF KeyAt, MsgOf
  <1>2. CASE pc[v] \notin {"list", "send", "mark"}
    BY <1>2 DEF Orderly
  <1>3. CASE pc[v] \in {"list", "send", "mark"}
    <2>1. MsgOf(v) \in Messages /\ call[v].rcpt \in Recipients(MsgOf(v))
      BY <1>3 DEF TypeOK, CallsTypeOK, DoingInv, Doing
    <2>2. notifications'[KeyAt(v)] # "absent" \/ call[v].rcpt \in deleted'
      BY <1>3, <2>1, RowsKept DEF Orderly, KeyAt
    <2>3. QED
      BY <1>1, <1>3, <2>2 DEF Orderly, Working
  <1>4. QED
    BY <1>2, <1>3

LEMMA OrderlyStep ==
    ASSUME TypeOK, DoingInv, NEW w \in Workers, Orderly(w),
           Step(w) \/ Failure(w)
    PROVE  Orderly(w)'
  <1>0. /\ call \in [Workers -> Calls]
        /\ pc \in [Workers -> Phases]
        /\ [Next]_vars
        /\ KeyAt(w) = RowKey(MsgOf(w), call[w].rcpt)
    BY DEF TypeOK, CallsTypeOK, Next, KeyAt
  <1>1. ASSUME NEW ack, Return(w, ack)
        PROVE  Orderly(w)'
    BY <1>1, ReturnEffect DEF Orderly
  <1>2. ASSUME NEW u, NEW errors, FinishRecipient(w, u, errors)
        PROVE  Orderly(w)'
    BY <1>2, FinishEffect DEF Orderly, Working
  <1>3. CASE \/ ReadClaimState(w) \/ Complete(w) \/ Release(w) \/ Crash(w)
             \/ ClaimFails(w) \/ CompleteFails(w) \/ ReleaseFails(w)
    BY <1>1, <1>3 DEF ReadClaimState, Complete, Release, Crash, ClaimFails,
                      CompleteFails, ReleaseFails
  <1>4. CASE Claim(w) \/ Resolve(w) \/ ResolveFails(w)
    <2>1. /\ pc'[w] \in {"create", "resolve", "state", "complete", "release"}
          /\ ~call'[w].failed
          /\ call'[w].late => pc'[w] \in Working
      BY <1>0, <1>4 DEF Claim, Resolve, ResolveFails, GoTo, Orderly, Calls,
                        Working
    <2>2. QED
      BY <2>1 DEF Orderly
  <1>5. ASSUME NEW u \in Users, Create(w, u), GoTo(w, "list"),
               call' = [call EXCEPT ![w].rcpt = u]
        PROVE  Orderly(w)'
    <2>1. /\ pc'[w] = "list"
          /\ call'[w].rcpt = u
          /\ u \in call'[w].todo
          /\ call'[w].msg = MsgOf(w)
          /\ ~call'[w].failed
      BY <1>0, <1>5 DEF GoTo, Create, Orderly, Calls, MsgOf
    <2>2. RowKey(MsgOf(w), u) \in Keys
      BY <1>5, MessagesAssumption DEF Create, TypeOK, CallsTypeOK
    <2>3. notifications'[RowKey(MsgOf(w), u)] # "absent"
      BY <1>5, <2>2 DEF Create, CreateRow, TypeOK, StoreTypeOK
    <2>4. KeyAt(w)' = RowKey(MsgOf(w), u)
      BY <2>1 DEF KeyAt, MsgOf
    <2>5. QED
      BY <2>1, <2>3, <2>4 DEF Orderly, Working
  <1>6. CASE \E u \in Users : \/ RefusePayload(w, u) \/ Create(w, u)
                              \/ CreateOrphan(w, u) \/ CreateFails(w, u)
    BY <1>2, <1>5, <1>6 DEF RefusePayload, Create, CreateOrphan, CreateFails
  <1>7. CASE ListFails(w) \/ DeleteFails(w) \/ MarkPushed(w) \/ MarkFails(w)
    BY <1>2, <1>7 DEF ListFails, DeleteFails, MarkPushed, MarkFails
  <1>8. CASE ListTokens(w) \/ DeleteGone(w)
    <2>1. ASSUME pc'[w] \in {"send", "mark"},
                 call'[w].msg = MsgOf(w),
                 call'[w].todo = call[w].todo,
                 call'[w].rcpt = call[w].rcpt,
                 ~call'[w].failed
          PROVE  Orderly(w)'
      <3>1. KeyAt(w)' = KeyAt(w)
        BY <2>1 DEF KeyAt, MsgOf
      <3>2. notifications' = notifications /\ deleted' = deleted
        BY <1>8 DEF ListTokens, DeleteGone, store
      <3>3. pc[w] \in {"list", "send"}
        BY <1>8 DEF ListTokens, DeleteGone
      <3>4. QED
        BY <2>1, <3>1, <3>2, <3>3 DEF Orderly, Working
    <2>2. CASE ListTokens(w)
      BY <1>0, <1>2, <2>1, <2>2 DEF ListTokens, GoTo, Orderly, Calls, MsgOf
    <2>3. CASE DeleteGone(w)
      BY <1>0, <1>2, <2>1, <2>3 DEF DeleteGone, GoTo, MsgOf
    <2>4. QED
      BY <1>8, <2>2, <2>3
  <1>9. CASE (\E t \in Tokens : SendOne(w, t) \/ SendFails(w, t)) \/ Overrun(w)
    <2>1. /\ pc'[w] = pc[w]
          /\ call'[w].msg = call[w].msg
          /\ call'[w].todo = call[w].todo
          /\ call'[w].rcpt = call[w].rcpt
      <3>1. ASSUME NEW t \in Tokens, SendOne(w, t)
            PROVE  /\ pc'[w] = pc[w]
                   /\ call'[w].msg = call[w].msg
                   /\ call'[w].todo = call[w].todo
                   /\ call'[w].rcpt = call[w].rcpt
        BY <1>0, <3>1 DEF SendOne, Calls
      <3>2. ASSUME NEW t \in Tokens, SendFails(w, t)
            PROVE  /\ pc'[w] = pc[w]
                   /\ call'[w].msg = call[w].msg
                   /\ call'[w].todo = call[w].todo
                   /\ call'[w].rcpt = call[w].rcpt
        BY <1>0, <3>2 DEF SendFails, Calls
      <3>3. CASE Overrun(w)
        BY <1>0, <3>3 DEF Overrun, Calls
      <3>4. QED
        BY <1>0, <1>9, <3>1, <3>2, <3>3
    <2>2. /\ call'[w].failed => call[w].failed \/ pc[w] = "send"
          /\ call'[w].late => call[w].late \/ pc[w] \in Working
      BY <1>0, <1>9 DEF SendOne, SendFails, Overrun, Calls, Working
    <2>3. QED
      BY <1>0, <2>1, <2>2, OrderlyRests
  <1>10. QED
    BY <1>3, <1>4, <1>6, <1>7, <1>8, <1>9 DEF Step, Failure

LEMMA OrderlyNext ==
    ASSUME TypeOK, DoingInv, OrderlyInv, [Next]_vars
    PROVE  OrderlyInv'
  <1>1. ASSUME NEW v \in Workers, pc'[v] = pc[v], call'[v] = call[v]
        PROVE  Orderly(v)'
    BY <1>1, OrderlyRests DEF OrderlyInv
  <1>2. ASSUME NEW w \in Workers, Step(w) \/ Failure(w), NEW v \in Workers
        PROVE  Orderly(v)'
    BY <1>1, <1>2, OrderlyStep, StepRests DEF OrderlyInv, OthersRest
  <1>3. ASSUME NEW w \in Workers, NEW m \in Messages, Receive(w, m),
               NEW v \in Workers
        PROVE  Orderly(v)'
    <2>0. call \in [Workers -> Calls] /\ pc \in [Workers -> Phases]
      BY DEF TypeOK, CallsTypeOK
    <2>1. CASE v = w
      <3>1. pc[w] = "idle" /\ pc'[w] = "claim"
        BY <1>3, <2>0 DEF Receive, GoTo
      <3>2. call'[w].late = call[w].late /\ call'[w].failed = call[w].failed
        BY <1>3, <2>0 DEF Receive, Calls
      <3>3. QED
        BY <2>1, <3>1, <3>2 DEF Orderly, OrderlyInv, Working
    <2>2. CASE v # w
      BY <1>1, <1>3, <2>0, <2>2 DEF Receive, GoTo
    <2>3. QED
      BY <2>1, <2>2
  <1>4. CASE Environment \/ UNCHANGED vars
    BY <1>1, <1>4
       DEF Environment, LeaseExpires, TokenMoves, TokenDies,
           SubscriptionChanges, UserLeaves, vars, OrderlyInv
  <1>5. QED
    BY <1>2, <1>3, <1>4 DEF Next, OrderlyInv

LEMMA RowsGoneNext ==
    ASSUME TypeOK, DoingInv, RowsGone, [Next]_vars
    PROVE  RowsGone'
  <1> SUFFICES ASSUME NEW m \in Messages, NEW u \in Recipients(m), u \in deleted'
               PROVE  notifications'[RowKey(m, u)] = "absent"
    BY DEF RowsGone
  <1> DEFINE k == RowKey(m, u)
  <1>0. /\ u \in Users
        /\ k \in Keys
        /\ notifications \in [Keys -> RowStates]
    BY MessagesAssumption DEF Recipients, TypeOK, StoreTypeOK
  <1>1. ASSUME NEW v \in Users, UserLeaves(v)
        PROVE  notifications'[k] = "absent"
    <2>1. CASE u = v
      BY <1>0, <1>1, <2>1 DEF UserLeaves, CoreDeletes, Inbox
    <2>2. CASE u # v
      BY <1>0, <1>1, <2>2 DEF UserLeaves, CoreDeletes, RowsGone
    <2>3. QED
      BY <2>1, <2>2
  <1>2. ASSUME deleted' = deleted,
               notifications' = notifications
                   \/ \E i : MarkRowPushed(i)
        PROVE  notifications'[k] = "absent"
    BY <1>0, <1>2 DEF RowsGone, MarkRowPushed
  <1>3. ASSUME NEW w \in Workers, NEW v \in Users, pc[w] = "create",
               v \in call[w].todo, Insertable(MsgOf(w), v),
               CreateRow(RowKey(MsgOf(w), v)), deleted' = deleted
        PROVE  notifications'[k] = "absent"
    <2>1. notifications[k] = "absent"
      BY <1>3 DEF RowsGone
    <2>2. CASE RowKey(MsgOf(w), v) # k
      BY <1>0, <1>3, <2>1, <2>2 DEF CreateRow
    <2>3. CASE RowKey(MsgOf(w), v) = k
      <3>1. MsgOf(w) \in Messages /\ v \in Recipients(MsgOf(w))
        BY <1>3 DEF TypeOK, CallsTypeOK, DoingInv, Doing, Working
      <3>2. u = v
        BY <1>3, <2>3, <3>1, InboxesDiffer DEF Inbox
      <3>3. v \notin deleted
        BY <1>3, <2>1, <2>3 DEF Insertable, ForeignKeysHold
      <3>4. QED
        BY <1>3, <3>2, <3>3
    <2>4. QED
      BY <2>2, <2>3
  <1>4. CASE Environment \/ UNCHANGED vars
             \/ \E w \in Workers, n \in Messages : Receive(w, n)
    BY <1>1, <1>2, <1>4
       DEF Environment, LeaseExpires, TokenMoves, TokenDies,
           SubscriptionChanges, Receive, store, vars
  <1>5. ASSUME NEW w \in Workers, Step(w) \/ Failure(w)
        PROVE  notifications'[k] = "absent"
    BY <1>2, <1>3, <1>5
       DEF Step, Claim, ReadClaimState, Resolve, RefusePayload, Create,
           CreateOrphan, ListTokens, SendOne, DeleteGone, MarkPushed, Complete,
           Release, Failure, Crash, ClaimFails, ResolveFails, CreateFails,
           ListFails, SendFails, DeleteFails, MarkFails, CompleteFails,
           ReleaseFails, Overrun, store
  <1>6. QED
    BY <1>4, <1>5 DEF Next

(* Pushes are made by calls that serve the user they are for.              *)
LEMMA PushedBy ==
    ASSUME TypeOK, [Next]_vars, pushes' # pushes
    PROVE  \E w \in Workers, t \in Tokens :
               /\ SendOne(w, t) \/ SendFails(w, t)
               /\ Delivered(w, t)
  <1>1. ~Environment /\ ~UNCHANGED vars
    BY DEF Environment, LeaseExpires, TokenMoves, TokenDies, UserLeaves,
           SubscriptionChanges, vars
  <1>2. \A w \in Workers, m \in Messages : ~Receive(w, m)
    BY DEF Receive
  <1>3. PICK w \in Workers : Step(w) \/ Failure(w)
    BY <1>1, <1>2 DEF Next
  <1>4. CASE Step(w)
    <2>1. \E t \in Tokens : SendOne(w, t)
      BY <1>4 DEF Step, Claim, ReadClaimState, Resolve, RefusePayload, Create,
                  CreateOrphan, ListTokens, DeleteGone, MarkPushed, Complete,
                  Release
    <2>2. QED
      BY <2>1 DEF SendOne
  <1>5. CASE Failure(w)
    <2>1. \E t \in Tokens : SendFails(w, t)
      BY <1>5 DEF Failure, Crash, ClaimFails, ResolveFails, CreateFails,
                  ListFails, DeleteFails, MarkFails, CompleteFails,
                  ReleaseFails, Overrun
    <2>2. QED
      BY <2>1 DEF SendFails
  <1>6. QED
    BY <1>3, <1>4, <1>5

LEMMA NoStrangersNext ==
    ASSUME TypeOK, DoingInv, NoStrangers, [Next]_vars
    PROVE  NoStrangers'
  <1>1. CASE pushes' = pushes
    BY <1>1 DEF NoStrangers
  <1>2. CASE pushes' # pushes
    <2>1. PICK w \in Workers, t \in Tokens :
              pc[w] = "send" /\ Delivered(w, t)
      BY <1>2, PushedBy DEF SendOne, SendFails
    <2>2. call[w].rcpt \in Recipients(MsgOf(w))
      BY <2>1 DEF DoingInv, Doing
    <2>3. QED
      BY <2>1, <2>2 DEF Delivered, NoStrangers, TypeOK
  <1>3. QED
    BY <1>1, <1>2

-----------------------------------------------------------------------------
(* The account of message m, user u and token t.  A late call that may     *)
(* still push them is a credit: its lease ran out, and that was counted.   *)
MayPush(w, m, u, t) ==
    /\ MsgOf(w) = m
    /\ \/ pc[w] = "resolve"
       \/ pc[w] \in {"create", "list"} /\ u \in call[w].todo
       \/ /\ pc[w] = "send"
          /\ u \in call[w].todo
          /\ call[w].rcpt = u => t \in call[w].devices
       \/ pc[w] = "mark" /\ u \in call[w].todo /\ call[w].rcpt # u

Credit(w, m, u, t) == call[w].late /\ MayPush(w, m, u, t)

Credits(m, u, t) == {w \in Workers : Credit(w, m, u, t)}

(* Pushes made, and pushes that late calls may still make.                 *)
Owing(m, u, t) == pushes[<<m, u, t>>] + Cardinality(Credits(m, u, t))

(* Calls whose lease has not run out; ClaimExclusive: one for a message.   *)
Prompt(w, m) == pc[w] \in Working /\ ~call[w].late /\ MsgOf(w) = m

(* w is about to push, and would push without being disturbed.             *)
Pending(w, m, u, t) ==
    /\ Prompt(w, m)
    /\ call[w].rcpt = u
    /\ pc[w] = "list" \/ (pc[w] = "send" /\ t \in call[w].devices)

(* w goes on to MarkPushed unless it is disturbed.                         *)
Serving(w, m, u) ==
    /\ Prompt(w, m)
    /\ pc[w] \in {"send", "mark"}
    /\ call[w].rcpt = u
    /\ ~call[w].failed

(* No call comes to push u again: pushed_at is set, or u is gone.          *)
Closed(m, u) == notifications[RowKey(m, u)] = "pushed" \/ u \in deleted

(* The push that nobody pays for was made by a call that is on its way to  *)
(* MarkPushed, or the row is closed; before it, all are paid for.          *)
Paid(m, u, t) ==
    /\ IsFiniteSet(Credits(m, u, t))
    /\ Owing(m, u, t) <= disrupted[<<m, u>>] + 1
    /\ \/ Owing(m, u, t) <= disrupted[<<m, u>>]
       \/ Closed(m, u)
       \/ \E w \in Workers : Serving(w, m, u)
    /\ \A w \in Workers : Pending(w, m, u, t) =>
           /\ Owing(m, u, t) <= disrupted[<<m, u>>]
           /\ call[w].failed => Owing(m, u, t) + 1 <= disrupted[<<m, u>>]

PaidInv ==
    \A m \in Messages : \A u \in Recipients(m), t \in Tokens : Paid(m, u, t)

-----------------------------------------------------------------------------
LEMMA CountLess ==
    ASSUME NEW S, NEW T, IsFiniteSet(S), T \subseteq S
    PROVE  /\ IsFiniteSet(T)
           /\ Cardinality(S) \in Nat
           /\ Cardinality(T) \in Nat
           /\ Cardinality(T) <= Cardinality(S)
  BY FS_Subset, FS_CardinalityType

LEMMA CountOneMore ==
    ASSUME NEW S, NEW T, NEW x, IsFiniteSet(S), T \subseteq S \cup {x}
    PROVE  /\ IsFiniteSet(T)
           /\ Cardinality(S) \in Nat
           /\ Cardinality(T) \in Nat
           /\ Cardinality(T) <= Cardinality(S) + 1
  <1>1. /\ IsFiniteSet(S \cup {x})
        /\ Cardinality(S) \in Nat
        /\ Cardinality(S \cup {x}) <= Cardinality(S) + 1
    <2>1. /\ IsFiniteSet(S \cup {x})
          /\ Cardinality(S \cup {x}) =
                 IF x \in S THEN Cardinality(S) ELSE Cardinality(S) + 1
      BY FS_AddElement
    <2>2. Cardinality(S) \in Nat
      BY FS_CardinalityType
    <2>3. QED
      BY <2>1, <2>2
  <1>2. QED
    BY <1>1, CountLess

LEMMA CountOneLess ==
    ASSUME NEW S, NEW T, NEW x \in S, IsFiniteSet(S), T \subseteq S \ {x}
    PROVE  /\ IsFiniteSet(T)
           /\ Cardinality(S) \in Nat
           /\ Cardinality(T) \in Nat
           /\ Cardinality(T) + 1 <= Cardinality(S)
  <1>1. /\ IsFiniteSet(S \ {x})
        /\ Cardinality(S) \in Nat
        /\ Cardinality(S \ {x}) = Cardinality(S) - 1
    <2>1. /\ IsFiniteSet(S \ {x})
          /\ Cardinality(S \ {x}) =
                 IF x \in S THEN Cardinality(S) - 1 ELSE Cardinality(S)
      BY FS_RemoveElement
    <2>2. Cardinality(S) \in Nat
      BY FS_CardinalityType
    <2>3. QED
      BY <2>1, <2>2
  <1>2. QED
    BY <1>1, CountLess

(* What a step of v that pushes nothing may do to an account.              *)
Calm(v, m, u, t) ==
    /\ Credit(v, m, u, t)' => Credit(v, m, u, t)
    /\ Pending(v, m, u, t)' =>
           /\ Pending(v, m, u, t)
           /\ call'[v].failed => call[v].failed \/ disrupted'[<<m, u>>] > disrupted[<<m, u>>]
    /\ Serving(v, m, u) => \/ Serving(v, m, u)'
                           \/ Closed(m, u)'
                           \/ disrupted'[<<m, u>>] > disrupted[<<m, u>>]

LEMMA OwingKept ==
    ASSUME TypeOK, TypeOK',
           NEW m \in Messages, NEW u \in Users, NEW t \in Tokens, Paid(m, u, t),
           pushes'[<<m, u, t>>] = pushes[<<m, u, t>>],
           Credits(m, u, t)' \subseteq Credits(m, u, t)
    PROVE  /\ IsFiniteSet(Credits(m, u, t)')
           /\ Owing(m, u, t) \in Nat
           /\ Owing(m, u, t)' \in Nat
           /\ Owing(m, u, t)' <= Owing(m, u, t)
  <1> DEFINE S == Credits(m, u, t)
  <1>1. pushes[<<m, u, t>>] \in Nat
    BY DEF TypeOK
  <1>2. /\ IsFiniteSet(S')
        /\ Cardinality(S) \in Nat
        /\ Cardinality(S') \in Nat
        /\ Cardinality(S') <= Cardinality(S)
    BY CountLess DEF Paid
  <1>3. QED
    BY <1>1, <1>2 DEF Owing

LEMMA CalmKeeps ==
    ASSUME TypeOK, TypeOK',
           NEW m \in Messages, NEW u \in Users, NEW t \in Tokens, Paid(m, u, t),
           IsFiniteSet(Credits(m, u, t)'),
           Owing(m, u, t) \in Nat,
           Owing(m, u, t)' \in Nat,
           Owing(m, u, t)' <= Owing(m, u, t),
           disrupted'[<<m, u>>] >= disrupted[<<m, u>>],
           Closed(m, u) => Closed(m, u)',
           \A v \in Workers : Calm(v, m, u, t)
    PROVE  Paid(m, u, t)'
  <1>0. disrupted[<<m, u>>] \in Nat /\ disrupted'[<<m, u>>] \in Nat
    BY DEF TypeOK
  <1>1. Owing(m, u, t)' <= disrupted'[<<m, u>>] + 1
    BY <1>0 DEF Paid
  <1>2. \/ Owing(m, u, t)' <= disrupted'[<<m, u>>]
        \/ Closed(m, u)'
        \/ \E w \in Workers : Serving(w, m, u)'
    <2>1. CASE Owing(m, u, t) <= disrupted[<<m, u>>] \/ disrupted'[<<m, u>>] > disrupted[<<m, u>>]
      BY <1>0, <2>1 DEF Paid
    <2>2. CASE Closed(m, u)
      BY <2>2
    <2>3. ASSUME NEW w \in Workers, Serving(w, m, u)
          PROVE  Serving(w, m, u)' \/ Closed(m, u)' \/ disrupted'[<<m, u>>] > disrupted[<<m, u>>]
      BY <2>3 DEF Calm
    <2>4. QED
      BY <2>1, <2>2, <2>3 DEF Paid
  <1>3. ASSUME NEW w \in Workers, Pending(w, m, u, t)'
        PROVE  /\ Owing(m, u, t)' <= disrupted'[<<m, u>>]
               /\ call'[w].failed => Owing(m, u, t)' + 1 <= disrupted'[<<m, u>>]
    <2>1. /\ Pending(w, m, u, t)
          /\ call'[w].failed => call[w].failed \/ disrupted'[<<m, u>>] > disrupted[<<m, u>>]
      BY <1>3 DEF Calm
    <2>2. /\ Owing(m, u, t) <= disrupted[<<m, u>>]
          /\ call[w].failed => Owing(m, u, t) + 1 <= disrupted[<<m, u>>]
      BY <2>1 DEF Paid
    <2>3. QED
      BY <1>0, <2>1, <2>2
  <1>4. QED
    BY <1>1, <1>2, <1>3 DEF Paid

-----------------------------------------------------------------------------
(* Every step but Overrun, and the step of a prompt call that turns to u,  *)
(* is calm.                                                                *)
LEMMA CalmRests ==
    ASSUME NEW v \in Workers, pc'[v] = pc[v], call'[v] = call[v],
           NEW m, NEW u, NEW t
    PROVE  Calm(v, m, u, t)
  BY DEF Calm, Credit, MayPush, Pending, Serving, Prompt, MsgOf

LEMMA CalmElsewhere ==
    ASSUME NEW w \in Workers, call'[w].msg = MsgOf(w),
           NEW m, NEW u, NEW t, MsgOf(w) # m
    PROVE  Calm(w, m, u, t)
  BY DEF Calm, Credit, MayPush, Pending, Serving, Prompt, MsgOf

LEMMA CalmFinish ==
    ASSUME TypeOK, NEW w \in Workers, NEW r, NEW errors,
           FinishRecipient(w, r, errors),
           pc[w] \in {"create", "list", "send", "mark"},
           pc[w] # "create" => r = call[w].rcpt,
           NEW m, NEW u, NEW t,
           Serving(w, m, u) =>
               Closed(m, u)' \/ disrupted'[<<m, u>>] > disrupted[<<m, u>>]
    PROVE  Calm(w, m, u, t)
  <1>1. /\ pc'[w] \in {"create", "complete", "release"}
        /\ call'[w].msg = MsgOf(w)
        /\ call'[w].todo = call[w].todo \ {r}
        /\ call'[w].late = call[w].late
    BY FinishEffect
  <1>2. Credit(w, m, u, t)' => Credit(w, m, u, t)
    BY <1>1 DEF Credit, MayPush, MsgOf
  <1>3. ~Pending(w, m, u, t)'
    BY <1>1 DEF Pending
  <1>4. QED
    BY <1>2, <1>3 DEF Calm

LEMMA CalmReturn ==
    ASSUME TypeOK, NEW w \in Workers, NEW ack, Return(w, ack),
           NEW m, NEW u, NEW t,
           Serving(w, m, u) => disrupted'[<<m, u>>] > disrupted[<<m, u>>]
    PROVE  Calm(w, m, u, t)
  BY ReturnEffect DEF Calm, Credit, Pending, Prompt, Working

LEMMA FaultCosts ==
    ASSUME TypeOK, NEW w \in Workers, NEW cut, Fault(w, cut),
           NEW u \in Users, u \in cut, MsgOf(w) \in Messages
    PROVE  disrupted'[<<MsgOf(w), u>>] > disrupted[<<MsgOf(w), u>>]
  BY DEF Fault, TypeOK

(* A fault mid-push is counted for the user a prompt call serves, unless   *)
(* it is not the first.                                                    *)
LEMMA MidPushCosts ==
    ASSUME TypeOK, NEW w \in Workers, Fault(w, MidPush(w)),
           pc[w] \in {"send", "mark"}, ~call[w].late, ~call[w].failed,
           NEW m \in Messages, NEW u \in Users, MsgOf(w) = m, call[w].rcpt = u
    PROVE  disrupted'[<<m, u>>] > disrupted[<<m, u>>]
  <1>1. u \in MidPush(w)
    BY DEF MidPush
  <1>2. QED
    BY <1>1, FaultCosts

LEMMA DisruptedGrows ==
    ASSUME TypeOK, [Next]_vars, NEW m \in Messages, NEW u \in Users
    PROVE  disrupted'[<<m, u>>] >= disrupted[<<m, u>>]
  <1>1. CASE disrupted' = disrupted
    BY <1>1 DEF TypeOK
  <1>2. ASSUME NEW w \in Workers, NEW cut, Fault(w, cut)
        PROVE  disrupted'[<<m, u>>] >= disrupted[<<m, u>>]
    BY <1>2 DEF Fault, TypeOK
  <1>3. QED
    BY <1>1, <1>2
       DEF Next, Environment, LeaseExpires, TokenMoves, TokenDies, UserLeaves,
           SubscriptionChanges, Receive, Step, Claim, ReadClaimState, Resolve,
           RefusePayload, Create, CreateOrphan, ListTokens, SendOne, DeleteGone,
           MarkPushed, Complete, Release, Failure, Crash, ClaimFails,
           ResolveFails, CreateFails, ListFails, SendFails, DeleteFails,
           MarkFails, CompleteFails, ReleaseFails, Overrun, vars

(* The end of a call, or of a recipient.                                   *)
LEMMA CalmEnd ==
    ASSUME TypeOK, NEW w \in Workers, Orderly(w),
           NEW m \in Messages, NEW u \in Users, NEW t \in Tokens,
           \/ ReadClaimState(w) \/ Complete(w) \/ Release(w) \/ Crash(w)
           \/ ClaimFails(w) \/ CompleteFails(w) \/ ReleaseFails(w)
           \/ \E v \in Users : RefusePayload(w, v) \/ CreateOrphan(w, v)
                                   \/ CreateFails(w, v)
           \/ ListFails(w) \/ DeleteFails(w) \/ MarkPushed(w) \/ MarkFails(w)
    PROVE  Calm(w, m, u, t)
  <1>1. CASE \/ ReadClaimState(w) \/ Complete(w) \/ Release(w)
             \/ ClaimFails(w) \/ CompleteFails(w) \/ ReleaseFails(w)
    <2>1. ~Serving(w, m, u)
      BY <1>1 DEF ReadClaimState, Complete, Release, ClaimFails, CompleteFails,
                  ReleaseFails, Serving
    <2>2. QED
      BY <1>1, <2>1, CalmReturn
         DEF ReadClaimState, Complete, Release, ClaimFails, CompleteFails,
             ReleaseFails
  <1>2. CASE Crash(w)
    <2>1. Serving(w, m, u) => disrupted'[<<m, u>>] > disrupted[<<m, u>>]
      BY <1>2, MidPushCosts DEF Crash, Serving, Prompt
    <2>2. QED
      BY <1>2, <2>1, CalmReturn DEF Crash
  <1>3. CASE \E v \in Users : RefusePayload(w, v) \/ CreateOrphan(w, v)
                                  \/ CreateFails(w, v)
    <2>1. ~Serving(w, m, u)
      BY <1>3 DEF RefusePayload, CreateOrphan, CreateFails, Serving
    <2>2. QED
      BY <1>3, <2>1, CalmFinish DEF RefusePayload, CreateOrphan, CreateFails
  <1>4. CASE ListFails(w)
    <2>1. ~Serving(w, m, u)
      BY <1>4 DEF ListFails, Serving
    <2>2. QED
      BY <1>4, <2>1, CalmFinish DEF ListFails
  <1>5. CASE DeleteFails(w) \/ MarkFails(w)
    <2>1. Serving(w, m, u) => disrupted'[<<m, u>>] > disrupted[<<m, u>>]
      BY <1>5, MidPushCosts DEF DeleteFails, MarkFails, Serving, Prompt
    <2>2. QED
      BY <1>5, <2>1, CalmFinish DEF DeleteFails, MarkFails
  <1>6. CASE MarkPushed(w)
    <2>1. ASSUME Serving(w, m, u)
          PROVE  Closed(m, u)'
      <3>1. KeyAt(w) = RowKey(m, u) /\ RowKey(m, u) \in Keys
        BY <2>1, MessagesAssumption DEF KeyAt, Serving, Prompt
      <3>2. notifications[RowKey(m, u)] # "absent" \/ u \in deleted
        BY <1>6, <2>1, <3>1 DEF Orderly, MarkPushed, Serving
      <3>3. notifications[RowKey(m, u)] # "absent" =>
                notifications'[RowKey(m, u)] = "pushed"
        BY <1>6, <3>1 DEF MarkPushed, MarkRowPushed, TypeOK, StoreTypeOK
      <3>4. deleted' = deleted
        BY <1>6 DEF MarkPushed
      <3>5. QED
        BY <3>2, <3>3, <3>4 DEF Closed
    <2>2. QED
      BY <1>6, <2>1, CalmFinish DEF MarkPushed
  <1>7. QED
    BY <1>1, <1>2, <1>3, <1>4, <1>5, <1>6

(* A call that goes on.                                                    *)
LEMMA CalmBefore ==
    ASSUME TypeOK, NEW w \in Workers, Orderly(w),
           NEW m \in Messages, NEW u \in Users, NEW t \in Tokens,
           Claim(w) \/ Resolve(w) \/ ResolveFails(w)
    PROVE  Calm(w, m, u, t)
  <1>0. call \in [Workers -> Calls] /\ pc \in [Workers -> Phases]
    BY DEF TypeOK, CallsTypeOK
  <1>1. ~Serving(w, m, u)
    BY DEF Claim, Resolve, ResolveFails, Serving
  <1>2. /\ pc'[w] \notin {"list", "send"}
        /\ call'[w].msg = call[w].msg
        /\ call'[w].late = call[w].late
    BY <1>0 DEF Claim, Resolve, ResolveFails, GoTo, Calls
  <1>3. Credit(w, m, u, t)' => Credit(w, m, u, t)
    <2>1. CASE Claim(w)
      BY <1>2, <2>1 DEF Claim, Orderly, Credit, Working
    <2>2. CASE Resolve(w) \/ ResolveFails(w)
      BY <1>2, <2>2 DEF Resolve, ResolveFails, Credit, MayPush, MsgOf
    <2>3. QED
      BY <2>1, <2>2
  <1>4. QED
    BY <1>1, <1>2, <1>3 DEF Calm, Pending

LEMMA SendEffect ==
    ASSUME TypeOK, NEW w \in Workers, NEW s \in Tokens,
           SendOne(w, s) \/ SendFails(w, s)
    PROVE  /\ pc[w] = "send"
           /\ pc'[w] = "send"
           /\ s \in call[w].devices
           /\ call'[w].msg = call[w].msg
           /\ call'[w].todo = call[w].todo
           /\ call'[w].late = call[w].late
           /\ call'[w].rcpt = call[w].rcpt
           /\ call'[w].devices = call[w].devices \ {s}
           /\ SendOne(w, s) => call'[w].failed = call[w].failed
  <1>0. call \in [Workers -> Calls] /\ pc \in [Workers -> Phases]
    BY DEF TypeOK, CallsTypeOK
  <1>1. CASE SendOne(w, s)
    BY <1>0, <1>1 DEF SendOne, Calls
  <1>2. CASE SendFails(w, s) /\ ~SendOne(w, s)
    <2> DEFINE next == [call[w] EXCEPT !.devices = call[w].devices \ {s},
                                       !.failed = TRUE]
    <2>1. call'[w] = next /\ pc[w] = "send" /\ pc' = pc /\ s \in call[w].devices
      BY <1>0, <1>2 DEF SendFails
    <2>2. /\ next.msg = call[w].msg
          /\ next.todo = call[w].todo
          /\ next.late = call[w].late
          /\ next.rcpt = call[w].rcpt
          /\ next.devices = call[w].devices \ {s}
      BY <1>0 DEF Calls
    <2>3. QED
      BY <1>2, <2>1, <2>2
  <1>3. QED
    BY <1>1, <1>2

LEMMA CalmPush ==
    ASSUME TypeOK, NEW w \in Workers,
           NEW m \in Messages, NEW u \in Users, NEW t \in Tokens,
           \/ ListTokens(w) \/ DeleteGone(w)
           \/ \E s \in Tokens : SendOne(w, s) \/ SendFails(w, s)
    PROVE  Calm(w, m, u, t)
  <1>0. call \in [Workers -> Calls] /\ pc \in [Workers -> Phases]
    BY DEF TypeOK, CallsTypeOK
  <1>1. ASSUME NEW errors, FinishRecipient(w, call[w].rcpt, errors),
               pc[w] = "list" \/ (pc[w] = "send" /\ call[w].failed)
        PROVE  Calm(w, m, u, t)
    <2>1. ~Serving(w, m, u)
      BY <1>1 DEF Serving
    <2>2. QED
      BY <1>1, <2>1, CalmFinish
  <1>2. ASSUME ListTokens(w), GoTo(w, "send"),
               call' = [call EXCEPT ![w].devices = TokensOf(call[w].rcpt)]
        PROVE  Calm(w, m, u, t)
    <2>1. /\ pc[w] = "list"
          /\ pc'[w] = "send"
          /\ call'[w].msg = call[w].msg
          /\ call'[w].todo = call[w].todo
          /\ call'[w].late = call[w].late
          /\ call'[w].rcpt = call[w].rcpt
          /\ call'[w].failed = call[w].failed
      BY <1>0, <1>2 DEF ListTokens, GoTo, Calls
    <2>2. QED
      BY <2>1 DEF Calm, Credit, MayPush, Pending, Serving, Prompt, MsgOf,
                  Working
  <1>3. CASE DeleteGone(w) /\ ~call[w].failed
    <2>1. pc[w] = "send" /\ pc'[w] = "mark" /\ call' = call
      BY <1>0, <1>3 DEF DeleteGone, GoTo
    <2>2. QED
      BY <2>1 DEF Calm, Credit, MayPush, Pending, Serving, Prompt, MsgOf,
                  Working
  <1>4. ASSUME NEW s \in Tokens, SendOne(w, s)
        PROVE  Calm(w, m, u, t)
    <2>1. /\ pc[w] = "send"
          /\ pc'[w] = "send"
          /\ call'[w].msg = call[w].msg
          /\ call'[w].todo = call[w].todo
          /\ call'[w].late = call[w].late
          /\ call'[w].rcpt = call[w].rcpt
          /\ call'[w].failed = call[w].failed
          /\ call'[w].devices \subseteq call[w].devices
      BY <1>4, SendEffect
    <2>2. QED
      BY <2>1 DEF Calm, Credit, MayPush, Pending, Serving, Prompt, MsgOf,
                  Working
  <1>5. ASSUME NEW s \in Tokens, SendFails(w, s)
        PROVE  Calm(w, m, u, t)
    <2>1. /\ pc[w] = "send"
          /\ pc'[w] = "send"
          /\ call'[w].msg = call[w].msg
          /\ call'[w].todo = call[w].todo
          /\ call'[w].late = call[w].late
          /\ call'[w].rcpt = call[w].rcpt
          /\ call'[w].devices \subseteq call[w].devices
      BY <1>5, SendEffect
    <2>2. ASSUME Prompt(w, m), call[w].rcpt = u, ~call[w].failed
          PROVE  disrupted'[<<m, u>>] > disrupted[<<m, u>>]
      BY <1>5, <2>1, <2>2, MidPushCosts DEF SendFails, Prompt
    <2>3. Credit(w, m, u, t)' => Credit(w, m, u, t)
      BY <2>1 DEF Credit, MayPush, MsgOf
    <2>4. Pending(w, m, u, t)' =>
              /\ Pending(w, m, u, t)
              /\ call[w].failed \/ disrupted'[<<m, u>>] > disrupted[<<m, u>>]
      BY <2>1, <2>2 DEF Pending, Prompt, MsgOf
    <2>5. Serving(w, m, u) => disrupted'[<<m, u>>] > disrupted[<<m, u>>]
      BY <2>2 DEF Serving
    <2>6. QED
      BY <2>3, <2>4, <2>5 DEF Calm
  <1>6. QED
    BY <1>1, <1>2, <1>3, <1>4, <1>5 DEF ListTokens, DeleteGone

(* Create: calm but for a prompt call that turns to u.                     *)
LEMMA CalmCreate ==
    ASSUME TypeOK, NEW w \in Workers, NEW v \in Users, Create(w, v),
           NEW m \in Messages, NEW u \in Users, NEW t \in Tokens,
           \/ FinishRecipient(w, v, {})
           \/ v # u \/ MsgOf(w) # m \/ call[w].late
    PROVE  Calm(w, m, u, t)
  <1>0. call \in [Workers -> Calls] /\ pc \in [Workers -> Phases]
    BY DEF TypeOK, CallsTypeOK
  <1>1. pc[w] = "create" /\ ~Serving(w, m, u)
    BY DEF Create, Serving
  <1>2. CASE FinishRecipient(w, v, {})
    BY <1>1, <1>2, CalmFinish
  <1>3. CASE /\ call' = [call EXCEPT ![w].rcpt = v] /\ GoTo(w, "list")
             /\ v # u \/ MsgOf(w) # m \/ call[w].late
    <2>1. /\ pc'[w] = "list"
          /\ call'[w].msg = call[w].msg
          /\ call'[w].todo = call[w].todo
          /\ call'[w].late = call[w].late
          /\ call'[w].rcpt = v
      BY <1>0, <1>3 DEF GoTo, Calls
    <2>2. QED
      BY <1>1, <1>3, <2>1
         DEF Calm, Credit, MayPush, Pending, Prompt, MsgOf
  <1>4. QED
    BY <1>2, <1>3 DEF Create

-----------------------------------------------------------------------------
(* The steps that are not calm.                                            *)
LEMMA Alone ==
    ASSUME WorkersOK, NEW m, NEW v \in Workers, NEW w \in Workers,
           Prompt(v, m), Prompt(w, m)
    PROVE  v = w
  BY DEF WorkersOK, LeaseHeld, Owns, Prompt, IdAt

LEMMA TurnKeeps ==
    ASSUME TypeOK, TypeOK', WorkersOK, RowsGone,
           NEW w \in Workers, Orderly(w), OthersRest(w),
           NEW m \in Messages, NEW u \in Recipients(m), NEW t \in Tokens,
           Paid(m, u, t), Create(w, u), MsgOf(w) = m, ~call[w].late,
           notifications[RowKey(m, u)] # "pushed"
    PROVE  Paid(m, u, t)'
  <1>0. /\ call \in [Workers -> Calls] /\ pc \in [Workers -> Phases]
        /\ u \in Users
    BY MessagesAssumption DEF TypeOK, CallsTypeOK, Recipients
  <1>1. /\ pc[w] = "create"
        /\ Prompt(w, m)
        /\ pushes' = pushes
        /\ disrupted' = disrupted
    BY DEF Create, Prompt, Working
  <1>2. ~Closed(m, u)
    BY DEF Closed, RowsGone, Create, Insertable, ForeignKeysHold
  <1>3. ASSUME NEW v \in Workers, Prompt(v, m)
        PROVE  v = w
    BY <1>1, <1>3, Alone
  <1>4. ~\E v \in Workers : Serving(v, m, u)
    BY <1>1, <1>3 DEF Serving
  <1>5. Owing(m, u, t) <= disrupted[<<m, u>>]
    BY <1>2, <1>4 DEF Paid
  <1>6. /\ pc'[w] = "list"
        /\ call'[w].late = call[w].late
        /\ call'[w].failed = call[w].failed
    BY <1>0 DEF Create, GoTo, Calls
  <1>7. Credits(m, u, t)' \subseteq Credits(m, u, t)
    <2> SUFFICES ASSUME NEW v \in Workers, Credit(v, m, u, t)'
                 PROVE  Credit(v, m, u, t)
      BY DEF Credits
    <2>1. v # w
      BY <1>6 DEF Credit
    <2>2. QED
      BY <2>1, CalmRests DEF OthersRest, Calm
  <1>8. /\ IsFiniteSet(Credits(m, u, t)')
        /\ Owing(m, u, t) \in Nat
        /\ Owing(m, u, t)' \in Nat
        /\ Owing(m, u, t)' <= Owing(m, u, t)
    BY <1>0, <1>1, <1>7, OwingKept
  <1>9. ASSUME NEW v \in Workers, Pending(v, m, u, t)'
        PROVE  v = w
    <2>1. CASE v # w
      <3>1. Pending(v, m, u, t)
        BY <1>9, <2>1, CalmRests DEF OthersRest, Calm
      <3>2. QED
        BY <1>3, <3>1 DEF Pending
    <2>2. QED
      BY <2>1
  <1>10. ~call'[w].failed
    BY <1>1, <1>6 DEF Orderly
  <1>11. disrupted[<<m, u>>] \in Nat
    BY <1>0 DEF TypeOK
  <1>12. QED
    BY <1>1, <1>5, <1>8, <1>9, <1>10, <1>11 DEF Paid

LEMMA PushKeeps ==
    ASSUME TypeOK, TypeOK', WorkersOK,
           NEW w \in Workers, Orderly(w), OthersRest(w),
           NEW m \in Messages, NEW u \in Users, NEW t \in Tokens, Paid(m, u, t),
           SendOne(w, t) \/ SendFails(w, t), Delivered(w, t),
           MsgOf(w) = m, call[w].rcpt = u,
           disrupted'[<<m, u>>] >= disrupted[<<m, u>>],
           Closed(m, u) => Closed(m, u)'
    PROVE  Paid(m, u, t)'
  <1> DEFINE S == Credits(m, u, t)
             p == pushes[<<m, u, t>>]
  <1>0. /\ p \in Nat
        /\ p' = p + 1
        /\ disrupted[<<m, u>>] \in Nat
        /\ disrupted'[<<m, u>>] \in Nat
    BY DEF TypeOK, Delivered
  <1>1. /\ pc[w] = "send"
        /\ pc'[w] = "send"
        /\ t \in call[w].devices
        /\ call'[w].msg = call[w].msg
        /\ call'[w].late = call[w].late
        /\ call'[w].rcpt = call[w].rcpt
        /\ call'[w].devices = call[w].devices \ {t}
        /\ SendOne(w, t) => call'[w].failed = call[w].failed
    BY SendEffect
  <1>2. \A v \in Workers : Calm(v, m, u, t)
    BY CalmRests, CalmPush DEF OthersRest
  <1>3. ~Credit(w, m, u, t)' /\ ~Pending(w, m, u, t)'
    BY <1>1 DEF Credit, MayPush, Pending
  <1>4. S' \subseteq S \ {w}
    BY <1>2, <1>3 DEF Calm, Credits
  <1>5. CASE call[w].late
    <2>1. w \in S
      BY <1>1, <1>5 DEF Credits, Credit, MayPush, Orderly
    <2>2. /\ IsFiniteSet(S')
          /\ Cardinality(S) \in Nat
          /\ Cardinality(S') \in Nat
          /\ Cardinality(S') + 1 <= Cardinality(S)
      BY <1>4, <2>1, CountOneLess DEF Paid
    <2>3. /\ Owing(m, u, t) \in Nat
          /\ Owing(m, u, t)' \in Nat
          /\ Owing(m, u, t)' <= Owing(m, u, t)
      BY <1>0, <2>2 DEF Owing
    <2>4. QED
      BY <1>2, <2>2, <2>3, CalmKeeps
  <1>6. CASE ~call[w].late
    <2>1. Pending(w, m, u, t) /\ Prompt(w, m)
      BY <1>1, <1>6 DEF Pending, Prompt, Working
    <2>2. /\ IsFiniteSet(S')
          /\ Cardinality(S) \in Nat
          /\ Cardinality(S') \in Nat
          /\ Cardinality(S') <= Cardinality(S)
      BY <1>4, CountLess DEF Paid
    <2>3. /\ Owing(m, u, t) \in Nat
          /\ Owing(m, u, t)' \in Nat
          /\ Owing(m, u, t)' <= Owing(m, u, t) + 1
      BY <1>0, <2>2 DEF Owing
    <2>4. /\ Owing(m, u, t) <= disrupted[<<m, u>>]
          /\ call[w].failed => Owing(m, u, t) + 1 <= disrupted[<<m, u>>]
      BY <2>1 DEF Paid
    <2>5. Owing(m, u, t)' <= disrupted'[<<m, u>>] \/ Serving(w, m, u)'
      <3>1. CASE SendFails(w, t) /\ ~call[w].failed
        <4>1. disrupted'[<<m, u>>] > disrupted[<<m, u>>]
          BY <1>1, <1>6, <3>1, MidPushCosts DEF SendFails
        <4>2. QED
          BY <1>0, <2>3, <2>4, <4>1
      <3>2. CASE call[w].failed
        BY <1>0, <2>3, <2>4, <3>2
      <3>3. CASE SendOne(w, t) /\ ~call[w].failed
        BY <1>1, <2>1, <3>3 DEF Serving, Prompt, MsgOf
      <3>4. QED
        BY <3>1, <3>2, <3>3
    <2>6. ~\E v \in Workers : Pending(v, m, u, t)'
      <3> SUFFICES ASSUME NEW v \in Workers, Pending(v, m, u, t)'
                   PROVE  FALSE
        OBVIOUS
      <3>1. Prompt(v, m)
        BY <1>2 DEF Calm, Pending
      <3>2. v = w
        BY <2>1, <3>1, Alone
      <3>3. QED
        BY <1>3, <3>2
    <2>7. Owing(m, u, t)' <= disrupted'[<<m, u>>] + 1
      BY <1>0, <2>3, <2>4
    <2>8. QED
      BY <2>2, <2>5, <2>6, <2>7 DEF Paid
  <1>7. QED
    BY <1>5, <1>6

LEMMA OverrunKeeps ==
    ASSUME TypeOK, TypeOK', WorkersOK,
           NEW w \in Workers, Orderly(w), OthersRest(w), Overrun(w),
           NEW m \in Messages, NEW u \in Users, NEW t \in Tokens, Paid(m, u, t),
           disrupted'[<<m, u>>] >= disrupted[<<m, u>>],
           Closed(m, u) => Closed(m, u)'
    PROVE  Paid(m, u, t)'
  <1> DEFINE S == Credits(m, u, t)
             p == pushes[<<m, u, t>>]
  <1>0. /\ p \in Nat
        /\ p' = p
        /\ disrupted[<<m, u>>] \in Nat
        /\ disrupted'[<<m, u>>] \in Nat
        /\ call \in [Workers -> Calls]
    BY DEF TypeOK, CallsTypeOK, Overrun
  <1>1. /\ pc'[w] = pc[w]
        /\ pc[w] \in Working
        /\ call'[w].msg = call[w].msg
        /\ call'[w].todo = call[w].todo
        /\ call'[w].rcpt = call[w].rcpt
        /\ call'[w].devices = call[w].devices
        /\ call'[w].late
    BY <1>0 DEF Overrun, Calls
  <1>2. ASSUME MsgOf(w) = m, u \in Unfinished(w)
        PROVE  disrupted'[<<m, u>>] > disrupted[<<m, u>>]
    BY <1>2, FaultCosts DEF Overrun
  <1>3. \A v \in Workers \ {w} : Calm(v, m, u, t)
    BY CalmRests DEF OthersRest
  <1>4. ASSUME Calm(w, m, u, t)
        PROVE  Paid(m, u, t)'
    <2>1. \A v \in Workers : Calm(v, m, u, t)
      BY <1>3, <1>4
    <2>2. S' \subseteq S
      BY <2>1 DEF Calm, Credits
    <2>3. QED
      BY <1>0, <2>1, <2>2, OwingKept, CalmKeeps
  <1>5. CASE MsgOf(w) # m
    BY <1>1, <1>4, <1>5, CalmElsewhere DEF MsgOf
  <1>6. CASE MsgOf(w) = m /\ (call[w].late \/ ~MayPush(w, m, u, t))
    <2>1. Credit(w, m, u, t)' => Credit(w, m, u, t)
      BY <1>1, <1>6 DEF Credit, MayPush, MsgOf
    <2>2. ~Pending(w, m, u, t)'
      BY <1>1 DEF Pending, Prompt
    <2>3. Serving(w, m, u) => disrupted'[<<m, u>>] > disrupted[<<m, u>>]
      BY <1>2, <1>6 DEF Serving, Orderly, Unfinished
    <2>4. QED
      BY <1>4, <2>1, <2>2, <2>3 DEF Calm
  <1>7. CASE MsgOf(w) = m /\ ~call[w].late /\ MayPush(w, m, u, t)
    <2>1. Prompt(w, m)
      BY <1>1, <1>7 DEF Prompt
    <2>2. S' \subseteq S \cup {w}
      BY <1>3 DEF Calm, Credits
    <2>3. /\ IsFiniteSet(S')
          /\ Cardinality(S) \in Nat
          /\ Cardinality(S') \in Nat
          /\ Cardinality(S') <= Cardinality(S) + 1
      BY <2>2, CountOneMore DEF Paid
    <2>4. /\ Owing(m, u, t) \in Nat
          /\ Owing(m, u, t)' \in Nat
          /\ Owing(m, u, t)' <= Owing(m, u, t) + 1
      BY <1>0, <2>3 DEF Owing
    <2>5. ASSUME ~(call[w].failed /\ call[w].rcpt = u)
          PROVE  disrupted'[<<m, u>>] > disrupted[<<m, u>>]
      BY <1>2, <1>7, <2>5 DEF MayPush, Unfinished
    <2>6. ASSUME call[w].failed, call[w].rcpt = u
          PROVE  Owing(m, u, t) + 1 <= disrupted[<<m, u>>]
      <3>1. Pending(w, m, u, t)
        BY <1>7, <2>1, <2>6 DEF Orderly, Pending, MayPush
      <3>2. QED
        BY <2>6, <3>1 DEF Paid
    <2>7. \/ disrupted'[<<m, u>>] > disrupted[<<m, u>>]
          \/ Owing(m, u, t) + 1 <= disrupted[<<m, u>>]
      BY <2>5, <2>6
    <2>8. Owing(m, u, t)' <= disrupted'[<<m, u>>] + 1
      BY <1>0, <2>4, <2>7 DEF Paid
    <2>9. Owing(m, u, t)' <= disrupted'[<<m, u>>] \/ Closed(m, u)'
      <3>1. CASE Owing(m, u, t) <= disrupted[<<m, u>>]
        BY <1>0, <2>4, <2>7, <3>1
      <3>2. CASE Closed(m, u)
        BY <3>2
      <3>3. ASSUME NEW v \in Workers, Serving(v, m, u)
            PROVE  Owing(m, u, t) <= disrupted[<<m, u>>]
        <4>1. v = w
          BY <2>1, <3>3, Alone DEF Serving
        <4>2. Pending(w, m, u, t)
          BY <1>7, <3>3, <4>1 DEF Serving, Pending, MayPush
        <4>3. QED
          BY <4>2 DEF Paid
      <3>4. QED
        BY <3>1, <3>2, <3>3 DEF Paid
    <2>10. ~\E v \in Workers : Pending(v, m, u, t)'
      <3> SUFFICES ASSUME NEW v \in Workers, Pending(v, m, u, t)'
                   PROVE  FALSE
        OBVIOUS
      <3>1. v # w
        BY <1>1 DEF Pending, Prompt
      <3>2. Prompt(v, m)
        BY <1>3, <3>1 DEF Calm, Pending
      <3>3. QED
        BY <2>1, <3>1, <3>2, Alone
    <2>11. QED
      BY <2>3, <2>8, <2>9, <2>10 DEF Paid
  <1>8. QED
    BY <1>5, <1>6, <1>7

-----------------------------------------------------------------------------
RepeatInv == PaidInv /\ NoStrangers /\ OrderlyInv /\ RowsGone

LEMMA StepPaid ==
    ASSUME TypeOK, WorkersOK, DoingInv, OrderlyInv, RowsGone,
           NEW w \in Workers, Step(w) \/ Failure(w),
           NEW m \in Messages, NEW u \in Recipients(m), NEW t \in Tokens,
           Paid(m, u, t)
    PROVE  Paid(m, u, t)'
  <1>0. /\ [Next]_vars
        /\ TypeOK'
        /\ OthersRest(w)
        /\ Orderly(w)
        /\ u \in Users
        /\ pushes \in [Messages \X Users \X Tokens -> Nat]
    BY NextType, StepRests, MessagesAssumption
       DEF Next, OrderlyInv, Recipients, TypeOK
  <1>1. /\ disrupted'[<<m, u>>] >= disrupted[<<m, u>>]
        /\ Closed(m, u) => Closed(m, u)'
    BY <1>0, DisruptedGrows, RowsKept DEF Closed
  <1>2. ASSUME Calm(w, m, u, t),
               pushes'[<<m, u, t>>] = pushes[<<m, u, t>>]
        PROVE  Paid(m, u, t)'
    <2>1. \A v \in Workers : Calm(v, m, u, t)
      BY <1>0, <1>2, CalmRests DEF OthersRest
    <2>2. Credits(m, u, t)' \subseteq Credits(m, u, t)
      BY <2>1 DEF Calm, Credits
    <2>3. QED
      BY <1>0, <1>1, <1>2, <2>1, <2>2, OwingKept, CalmKeeps
  <1>3. ASSUME NEW s \in Tokens, SendOne(w, s) \/ SendFails(w, s)
        PROVE  Paid(m, u, t)'
    <2>1. Calm(w, m, u, t)
      BY <1>0, <1>3, CalmPush
    <2>2. CASE pushes' = pushes
      BY <1>2, <2>1, <2>2
    <2>3. CASE Delivered(w, s) /\ (MsgOf(w) # m \/ call[w].rcpt # u \/ s # t)
      <3>1. pushes'[<<m, u, t>>] = pushes[<<m, u, t>>]
        BY <1>0, <2>3 DEF Delivered
      <3>2. QED
        BY <1>2, <2>1, <3>1
    <2>4. CASE Delivered(w, s) /\ MsgOf(w) = m /\ call[w].rcpt = u /\ s = t
      BY <1>0, <1>1, <1>3, <2>4, PushKeeps
    <2>5. QED
      BY <1>3, <2>2, <2>3, <2>4 DEF SendOne, SendFails
  <1>4. CASE Overrun(w)
    BY <1>0, <1>1, <1>4, OverrunKeeps
  <1>5. ASSUME NEW v \in Users, Create(w, v)
        PROVE  Paid(m, u, t)'
    <2>1. pushes' = pushes
      BY <1>5 DEF Create
    <2>2. CASE \/ FinishRecipient(w, v, {})
               \/ v # u \/ MsgOf(w) # m \/ call[w].late
      BY <1>0, <1>2, <1>5, <2>1, <2>2, CalmCreate
    <2>3. CASE /\ ~FinishRecipient(w, v, {})
               /\ v = u /\ MsgOf(w) = m /\ ~call[w].late
      <3>1. notifications[RowKey(m, u)] # "pushed"
        BY <1>5, <2>3 DEF Create
      <3>2. QED
        BY <1>0, <1>5, <2>3, <3>1, TurnKeeps
    <2>4. QED
      BY <2>2, <2>3
  <1>6. CASE Claim(w) \/ Resolve(w) \/ ResolveFails(w)
    <2>1. pushes' = pushes
      BY <1>6 DEF Claim, Resolve, ResolveFails
    <2>2. QED
      BY <1>0, <1>2, <1>6, <2>1, CalmBefore
  <1>7. CASE ListTokens(w) \/ DeleteGone(w)
    <2>1. pushes' = pushes
      BY <1>7 DEF ListTokens, DeleteGone
    <2>2. QED
      BY <1>0, <1>2, <1>7, <2>1, CalmPush
  <1>8. CASE \/ ReadClaimState(w) \/ Complete(w) \/ Release(w) \/ Crash(w)
             \/ ClaimFails(w) \/ CompleteFails(w) \/ ReleaseFails(w)
             \/ \E v \in Users : RefusePayload(w, v) \/ CreateOrphan(w, v)
                                     \/ CreateFails(w, v)
             \/ ListFails(w) \/ DeleteFails(w) \/ MarkPushed(w) \/ MarkFails(w)
    <2>1. pushes' = pushes
      BY <1>8 DEF ReadClaimState, Complete, Release, Crash, ClaimFails,
                  CompleteFails, ReleaseFails, RefusePayload, CreateOrphan,
                  CreateFails, ListFails, DeleteFails, MarkPushed, MarkFails
    <2>2. QED
      BY <1>0, <1>2, <1>8, <2>1, CalmEnd
  <1>9. QED
    BY <1>3, <1>4, <1>5, <1>6, <1>7, <1>8 DEF Step, Failure

LEMMA RepeatNext ==
    ASSUME DeliveryInv, DoingInv, RepeatInv, [Next]_vars
    PROVE  RepeatInv'
  <1>0. /\ TypeOK /\ TypeOK' /\ WorkersOK
        /\ PaidInv /\ NoStrangers /\ OrderlyInv /\ RowsGone
    BY NextType DEF DeliveryInv, ClaimInv, RepeatInv
  <1> SUFFICES ASSUME NEW m \in Messages, NEW u \in Recipients(m),
                      NEW t \in Tokens
               PROVE  Paid(m, u, t)'
    BY <1>0, OrderlyNext, RowsGoneNext, NoStrangersNext DEF RepeatInv, PaidInv
  <1>1. Paid(m, u, t) /\ u \in Users
    BY <1>0, MessagesAssumption DEF PaidInv, Recipients
  <1>2. ASSUME NEW w \in Workers, Step(w) \/ Failure(w)
        PROVE  Paid(m, u, t)'
    BY <1>0, <1>1, <1>2, StepPaid
  <1>3. ASSUME \A v \in Workers : Calm(v, m, u, t), pushes' = pushes
        PROVE  Paid(m, u, t)'
    <2>1. /\ disrupted'[<<m, u>>] >= disrupted[<<m, u>>]
          /\ Closed(m, u) => Closed(m, u)'
      BY <1>0, <1>1, DisruptedGrows, RowsKept DEF Closed
    <2>2. Credits(m, u, t)' \subseteq Credits(m, u, t)
      BY <1>3 DEF Calm, Credits
    <2>3. QED
      BY <1>0, <1>1, <1>3, <2>1, <2>2, OwingKept, CalmKeeps
  <1>4. ASSUME NEW w \in Workers, NEW n \in Messages, Receive(w, n)
        PROVE  Paid(m, u, t)'
    <2>0. call \in [Workers -> Calls] /\ pc \in [Workers -> Phases]
      BY <1>0 DEF TypeOK, CallsTypeOK
    <2>1. Calm(w, m, u, t)
      <3>1. /\ pc[w] = "idle"
            /\ pc'[w] = "claim"
            /\ call'[w].late = call[w].late
        BY <1>4, <2>0 DEF Receive, GoTo, Calls
      <3>2. ~call[w].late
        BY <1>0, <3>1 DEF OrderlyInv, Orderly, Working
      <3>3. QED
        BY <3>1, <3>2 DEF Calm, Credit, Pending, Serving
    <2>2. \A v \in Workers : Calm(v, m, u, t)
      <3> SUFFICES ASSUME NEW v \in Workers, v # w
                   PROVE  Calm(v, m, u, t)
        BY <2>1
      <3>1. pc'[v] = pc[v] /\ call'[v] = call[v]
        BY <1>4, <2>0 DEF Receive, GoTo
      <3>2. QED
        BY <3>1, CalmRests
    <2>3. pushes' = pushes
      BY <1>4 DEF Receive
    <2>4. QED
      BY <1>3, <2>2, <2>3
  <1>5. CASE Environment \/ UNCHANGED vars
    <2>1. pc' = pc /\ call' = call /\ pushes' = pushes
      BY <1>5 DEF Environment, LeaseExpires, TokenMoves, TokenDies,
                  SubscriptionChanges, UserLeaves, vars
    <2>2. QED
      BY <1>3, <2>1, CalmRests
  <1>6. QED
    BY <1>2, <1>4, <1>5 DEF Next

LEMMA RepeatInit == Init => RepeatInv
  <1> SUFFICES ASSUME Init PROVE RepeatInv
    OBVIOUS
  <1>0. \A w \in Workers : pc[w] = "idle" /\ call[w] = NoCall
    BY DEF Init
  <1>1. ~NoCall.late /\ ~NoCall.failed
    BY DEF NoCall
  <1>2. OrderlyInv /\ RowsGone /\ NoStrangers
    BY <1>0, <1>1 DEF Init, OrderlyInv, Orderly, RowsGone, NoStrangers
  <1>3. ASSUME NEW m \in Messages, NEW u \in Recipients(m), NEW t \in Tokens
        PROVE  Paid(m, u, t)
    <2>1. u \in Users
      BY MessagesAssumption DEF Recipients
    <2>2. pushes[<<m, u, t>>] = 0 /\ disrupted[<<m, u>>] = 0
      BY <2>1 DEF Init
    <2>3. Credits(m, u, t) = {}
      BY <1>0, <1>1 DEF Credits, Credit
    <2>4. IsFiniteSet(Credits(m, u, t)) /\ Owing(m, u, t) = 0
      BY <2>2, <2>3, FS_EmptySet DEF Owing
    <2>5. \A w \in Workers : ~Pending(w, m, u, t)
      BY <1>0 DEF Pending
    <2>6. QED
      BY <2>2, <2>4, <2>5 DEF Paid
  <1>4. QED
    BY <1>2, <1>3 DEF RepeatInv, PaidInv

LEMMA RepeatInvariant == Spec => []RepeatInv
  <1>1. DeliveryInv /\ DoingInv /\ RepeatInv /\ [Next]_vars => RepeatInv'
    BY RepeatNext
  <1>2. QED
    BY <1>1, RepeatInit, PushInvariant, PTL DEF Spec

(* Each push of a message to a device beyond the first is paid for by an   *)
(* attempt that was cut short while it pushed, or whose lease ran out, for *)
(* any number of workers, deliveries, recipients, devices and faults.      *)
THEOREM RepeatsAccounted == Spec => []RepeatsAreAccountedFor
  <1>1. TypeOK /\ RepeatInv => RepeatsAreAccountedFor
    <2> SUFFICES ASSUME TypeOK, RepeatInv,
                        NEW m \in Messages, NEW u \in Users, NEW t \in Tokens
                 PROVE  pushes[<<m, u, t>>] <= 1 + disrupted[<<m, u>>]
      BY DEF RepeatsAreAccountedFor
    <2>1. pushes[<<m, u, t>>] \in Nat /\ disrupted[<<m, u>>] \in Nat
      BY DEF TypeOK
    <2>2. CASE u \notin Recipients(m)
      BY <2>1, <2>2 DEF RepeatInv, NoStrangers
    <2>3. CASE u \in Recipients(m)
      <3>1. Paid(m, u, t)
        BY <2>3 DEF RepeatInv, PaidInv
      <3>2. Cardinality(Credits(m, u, t)) \in Nat
        BY <3>1, FS_CardinalityType DEF Paid
      <3>3. QED
        BY <2>1, <3>1, <3>2 DEF Paid, Owing
    <2>4. QED
      BY <2>2, <2>3
  <1>2. QED
    BY <1>1, RepeatInvariant, TypeCorrect, PTL

-----------------------------------------------------------------------------
(* Where pushes go: a call serves users the message is for, and tries      *)
(* tokens that its recipient held meanwhile.                               *)
Aimed(w) ==
    /\ pc[w] \in {"idle", "claim", "state"} => call[w].todo = {}
    /\ \A u \in call[w].todo : u \in Meant(w)
    /\ pc[w] = "send" => call[w].devices \subseteq held[w]

AimedInv == \A w \in Workers : Aimed(w)

(* While a call lasts the history only grows.                              *)
LEMMA Remembers ==
    ASSUME Remember, NEW w \in Workers
    PROVE  /\ MsgOf(w)' = MsgOf(w) /\ pc'[w] # "idle" =>
                  \A u \in Meant(w) : u \in Meant(w)'
           /\ pc'[w] # "idle" => subscribed' \subseteq asked'[w]
           /\ pc'[w] = "send" =>
                  held[w] \cup Registered(call[w].rcpt)' \subseteq held'[w]
  <1>1. pc'[w] # "idle" => asked'[w] = asked[w] \cup subscribed'
    BY DEF Remember
  <1>2. pc'[w] = "send" => held'[w] = held[w] \cup Registered(call[w].rcpt)'
    BY DEF Remember
  <1>3. QED
    BY <1>1, <1>2 DEF Meant, FanOut

LEMMA AimedRests ==
    ASSUME Remember, NEW v \in Workers, Aimed(v),
           pc'[v] = pc[v], call'[v] = call[v]
    PROVE  Aimed(v)'
  <1>1. MsgOf(v)' = MsgOf(v)
    BY DEF MsgOf
  <1>2. CASE pc[v] = "idle"
    BY <1>1, <1>2 DEF Aimed
  <1>3. CASE pc[v] # "idle"
    BY <1>1, <1>3, Remembers DEF Aimed
  <1>4. QED
    BY <1>2, <1>3

LEMMA AimedStep ==
    ASSUME TypeOK, Remember, NEW w \in Workers, Aimed(w), Served(w),
           Step(w) \/ Failure(w)
    PROVE  Aimed(w)'
  <1>0. /\ call \in [Workers -> Calls]
        /\ pc \in [Workers -> Phases]
    BY DEF TypeOK, CallsTypeOK
  <1>1. ASSUME NEW ack, Return(w, ack)
        PROVE  Aimed(w)'
    <2>1. pc'[w] = "idle" /\ call'[w] = NoCall
      BY <1>0, <1>1 DEF Return, GoTo
    <2>2. NoCall.todo = {}
      BY DEF NoCall
    <2>3. QED
      BY <2>1, <2>2 DEF Aimed
  <1>2. ASSUME NEW u, NEW errors, FinishRecipient(w, u, errors)
        PROVE  Aimed(w)'
    <2>1. /\ pc'[w] \in {"create", "complete", "release"}
          /\ MsgOf(w)' = MsgOf(w)
          /\ call'[w].todo \subseteq call[w].todo
      BY <1>2, FinishEffect DEF MsgOf
    <2>2. QED
      BY <2>1, Remembers DEF Aimed
  <1>3. CASE \/ ReadClaimState(w) \/ Complete(w) \/ Release(w) \/ Crash(w)
             \/ ClaimFails(w) \/ CompleteFails(w) \/ ReleaseFails(w)
    BY <1>1, <1>3 DEF ReadClaimState, Complete, Release, Crash, ClaimFails,
                      CompleteFails, ReleaseFails
  <1>4. CASE Claim(w)
    <2>1. /\ MsgOf(w)' = MsgOf(w)
          /\ pc'[w] \in {"resolve", "create", "state"}
          /\ \/ call'[w].todo = {}
             \/ /\ pc'[w] = "create"
                /\ ~FanOut(MsgOf(w))
                /\ call'[w].todo = {Addressee[MsgOf(w)]}
      BY <1>0, <1>4 DEF Claim, GoTo, Aimed, Calls, MsgOf
    <2>2. QED
      BY <2>1 DEF Aimed, Meant
  <1>5. CASE Resolve(w) \/ ResolveFails(w)
    <2>1. /\ MsgOf(w)' = MsgOf(w)
          /\ pc'[w] \in {"create", "complete", "release"}
          /\ call'[w].todo \in {call[w].todo, subscribed}
          /\ FanOut(MsgOf(w))
      BY <1>0, <1>5 DEF Resolve, ResolveFails, GoTo, Calls, MsgOf, Served
    <2>2. subscribed' = subscribed
      BY <1>5 DEF Resolve, ResolveFails, store
    <2>3. QED
      BY <2>1, <2>2, Remembers DEF Aimed, Meant
  <1>6. ASSUME MsgOf(w)' = MsgOf(w),
               call'[w].todo = call[w].todo,
               pc'[w] \in Working,
               pc'[w] = "send" => call'[w].devices \subseteq held'[w]
        PROVE  Aimed(w)'
    BY <1>6, Remembers DEF Aimed, Working
  <1>7. CASE \E u \in Users : \/ RefusePayload(w, u) \/ Create(w, u)
                              \/ CreateOrphan(w, u) \/ CreateFails(w, u)
    <2>1. ASSUME NEW u \in Users, Create(w, u), GoTo(w, "list"),
                 call' = [call EXCEPT ![w].rcpt = u]
          PROVE  Aimed(w)'
      <3>1. /\ MsgOf(w)' = MsgOf(w)
            /\ call'[w].todo = call[w].todo
            /\ pc'[w] = "list"
        BY <1>0, <2>1 DEF Create, GoTo, Calls, MsgOf
      <3>2. QED
        BY <1>6, <3>1 DEF Working
    <2>2. QED
      BY <1>2, <1>7, <2>1 DEF RefusePayload, Create, CreateOrphan, CreateFails
  <1>8. CASE ListTokens(w)
    <2>1. CASE FinishRecipient(w, call[w].rcpt, {})
      BY <1>2, <2>1
    <2>2. CASE /\ call' = [call EXCEPT ![w].devices = TokensOf(call[w].rcpt)]
               /\ GoTo(w, "send")
      <3>1. /\ MsgOf(w)' = MsgOf(w)
            /\ call'[w].todo = call[w].todo
            /\ call'[w].rcpt = call[w].rcpt
            /\ call'[w].devices = TokensOf(call[w].rcpt)
            /\ pc'[w] = "send"
        BY <1>0, <1>8, <2>2 DEF ListTokens, GoTo, Calls, MsgOf, Aimed
      <3>2. call[w].rcpt \in Users /\ owner' = owner
        BY <1>8 DEF ListTokens, TypeOK, CallsTypeOK, store
      <3>3. TokensOf(call[w].rcpt) \subseteq Registered(call[w].rcpt)'
        BY <3>1, <3>2 DEF TokensOf, Registered
      <3>4. QED
        BY <1>6, <3>1, <3>3, Remembers DEF Working
    <2>3. QED
      BY <1>8, <2>1, <2>2 DEF ListTokens
  <1>9. CASE \E t \in Tokens : SendOne(w, t) \/ SendFails(w, t)
    <2> SUFFICES ASSUME NEW t \in Tokens, SendOne(w, t) \/ SendFails(w, t)
                 PROVE  Aimed(w)'
      BY <1>9
    <2>1. /\ MsgOf(w)' = MsgOf(w)
          /\ call'[w].todo = call[w].todo
          /\ call'[w].rcpt = call[w].rcpt
          /\ call'[w].devices \subseteq call[w].devices
          /\ pc[w] = "send"
          /\ pc'[w] = "send"
      <3>1. CASE SendOne(w, t)
        BY <1>0, <3>1 DEF SendOne, Calls, MsgOf
      <3>2. CASE SendFails(w, t)
        BY <1>0, <3>2 DEF SendFails, Calls, MsgOf
      <3>3. QED
        BY <3>1, <3>2
    <2>2. QED
      BY <1>6, <2>1, Remembers DEF Aimed, Working
  <1>10. CASE DeleteGone(w)
    <2>1. CASE GoTo(w, "mark") /\ call' = call
      <3>1. /\ MsgOf(w)' = MsgOf(w)
            /\ call'[w].todo = call[w].todo
            /\ pc[w] = "send"
            /\ pc'[w] = "mark"
        BY <1>0, <1>10, <2>1 DEF DeleteGone, GoTo, MsgOf
      <3>2. QED
        BY <1>6, <3>1 DEF Aimed, Working
    <2>2. QED
      BY <1>2, <1>10, <2>1 DEF DeleteGone
  <1>11. CASE ListFails(w) \/ DeleteFails(w) \/ MarkPushed(w) \/ MarkFails(w)
    BY <1>2, <1>11 DEF ListFails, DeleteFails, MarkPushed, MarkFails
  <1>12. CASE Overrun(w)
    <2>1. /\ MsgOf(w)' = MsgOf(w)
          /\ call'[w].todo = call[w].todo
          /\ call'[w].rcpt = call[w].rcpt
          /\ call'[w].devices = call[w].devices
          /\ pc[w] \in Working
          /\ pc'[w] = pc[w]
      BY <1>0, <1>12 DEF Overrun, Calls, MsgOf
    <2>2. QED
      BY <1>6, <2>1, Remembers DEF Aimed
  <1>13. QED
    BY <1>3, <1>4, <1>5, <1>7, <1>8, <1>9, <1>10, <1>11, <1>12
       DEF Step, Failure

LEMMA AimedNext ==
    ASSUME TypeOK, ServedInv, AimedInv, [LNext]_lvars
    PROVE  AimedInv'
  <1>0. call \in [Workers -> Calls] /\ pc \in [Workers -> Phases]
    BY DEF TypeOK, CallsTypeOK
  <1>1. CASE UNCHANGED lvars
    BY <1>1 DEF lvars, vars, AimedInv, Aimed, Meant, MsgOf
  <1>2. CASE LNext
    <2>1. Remember /\ Next
      BY <1>2 DEF LNext
    <2>2. ASSUME NEW w \in Workers, Step(w) \/ Failure(w), NEW v \in Workers
          PROVE  Aimed(v)'
      BY <2>1, <2>2, AimedStep, AimedRests, StepRests
         DEF AimedInv, ServedInv, OthersRest
    <2>3. ASSUME NEW w \in Workers, NEW m \in Messages, Receive(w, m),
                 NEW v \in Workers
          PROVE  Aimed(v)'
      <3>1. CASE v = w
        <4>1. pc[w] = "idle" /\ pc'[w] = "claim" /\ call'[w].todo = call[w].todo
          BY <1>0, <2>3 DEF Receive, GoTo, Calls
        <4>2. QED
          BY <3>1, <4>1 DEF AimedInv, Aimed
      <3>2. CASE v # w
        BY <1>0, <2>1, <2>3, <3>2, AimedRests DEF Receive, GoTo, AimedInv
      <3>3. QED
        BY <3>1, <3>2
    <2>4. ASSUME Environment, NEW v \in Workers
          PROVE  Aimed(v)'
      BY <2>1, <2>4, AimedRests
         DEF Environment, LeaseExpires, TokenMoves, TokenDies,
             SubscriptionChanges, UserLeaves, AimedInv
    <2>5. QED
      BY <2>1, <2>2, <2>3, <2>4 DEF Next, AimedInv
  <1>3. QED
    BY <1>1, <1>2

LEMMA WhereMeant ==
    ASSUME TypeOK, OrderlyInv, AimedInv, [LNext]_lvars,
           NEW m \in Messages, NEW u \in Users, NEW t \in Tokens,
           pushes'[<<m, u, t>>] # pushes[<<m, u, t>>]
    PROVE  /\ notifications[RowKey(m, u)] # "absent" \/ u \in deleted
           /\ \E w \in Workers : /\ MsgOf(w) = m
                                 /\ u \in Meant(w)
                                 /\ u = call[w].rcpt
                                 /\ t \in held[w]
  <1>1. [Next]_vars /\ pushes' # pushes
    BY DEF LNext, lvars
  <1>2. PICK w \in Workers, d \in Tokens :
            /\ SendOne(w, d) \/ SendFails(w, d)
            /\ Delivered(w, d)
    BY <1>1, PushedBy
  <1>3. m = MsgOf(w) /\ u = call[w].rcpt /\ t = d
    BY <1>2 DEF Delivered, TypeOK
  <1>4. pc[w] = "send" /\ d \in call[w].devices
    BY <1>2 DEF SendOne, SendFails
  <1>5. /\ u \in call[w].todo
        /\ notifications[RowKey(m, u)] # "absent" \/ u \in deleted
    BY <1>3, <1>4 DEF OrderlyInv, Orderly, KeyAt
  <1>6. u \in Meant(w) /\ t \in held[w]
    BY <1>3, <1>4, <1>5 DEF AimedInv, Aimed
  <1>7. QED
    BY <1>3, <1>5, <1>6

(* Every push goes to a user whom the database said during that call it is *)
(* for, on a token that was theirs since the call turned to them, with a   *)
(* row in their inbox unless they are deleted, for any number of workers,  *)
(* subscribers, devices and faults, however subscriptions and tokens       *)
(* change hands in between.                                                *)
THEOREM PushesAimed == LSpec => PushesGoWhereMeant
  <1>1. LSpec => Spec
    <2>1. LInit => Init
      BY DEF LInit
    <2>2. [LNext]_lvars => [Next]_vars
      BY DEF LNext, lvars
    <2>3. QED
      BY <2>1, <2>2, PTL DEF LSpec, Spec
  <1>2. LInit => AimedInv
    BY DEF LInit, Init, NoCall, AimedInv, Aimed
  <1>3. DeliveryInv /\ AimedInv /\ [LNext]_lvars => AimedInv'
    BY AimedNext DEF DeliveryInv, ClaimInv
  <1>4. DeliveryInv /\ RepeatInv /\ AimedInv /\ [LNext]_lvars =>
            [\A m \in Messages, u \in Users, t \in Tokens :
                pushes'[<<m, u, t>>] # pushes[<<m, u, t>>] =>
                    /\ notifications[RowKey(m, u)] # "absent" \/ u \in deleted
                    /\ \E w \in Workers : /\ MsgOf(w) = m
                                          /\ u \in Meant(w)
                                          /\ u = call[w].rcpt
                                          /\ t \in held[w]]_lvars
    BY WhereMeant DEF DeliveryInv, ClaimInv, RepeatInv
  <1>5. QED
    BY <1>1, <1>2, <1>3, <1>4, RepeatInvariant, PushInvariant, PTL
       DEF LSpec, PushesGoWhereMeant
=============================================================================
