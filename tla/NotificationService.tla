------------------------- MODULE NotificationService -------------------------
(***************************************************************************)
(* Concurrent calls of Service.Handle against one database and Firebase.   *)
(*                                                                         *)
(* A worker runs one call at a time: a record of an SQS batch, or a        *)
(* Pub/Sub push request, from delivery to verdict.  The broker delivers at *)
(* least once: any message may be delivered again, to any idle worker,     *)
(* also while another worker is handling it and after it was acknowledged. *)
(* Every statement sent to the database and every call of Firebase is one  *)
(* step, so workers interleave between any two of them, and a call may     *)
(* die between any two of them.                                            *)
(*                                                                         *)
(* Messages that Handle refuses before it claims anything have no effect   *)
(* here and are left out; Poison messages get past the claim, and their    *)
(* payload is refused by the renderer or by the fan-out resolver.          *)
(***************************************************************************)
EXTENDS EventDeduplicator, NotificationStore

CONSTANTS
    Messages,           \* envelopes in the queue
    TypeOf, IdOf,       \* a message's event type and idempotency id
    Addressee, Entity,  \* recipient_id of the payload, and what it is about
    Senders,            \* {sender_id} of a chat message, else {}
    Poison,             \* messages whose payload is malformed
    NoMessage,          \* what an idle worker is handling
    InitialOwner,       \* fcm_tokens to begin with
    InitialSubscribers, \* users the fan-out query selects to begin with
    Movable, Mortal,    \* tokens that may change hands, or be retired
    Churning,           \* users whose subscription may change
    Leaving,            \* users who may be deleted
    MaxFaults           \* bound: failing calls, crashes and overrun leases

VARIABLES
    subscribed,         \* users ListByCategoryAndLocation selects now
    acked,              \* messages some delivery of which was acknowledged
    pc, call,           \* of each worker: where it is, and Handle's locals
    pushes,             \* history: deliveries Firebase accepted
    disrupted,          \* history: attempts at pushing a user cut short
    faults              \* spent of MaxFaults

vars == <<claims, notifications, owner, dead, deleted, subscribed, acked, pc,
          call, pushes, disrupted, faults>>
store == <<notifications, owner, dead, deleted, subscribed>>

-----------------------------------------------------------------------------
FanOut(m) == TypeOf[m] = "gig_category_matched"

(* The unique index the INSERT of a notification conflicts on.             *)
RowKey(m, u) ==
    IF TypeOf[m] = "new_message" THEN <<TypeOf[m], IdOf[m]>>
                                 ELSE <<u, Entity[m], TypeOf[m]>>

Recipients(m) == IF FanOut(m) THEN Users ELSE {Addressee[m]}

(* The rows whose user_id is u, when they exist.                           *)
Inbox(u) == {RowKey(m, u) : m \in {n \in Messages : u \in Recipients(n)}}

ASSUME MessagesAssumption ==
    /\ NoMessage \notin Messages
    /\ Poison \subseteq Messages
    /\ TypeOf \in [Messages -> EventTypes]
    /\ IdOf \in [Messages -> EventIds]
    /\ Addressee \in [Messages -> Users]
    /\ Senders \in [Messages -> SUBSET Users]
    /\ \A m \in Messages, u \in Users : RowKey(m, u) \in Keys

(* Producers derive an event's id from the event.                          *)
ASSUME ProducerAssumption ==
    \A m, n \in Messages :
        IdOf[m] = IdOf[n] /\ TypeOf[m] = TypeOf[n] => m = n

ASSUME EnvironmentAssumption ==
    /\ InitialOwner \in [Tokens -> Users \cup {NoUser}]
    /\ InitialSubscribers \subseteq Users
    /\ Movable \subseteq Tokens
    /\ Mortal \subseteq Tokens
    /\ Churning \subseteq Users
    /\ Leaving \subseteq Users
    /\ MaxFaults \in Nat

-----------------------------------------------------------------------------
Working == {"resolve", "create", "list", "send", "mark", "complete", "release"}
Phases == {"idle", "claim", "state"} \cup Working

(* Locals of a call: the recipients left, the kinds of the errors so far;  *)
(* of the current recipient the tokens not yet tried, those answered       *)
(* UNREGISTERED, whether another send failed; and, for the properties,     *)
(* whether the lease ran out under the call.                               *)
NoCall == [msg |-> NoMessage, todo |-> {}, errs |-> {}, rcpt |-> NoUser,
           devices |-> {}, gone |-> {}, failed |-> FALSE, late |-> FALSE]

Errors == {"retryable", "nonRetryable"}

Calls == [msg : Messages \cup {NoMessage}, todo : SUBSET Users,
          errs : SUBSET Errors, rcpt : Users \cup {NoUser},
          devices : SUBSET Tokens, gone : SUBSET Tokens,
          failed : BOOLEAN, late : BOOLEAN]

MsgOf(w) == call[w].msg
IdAt(w) == IdOf[MsgOf(w)]
KeyAt(w) == RowKey(MsgOf(w), call[w].rcpt)

Init ==
    /\ ClaimsInit
    /\ notifications = [k \in Keys |-> "absent"]
    /\ owner = InitialOwner
    /\ dead = {}
    /\ deleted = {}
    /\ subscribed = InitialSubscribers
    /\ acked = {}
    /\ pc = [w \in Workers |-> "idle"]
    /\ call = [w \in Workers |-> NoCall]
    /\ pushes = [d \in Messages \X Users \X Tokens |-> 0]
    /\ disrupted = [d \in Messages \X Users |-> 0]
    /\ faults = 0

-----------------------------------------------------------------------------
GoTo(w, phase) == pc' = [pc EXCEPT ![w] = phase]

(* The call ends.  The transport acknowledges, or reports a failure and    *)
(* the broker will deliver again.                                          *)
Return(w, ack) ==
    /\ acked' = IF ack THEN acked \cup {MsgOf(w)} ELSE acked
    /\ GoTo(w, "idle")
    /\ call' = [call EXCEPT ![w] = NoCall]

(* Mutation: only the last recipient's error decides.                      *)
LastErrorDecides(w, u, errors) ==
    LET rest == call[w].todo \ {u}
    IN  /\ call' = [call EXCEPT ![w] =
                       [NoCall EXCEPT !.msg = MsgOf(w), !.todo = rest,
                                      !.errs = errors, !.late = call[w].late]]
        /\ GoTo(w, IF rest # {} THEN "create"
                   ELSE IF errors = {} THEN "complete" ELSE "release")

(* handleOne returned for u: on to the next recipient, or out of the loop. *)
FinishRecipient(w, u, errors) ==
    LET rest == call[w].todo \ {u}
        errs == call[w].errs \cup errors
    IN  /\ call' = [call EXCEPT ![w] =
                       [NoCall EXCEPT !.msg = MsgOf(w), !.todo = rest,
                                      !.errs = errs, !.late = call[w].late]]
        /\ GoTo(w, IF rest # {} THEN "create"
                   ELSE IF errs = {} THEN "complete" ELSE "release")

-----------------------------------------------------------------------------
(* One delivery of m.                                                      *)
Receive(w, m) ==
    /\ pc[w] = "idle"
    /\ GoTo(w, "claim")
    /\ call' = [call EXCEPT ![w].msg = m]
    /\ UNCHANGED <<claims, store, acked, pushes, disrupted, faults>>

(* First statement of Claim.                                               *)
Claim(w) ==
    /\ pc[w] = "claim"
    /\ \/ /\ AcquireClaim(IdAt(w), TypeOf[MsgOf(w)], w)
          /\ IF FanOut(MsgOf(w))
             THEN GoTo(w, "resolve") /\ call' = call
             ELSE /\ GoTo(w, "create")
                  /\ call' = [call EXCEPT ![w].todo = {Addressee[MsgOf(w)]}]
       \/ /\ ~Acquirable(IdAt(w), TypeOf[MsgOf(w)])
          /\ GoTo(w, "state")
          /\ UNCHANGED <<claims, call>>
    /\ UNCHANGED <<store, acked, pushes, disrupted, faults>>

(* Second statement of Claim, which may already see a later row.           *)
ReadClaimState(w) ==
    /\ pc[w] = "state"
    /\ Return(w, AlreadyProcessed(IdAt(w), TypeOf[MsgOf(w)]))
    /\ UNCHANGED <<claims, store, pushes, disrupted, faults>>

(* A malformed fan-out payload is an error like any other: retryable.      *)
Resolve(w) ==
    /\ pc[w] = "resolve"
    /\ IF MsgOf(w) \in Poison
       THEN /\ call' = [call EXCEPT ![w].errs = {"retryable"}]
            /\ GoTo(w, "release")
       ELSE /\ call' = [call EXCEPT ![w].todo = subscribed]
            /\ GoTo(w, IF subscribed = {} THEN "complete" ELSE "create")
    /\ UNCHANGED <<claims, store, acked, pushes, disrupted, faults>>

(* No renderer for the type, or the renderer refuses the payload.          *)
RefusePayload(w, u) ==
    /\ pc[w] = "create"
    /\ u \in call[w].todo
    /\ MsgOf(w) \in Poison
    /\ FinishRecipient(w, u, {"nonRetryable"})
    /\ UNCHANGED <<claims, store, acked, pushes, disrupted, faults>>

(* The users a row of m for u refers to still exist.                       *)
Insertable(m, u) == ForeignKeysHold(RowKey(m, u), {u} \cup Senders[m])

(* Mutation: pushed_at is not looked at.                                   *)
CreateIgnoringPushedAt(w, u) ==
    /\ pc[w] = "create"
    /\ u \in call[w].todo
    /\ MsgOf(w) \notin Poison
    /\ Insertable(MsgOf(w), u)
    /\ CreateRow(RowKey(MsgOf(w), u))
    /\ call' = [call EXCEPT ![w].rcpt = u]
    /\ GoTo(w, "list")
    /\ UNCHANGED <<claims, owner, dead, deleted, subscribed, acked, pushes,
                   disrupted, faults>>

(* Mutation: the user_id of the row Create returns is not read.            *)
CreateWithoutUser(w, u) ==
    /\ pc[w] = "create"
    /\ u \in call[w].todo
    /\ MsgOf(w) \notin Poison
    /\ Insertable(MsgOf(w), u)
    /\ CreateRow(RowKey(MsgOf(w), u))
    /\ GoTo(w, "list")
    /\ UNCHANGED <<claims, owner, dead, deleted, subscribed, acked, call, pushes,
                   disrupted, faults>>

(* Create, and the look at the pushed_at it returns.  Subscribers come in  *)
(* no particular order.                                                    *)
Create(w, u) ==
    /\ pc[w] = "create"
    /\ u \in call[w].todo
    /\ MsgOf(w) \notin Poison
    /\ Insertable(MsgOf(w), u)
    /\ CreateRow(RowKey(MsgOf(w), u))
    /\ IF notifications[RowKey(MsgOf(w), u)] = "pushed"
       THEN FinishRecipient(w, u, {})
       ELSE /\ call' = [call EXCEPT ![w].rcpt = u]
            /\ GoTo(w, "list")
    /\ UNCHANGED <<claims, owner, dead, deleted, subscribed, acked, pushes,
                   disrupted, faults>>

(* The INSERT violates a foreign key: an error like any other.             *)
CreateOrphan(w, u) ==
    /\ pc[w] = "create"
    /\ u \in call[w].todo
    /\ MsgOf(w) \notin Poison
    /\ ~Insertable(MsgOf(w), u)
    /\ FinishRecipient(w, u, {"retryable"})
    /\ UNCHANGED <<claims, store, acked, pushes, disrupted, faults>>

(* ListByUserID; a recipient without devices is done with.                 *)
ListTokens(w) ==
    /\ pc[w] = "list"
    /\ IF TokensOf(call[w].rcpt) = {}
       THEN FinishRecipient(w, call[w].rcpt, {})
       ELSE /\ call' = [call EXCEPT ![w].devices = TokensOf(call[w].rcpt)]
            /\ GoTo(w, "send")
    /\ UNCHANGED <<claims, store, acked, pushes, disrupted, faults>>

Delivered(w, t) ==
    pushes' = [pushes EXCEPT ![<<MsgOf(w), call[w].rcpt, t>>] = @ + 1]

(* One iteration of the loop in PushProvider.Send.                         *)
SendOne(w, t) ==
    /\ pc[w] = "send"
    /\ t \in call[w].devices
    /\ IF t \in dead
       THEN /\ call' = [call EXCEPT ![w].devices = @ \ {t},
                                    ![w].gone = @ \cup {t}]
            /\ UNCHANGED pushes
       ELSE /\ call' = [call EXCEPT ![w].devices = @ \ {t}]
            /\ Delivered(w, t)
    /\ UNCHANGED <<claims, store, acked, pc, disrupted, faults>>

(* DeleteByUserID, then the look at the error Send returned.               *)
DeleteGone(w) ==
    /\ pc[w] = "send"
    /\ call[w].devices = {}
    /\ DeleteTokens(call[w].rcpt, call[w].gone)
    /\ IF call[w].failed
       THEN FinishRecipient(w, call[w].rcpt, {"retryable"})
       ELSE GoTo(w, "mark") /\ call' = call
    /\ UNCHANGED <<claims, notifications, dead, deleted, subscribed, acked,
                   pushes, disrupted, faults>>

MarkPushed(w) ==
    /\ pc[w] = "mark"
    /\ MarkRowPushed(KeyAt(w))
    /\ FinishRecipient(w, call[w].rcpt, {})
    /\ UNCHANGED <<claims, owner, dead, deleted, subscribed, acked, pushes,
                   disrupted, faults>>

(* Complete fails, and the message is retried, when the claim was lost.    *)
Complete(w) ==
    /\ pc[w] = "complete"
    /\ \/ CompleteClaim(IdAt(w), w) /\ Return(w, TRUE)
       \/ /\ ~Owns(IdAt(w), w)
          /\ claims' = claims
          /\ Return(w, FALSE)
    /\ UNCHANGED <<store, pushes, disrupted, faults>>

(* A non-retryable error anywhere in the joined error is acknowledged.     *)
Release(w) ==
    /\ pc[w] = "release"
    /\ ReleaseClaim(IdAt(w), w)
    /\ Return(w, "nonRetryable" \in call[w].errs)
    /\ UNCHANGED <<store, pushes, disrupted, faults>>

-----------------------------------------------------------------------------
(* Faults.  A write whose call fails may have been applied all the same.   *)
(* cut is the set of users whom w's attempt at its message fails by it.    *)
Fault(w, cut) ==
    /\ faults < MaxFaults
    /\ faults' = faults + 1
    /\ disrupted' = [d \in Messages \X Users |->
                        IF d[1] = MsgOf(w) /\ d[2] \in cut THEN disrupted[d] + 1
                                                           ELSE disrupted[d]]

(* An attempt counts once for a user: when something fails between the     *)
(* first send to them and MarkPushed, or when the lease runs out first and *)
(* w has still to finish with them.                                        *)
MidPush(w) ==
    IF pc[w] \in {"send", "mark"} /\ ~call[w].failed /\ ~call[w].late
    THEN {call[w].rcpt} ELSE {}

Unfinished(w) ==
    (IF pc[w] = "resolve" THEN Users ELSE call[w].todo)
        \ (IF call[w].failed THEN {call[w].rcpt} ELSE {})

(* The process dies or the call's context ends: nothing more is done and   *)
(* no verdict reaches the broker, which is taken as a failure.             *)
Crash(w) ==
    /\ pc[w] # "idle"
    /\ Fault(w, MidPush(w))
    /\ Return(w, FALSE)
    /\ UNCHANGED <<claims, store, pushes>>

ClaimFails(w) ==
    /\ pc[w] = "claim"
    /\ Fault(w, {})
    /\ AcquireClaim(IdAt(w), TypeOf[MsgOf(w)], w)
    /\ Return(w, FALSE)
    /\ UNCHANGED <<store, pushes>>

ResolveFails(w) ==
    /\ pc[w] = "resolve"
    /\ Fault(w, {})
    /\ call' = [call EXCEPT ![w].errs = {"retryable"}]
    /\ GoTo(w, "release")
    /\ UNCHANGED <<claims, store, acked, pushes>>

CreateFails(w, u) ==
    /\ pc[w] = "create"
    /\ u \in call[w].todo
    /\ MsgOf(w) \notin Poison
    /\ Fault(w, {})
    /\ \/ UNCHANGED notifications
       \/ Insertable(MsgOf(w), u) /\ CreateRow(RowKey(MsgOf(w), u))
    /\ FinishRecipient(w, u, {"retryable"})
    /\ UNCHANGED <<claims, owner, dead, deleted, subscribed, acked, pushes>>

ListFails(w) ==
    /\ pc[w] = "list"
    /\ Fault(w, {})
    /\ FinishRecipient(w, call[w].rcpt, {"retryable"})
    /\ UNCHANGED <<claims, store, acked, pushes>>

(* Mutation: a token that cannot be reached counts as unregistered.        *)
SendFailsAsUnregistered(w, t) ==
    /\ pc[w] = "send"
    /\ t \in call[w].devices
    /\ t \notin dead
    /\ Fault(w, MidPush(w))
    /\ call' = [call EXCEPT ![w].devices = @ \ {t},
                            ![w].gone = @ \cup {t}]
    /\ UNCHANGED <<claims, store, acked, pc, pushes>>

(* Mutation: the error of a send is logged and dropped.                    *)
SendFailsUnnoticed(w, t) ==
    /\ pc[w] = "send"
    /\ t \in call[w].devices
    /\ Fault(w, MidPush(w))
    /\ call' = [call EXCEPT ![w].devices = @ \ {t}]
    /\ UNCHANGED <<claims, store, acked, pc, pushes>>

(* Any error but UNREGISTERED; the device may have been reached.           *)
SendFails(w, t) ==
    /\ pc[w] = "send"
    /\ t \in call[w].devices
    /\ Fault(w, MidPush(w))
    /\ call' = [call EXCEPT ![w].devices = @ \ {t}, ![w].failed = TRUE]
    /\ \/ UNCHANGED pushes
       \/ t \notin dead /\ Delivered(w, t)
    /\ UNCHANGED <<claims, store, acked, pc>>

(* The error of the deletion hides the one of Send.                        *)
DeleteFails(w) ==
    /\ pc[w] = "send"
    /\ call[w].devices = {}
    /\ call[w].gone # {}
    /\ Fault(w, MidPush(w))
    /\ DeleteTokens(call[w].rcpt, call[w].gone) \/ UNCHANGED owner
    /\ FinishRecipient(w, call[w].rcpt, {"retryable"})
    /\ UNCHANGED <<claims, notifications, dead, deleted, subscribed, acked, pushes>>

(* Mutation: the error of MarkPushed is logged and dropped.                *)
MarkFailsUnnoticed(w) ==
    /\ pc[w] = "mark"
    /\ Fault(w, MidPush(w))
    /\ FinishRecipient(w, call[w].rcpt, {})
    /\ UNCHANGED <<claims, store, acked, pushes>>

MarkFails(w) ==
    /\ pc[w] = "mark"
    /\ Fault(w, MidPush(w))
    /\ MarkRowPushed(KeyAt(w)) \/ UNCHANGED notifications
    /\ FinishRecipient(w, call[w].rcpt, {"retryable"})
    /\ UNCHANGED <<claims, owner, dead, deleted, subscribed, acked, pushes>>

CompleteFails(w) ==
    /\ pc[w] = "complete"
    /\ Fault(w, {})
    /\ CompleteClaim(IdAt(w), w)
    /\ Return(w, FALSE)
    /\ UNCHANGED <<store, pushes>>

(* The error of Release joins the others and does not change the verdict.  *)
ReleaseFails(w) ==
    /\ pc[w] = "release"
    /\ Fault(w, {})
    /\ Return(w, "nonRetryable" \in call[w].errs)
    /\ UNCHANGED <<claims, store, pushes>>

(* The lease runs out while its owner still works.                         *)
Overrun(w) ==
    /\ pc[w] \in Working
    /\ Owns(IdAt(w), w)
    /\ Fault(w, Unfinished(w))
    /\ LeaseLapses(IdAt(w))
    /\ call' = [call EXCEPT ![w].late = TRUE]
    /\ UNCHANGED <<store, acked, pc, pushes>>

-----------------------------------------------------------------------------
(* Environment: the clock, Core's writes, Firebase.                        *)
Held(id) == \E w \in Workers : /\ pc[w] \in Working
                               /\ IdAt(w) = id
                               /\ Owns(id, w)

LeaseExpires(id) ==
    /\ ~Held(id)
    /\ LeaseLapses(id)
    /\ UNCHANGED <<store, acked, pc, call, pushes, disrupted, faults>>

TokenMoves(t, u) ==
    /\ t \in Movable
    /\ CoreAssigns(t, u)
    /\ UNCHANGED <<claims, notifications, dead, deleted, subscribed, acked, pc,
                   call, pushes, disrupted, faults>>

TokenDies(t) ==
    /\ t \in Mortal
    /\ FirebaseRetires(t)
    /\ UNCHANGED <<claims, notifications, owner, deleted, subscribed, acked, pc,
                   call, pushes, disrupted, faults>>

SubscriptionChanges(u) ==
    /\ u \in Churning \ deleted
    /\ subscribed' = IF u \in subscribed THEN subscribed \ {u}
                                         ELSE subscribed \cup {u}
    /\ UNCHANGED <<claims, notifications, owner, dead, deleted, acked, pc, call,
                   pushes, disrupted, faults>>

(* An account is deleted, and with it what Core keeps of its categories.   *)
UserLeaves(u) ==
    /\ u \in Leaving
    /\ CoreDeletes(u, Inbox(u))
    /\ subscribed' = subscribed \ {u}
    /\ UNCHANGED <<claims, dead, acked, pc, call, pushes, disrupted, faults>>

-----------------------------------------------------------------------------
(* What a worker does of itself once it has a message.                     *)
Step(w) ==
    \/ Claim(w)
    \/ ReadClaimState(w)
    \/ Resolve(w)
    \/ \E u \in Users : \/ RefusePayload(w, u)
                         \/ Create(w, u)
                         \/ CreateOrphan(w, u)
    \/ ListTokens(w)
    \/ \E t \in Tokens : SendOne(w, t)
    \/ DeleteGone(w)
    \/ MarkPushed(w)
    \/ Complete(w)
    \/ Release(w)

Failure(w) ==
    \/ Crash(w)
    \/ ClaimFails(w)
    \/ ResolveFails(w)
    \/ \E u \in Users : CreateFails(w, u)
    \/ ListFails(w)
    \/ \E t \in Tokens : SendFails(w, t)
    \/ DeleteFails(w)
    \/ MarkFails(w)
    \/ CompleteFails(w)
    \/ ReleaseFails(w)
    \/ Overrun(w)

Environment ==
    \/ \E id \in EventIds : LeaseExpires(id)
    \/ \E t \in Tokens, u \in Users : TokenMoves(t, u)
    \/ \E t \in Tokens : TokenDies(t)
    \/ \E u \in Users : SubscriptionChanges(u)
    \/ \E u \in Users : UserLeaves(u)

Next ==
    \/ \E w \in Workers, m \in Messages : Receive(w, m)
    \/ \E w \in Workers : Step(w)
    \/ \E w \in Workers : Failure(w)
    \/ Environment

Spec == Init /\ [][Next]_vars

(* A call that has begun goes on; a message that was not acknowledged is   *)
(* delivered again whenever a worker is free often enough; leases of the   *)
(* dead run out.  Nothing is promised of faults or of the other services.  *)
Fairness ==
    /\ \A w \in Workers : WF_vars(Step(w))
    /\ \A m \in Messages :
           SF_vars(m \notin acked /\ \E w \in Workers : Receive(w, m))
    /\ \A id \in EventIds : WF_vars(LeaseExpires(id))

FairSpec == Spec /\ Fairness

-----------------------------------------------------------------------------
(* Each worker, row and table holds what its declaration says; a busy      *)
(* worker has a message, and a recipient while it serves one.              *)
CallsTypeOK ==
    /\ pc \in [Workers -> Phases]
    /\ call \in [Workers -> Calls]
    /\ \A w \in Workers :
          /\ pc[w] # "idle" => MsgOf(w) \in Messages
          /\ pc[w] \in {"list", "send", "mark"} => call[w].rcpt \in Users

TypeOK ==
    /\ ClaimsTypeOK
    /\ StoreTypeOK
    /\ subscribed \subseteq Users
    /\ acked \subseteq Messages
    /\ CallsTypeOK
    /\ pushes \in [Messages \X Users \X Tokens -> Nat]
    /\ disrupted \in [Messages \X Users -> Nat]
    /\ faults \in Nat

(* Two calls work on one event at the same time only if the lease of one   *)
(* of them ran out under it: Claim keeps concurrent deliveries apart.      *)
ClaimExclusive ==
    \A v, w \in Workers :
        /\ v # w
        /\ pc[v] \in Working
        /\ pc[w] \in Working
        /\ IdAt(v) = IdAt(w)
        => call[v].late \/ call[w].late

(* m's event is recorded as processed, under the type it came with.        *)
Processed(m) ==
    /\ Recorded(IdOf[m])
    /\ claims[IdOf[m]].type = TypeOf[m]
    /\ claims[IdOf[m]].processed

(* A message leaves the queue only once its event is recorded as processed *)
(* under its own type, or because its payload can never be handled: no     *)
(* interleaving of duplicates, faults and lapsed leases acknowledges an    *)
(* event nobody finished.                                                  *)
NoEventLost ==
    \A m \in acked : Processed(m) \/ m \in Poison

(* The users m has to reach: its addressee, or everyone the fan-out query  *)
(* selects whenever it is asked; an account that may go is owed nothing.   *)
Owed(m) ==
    (IF FanOut(m) THEN InitialSubscribers \ Churning ELSE {Addressee[m]})
        \ Leaving

(* An event recorded as processed has left a notification with everyone it *)
(* is owed to, whatever failed on the way: handleEvent reports an error of *)
(* any recipient and Complete runs only without one.                       *)
ProcessedNotifies ==
    \A m \in Messages : Processed(m) =>
        \A u \in Owed(m) : notifications[RowKey(m, u)] # "absent"

(* Devices registered to u throughout.                                     *)
Steady(u) == {t \in Tokens \ (Movable \cup Mortal) : InitialOwner[t] = u}

(* pushed_at is set on the row of someone the message is for only when     *)
(* each device that was theirs throughout accepted the push of that row:   *)
(* no failed send, crash or second worker sets it early.                   *)
PushedReachesSteady ==
    \A m \in Messages : \A u \in Owed(m) :
        notifications[RowKey(m, u)] = "pushed" =>
            \A t \in Steady(u) : \E n \in Messages :
                /\ RowKey(n, u) = RowKey(m, u)
                /\ pushes[<<n, u, t>>] > 0

(* A processed event was pushed to everyone owed who has a lasting device. *)
ProcessedPushes ==
    \A m \in Messages : Processed(m) =>
        \A u \in Owed(m) :
            Steady(u) # {} => notifications[RowKey(m, u)] = "pushed"

(* Acknowledging a message ends its story, and by then everyone owed has a *)
(* notification and each device that was theirs throughout accepted its    *)
(* push: what the service is for, across duplicates, faults, lapsed leases *)
(* and events that share a row.                                            *)
AckedReachesAll ==
    \A m \in acked \ Poison : \A u \in Owed(m) :
        /\ notifications[RowKey(m, u)] # "absent"
        /\ \A t \in Steady(u) : \E n \in Messages :
              /\ RowKey(n, u) = RowKey(m, u)
              /\ pushes[<<n, u, t>>] > 0

(* Each push of a message to a user's device beyond the first is paid for  *)
(* by an attempt at that message that, for that very user, failed between  *)
(* its first send and MarkPushed or lost its lease before: otherwise       *)
(* pushed_at and the claim keep a redelivered event from pushing twice.    *)
(* An attempt pays once, however often it fails, and what it failed one    *)
(* recipient of a fan-out excuses no repeat to another.                    *)
RepeatsAreAccountedFor ==
    \A m \in Messages, u \in Users, t \in Tokens :
        pushes[<<m, u, t>>] <= 1 + disrupted[<<m, u>>]

(* While an account lasts, DeleteByUserID takes from its fcm_tokens only   *)
(* registrations that Firebase has retired, and only when a worker is      *)
(* notifying that user and saw the token answered UNREGISTERED; a token    *)
(* that moved to someone else meanwhile stays.                             *)
OnlyRetiredTokensDeleted ==
    [][\A t \in Tokens :
          owner[t] # NoUser /\ owner'[t] = NoUser /\ owner[t] \notin deleted' =>
              /\ t \in dead
              /\ \E w \in Workers : /\ t \in call[w].gone
                                    /\ call[w].rcpt = owner[t]]_vars

(* The rows that went with their users.                                    *)
Erased == UNION {Inbox(u) : u \in deleted}

(* What was recorded stays: a processed event is never claimed, released   *)
(* or retyped again, and no row of notifications goes back to an earlier   *)
(* state, unless its user is deleted.                                      *)
ProcessedIsFinal ==
    [][/\ \A id \in EventIds :
             Recorded(id) /\ claims[id].processed =>
                 /\ claims'[id] # NoRow
                 /\ claims'[id].processed
                 /\ claims'[id].type = claims[id].type
       /\ \A k \in Keys \ Erased' :
             /\ notifications[k] = "pushed" => notifications'[k] = "pushed"
             /\ notifications[k] # "absent" => notifications'[k] # "absent"]_vars

(* When faults stop, every message is acknowledged in the end, poison      *)
(* included unless it is a fan-out, whose id is not taken by an event of   *)
(* another type and whose recipient and sender are not deleted.  A fan-out *)
(* resolves its recipients anew, so it survives the deletion of one.       *)
EventuallyAcked ==
    \A m \in Messages :
        /\ \A n \in Messages : IdOf[n] = IdOf[m] => n = m
        /\ ~(FanOut(m) /\ m \in Poison)
        /\ FanOut(m) \/ m \in Poison
               \/ ({Addressee[m]} \cup Senders[m]) \cap Leaving = {}
        => <>(m \in acked)

-----------------------------------------------------------------------------
(* The abstract specification.  Rows of users who may be deleted are not   *)
(* promised, nor is anything about devices that come and go.               *)
KeptRows == UNION {{RowKey(m, u) : u \in Owed(m)} : m \in Messages}

KeptDevices ==
    [k \in KeptRows |->
        UNION {Steady(u) : u \in {v \in Users : \E m \in Messages :
                                     v \in Owed(m) /\ RowKey(m, v) = k}}]

Accepted ==
    {d \in KeptRows \X Tokens : \E m \in Messages, u \in Users :
        RowKey(m, u) = d[1] /\ pushes[<<m, u, d[2]>>] > 0}

Promise == INSTANCE DeliveryPromise WITH
    Rows <- KeptRows,
    Devices <- Tokens,
    OwedRows <- [m \in Messages |-> {RowKey(m, u) : u \in Owed(m)}],
    Lasting <- KeptDevices,
    Hopeless <- Poison,
    inbox <- {k \in KeptRows : notifications[k] # "absent"},
    reached <- Accepted,
    marked <- {k \in KeptRows : notifications[k] = "pushed"},
    finished <- {m \in Messages : Processed(m)}

(* The service, with its duplicate deliveries, its claims and its faults,  *)
(* does nothing its users and producers could tell from DeliveryPromise:   *)
(* rows are noted, pushed, marked and their events finished in this order, *)
(* one at a time, whichever workers take the steps.                        *)
KeepsPromise == Promise!Spec

-----------------------------------------------------------------------------
(* Statements of the documentation the code does not keep.                 *)

(* README.md:23: handling an event "Marks push processing as complete when *)
(* no retryable delivery error remains".                                   *)
ProcessedMeansPushed ==
    \A m \in Messages : Processed(m) =>
        \A u \in Owed(m) : notifications[RowKey(m, u)] = "pushed"

(* internal/notification/types.go:79: "PushedAt is set once a push has     *)
(* actually been delivered".                                               *)
PushedMeansDelivered ==
    \A m \in Messages : \A u \in Owed(m) :
        notifications[RowKey(m, u)] = "pushed" =>
            \E n \in Messages, t \in Tokens :
                /\ RowKey(n, u) = RowKey(m, u)
                /\ pushes[<<n, u, t>>] > 0

(* README.md:141: "Unknown or malformed poison events are acknowledged so  *)
(* they do not retry forever".                                             *)
PoisonAcknowledged ==
    \A m \in Poison : <>(m \in acked)
=============================================================================
