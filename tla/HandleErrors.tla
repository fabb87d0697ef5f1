---------------------------- MODULE HandleErrors ----------------------------
(***************************************************************************)
(* The error Service.Handle returns, from the answer of the Firebase SDK   *)
(* or of a statement up to the verdict of the transport.  On its way it is *)
(* wrapped and joined several times, and twice something is read off it:   *)
(* whether a token is retired, and whether the event is poison.            *)
(*                                                                         *)
(* One call after Claim acquired the event; NotificationService has the    *)
(* concurrency and the rows, and keeps of an error only whether it is      *)
(* retryable.  Here the error is the whole tree: the sequence of its nodes *)
(* in the order errors.As visits them, the node itself before what it      *)
(* wraps and the joined errors from left to right.                         *)
(***************************************************************************)
EXTENDS Naturals, Sequences

CONSTANTS
    MaxRecipients,  \* bound: users a fan-out selects
    MaxDevices      \* bound: tokens of one user

ASSUME BoundsAssumption == MaxRecipients \in Nat /\ MaxDevices \in Nat

VARIABLES
    kind,           \* of the event: unknown type, one recipient, fan-out
    recipients,     \* payloads left after the current one
    step,           \* what the call does next
    device,         \* tokens left of the current user's
    retired,        \* PushResult.UnregisteredTokens
    sendErrs,       \* errs of PushProvider.Send, joined
    sendErr,        \* what it returned, or NoError
    errs,           \* errs of handleEvent, joined
    err,            \* what Handle returns, or NoError
    removed,        \* DeleteByUserID took these tokens of the current user
    answers,        \* history: Firebase's answers for the current user
    failures        \* history: the steps that failed in this call

vars == <<kind, recipients, step, device, retired, sendErrs, sendErr, errs,
          err, removed, answers, failures>>

push == <<device, retired, sendErrs, sendErr, removed, answers>>

-----------------------------------------------------------------------------
(* Errors.                                                                 *)
Node(type, mark) == [type |-> type, mark |-> mark]

NoError == <<>>
Plain == <<Node("error", "")>>
Wrap(e) == <<Node("wrapError", "")>> \o e
Join(es) == <<Node("joinError", "")>> \o es

(* What the SDK says of a message it could not deliver.                    *)
FirebaseError(code) == <<Node("FirebaseError", code)>>

(* It recognises its own error by a type assertion.                        *)
SdkUnregistered(e) == Head(e) = Node("FirebaseError", "UNREGISTERED")

(* Where errors.As stops; 0 if it finds nothing.                           *)
As(e, type) ==
    LET found == {i \in DOMAIN e : e[i].type = type}
    IN  IF found = {} THEN 0 ELSE CHOOSE i \in found : \A j \in found : i <= j

(* Mutation: the error is classified after context was added.              *)
SendErrorOfWrapped(e) ==
    <<Node("SendError", IF SdkUnregistered(Wrap(e)) THEN "retired" ELSE "")>> \o e

SendError(e) ==
    <<Node("SendError", IF SdkUnregistered(e) THEN "retired" ELSE "")>> \o e

ErrorTreeContains(e, node) == \E i \in DOMAIN e : e[i] = node

IsUnregistered(e) ==
    LET i == As(e, "SendError")
    IN  IF i # 0 THEN e[i].mark = "retired"
        ELSE ErrorTreeContains(e, Node("FirebaseError", "UNREGISTERED"))

NonRetryable(code, cause) == <<Node("NonRetryableError", code)>> \o cause

(* Mutation: a type assertion instead of errors.As.                        *)
PoisonAtTheTop(e) == e # NoError /\ Head(e).type = "NonRetryableError"

(* NonRetryableCode finds one.                                             *)
Discardable(e) == As(e, "NonRetryableError") # 0

-----------------------------------------------------------------------------
Init ==
    /\ kind \in {"unknown", "single", "fan_out"}
    /\ recipients = 0
    /\ step = "dispatch"
    /\ device = 0
    /\ retired = {}
    /\ sendErrs = NoError
    /\ sendErr = NoError
    /\ errs = NoError
    /\ err = NoError
    /\ removed = {}
    /\ answers = <<>>
    /\ failures = {}

Fails(what) == failures' = failures \cup {what}

(* handleEvent has its error, or none.                                     *)
EventEnds(e) ==
    /\ err' = e
    /\ step' = IF e = NoError THEN "complete" ELSE "release"

(* Dispatcher.Renderer, then resolvePayloads, which fails alike for a      *)
(* payload it refuses and for a query that failed.                         *)
Dispatch ==
    /\ step = "dispatch"
    /\ \/ /\ kind = "unknown"
          /\ Fails("renderer")
          /\ EventEnds(NonRetryable("unknown_event_type", Plain))
          /\ UNCHANGED recipients
       \/ /\ kind = "single"
          /\ recipients' = 1
          /\ step' = "next"
          /\ UNCHANGED <<err, failures>>
       \/ /\ kind = "fan_out"
          /\ recipients' \in 0..MaxRecipients
          /\ step' = "next"
          /\ UNCHANGED <<err, failures>>
       \/ /\ kind = "fan_out"
          /\ Fails("resolve")
          /\ EventEnds(Wrap(Plain))
          /\ UNCHANGED recipients
    /\ UNCHANGED <<kind, push, errs>>

(* Mutation: the errors of the loop are reported without being wrapped in. *)
SummaryOnly ==
    /\ step = "next"
    /\ recipients = 0
    /\ EventEnds(IF errs = NoError THEN NoError ELSE Plain)
    /\ UNCHANGED <<kind, recipients, push, errs, failures>>

LoopEnds ==
    /\ step = "next"
    /\ recipients = 0
    /\ EventEnds(IF errs = NoError THEN NoError ELSE Wrap(Join(errs)))
    /\ UNCHANGED <<kind, recipients, push, errs, failures>>

(* handleOne returns e for the current recipient.                          *)
RecipientEnds(e) ==
    /\ errs' = errs \o e
    /\ step' = "next"

(* Payloads a fan-out resolver built are never refused.                    *)
Render ==
    /\ step = "next"
    /\ recipients > 0
    /\ recipients' = recipients - 1
    /\ \/ step' = "create" /\ UNCHANGED <<errs, failures>>
       \/ /\ kind = "single"
          /\ Fails("render")
          /\ RecipientEnds(NonRetryable("malformed_event_payload", Wrap(Plain)))
    /\ device' = 0
    /\ retired' = {}
    /\ sendErrs' = NoError
    /\ sendErr' = NoError
    /\ removed' = {}
    /\ answers' = <<>>
    /\ UNCHANGED <<kind, err>>

(* Create, then ListByUserID: one of them fails, or the row is pushed      *)
(* already or the user has no device, or there are tokens to push to.      *)
Create ==
    /\ step = "create"
    /\ \/ \E what \in {"create", "list"} :
              Fails(what) /\ RecipientEnds(Wrap(Plain)) /\ UNCHANGED device
       \/ RecipientEnds(NoError) /\ UNCHANGED <<device, failures>>
       \/ /\ device' \in 1..MaxDevices
          /\ step' = "send"
          /\ UNCHANGED <<errs, failures>>
    /\ UNCHANGED <<kind, recipients, retired, sendErrs, sendErr, err, removed,
                   answers>>

(* The SDK's error for one message; NoError when Firebase took it.         *)
Answers == {NoError, Plain, FirebaseError("UNREGISTERED"),
            FirebaseError("UNAVAILABLE")}

SendOne ==
    /\ step = "send"
    /\ device > 0
    /\ device' = device - 1
    /\ \E a \in Answers :
          /\ answers' = Append(answers, a)
          /\ LET t == Len(answers) + 1
                 e == SendError(a)
             IN  \/ a = NoError /\ UNCHANGED <<retired, sendErrs, failures>>
                 \/ /\ a # NoError
                    /\ IsUnregistered(e)
                    /\ retired' = retired \cup {t}
                    /\ UNCHANGED <<sendErrs, failures>>
                 \/ /\ a # NoError
                    /\ ~IsUnregistered(e)
                    /\ sendErrs' = sendErrs \o Wrap(e)
                    /\ Fails("send")
                    /\ UNCHANGED retired
    /\ UNCHANGED <<kind, recipients, step, sendErr, errs, err, removed>>

SendReturns ==
    /\ step = "send"
    /\ device = 0
    /\ sendErr' = IF sendErrs = NoError THEN NoError ELSE Wrap(Join(sendErrs))
    /\ step' = "delete"
    /\ UNCHANGED <<kind, recipients, device, retired, sendErrs, errs, err,
                   removed, answers, failures>>

(* Mutation: the error of Send is looked at before the tokens are deleted. *)
DeleteAfterSendErr ==
    /\ step = "delete"
    /\ \/ sendErr # NoError /\ RecipientEnds(Wrap(sendErr)) /\ UNCHANGED removed
       \/ sendErr = NoError /\ removed' = retired /\ step' = "mark" /\ UNCHANGED errs
    /\ UNCHANGED <<kind, recipients, device, retired, sendErrs, sendErr, err,
                   answers, failures>>

(* DeleteByUserID does nothing without tokens.  Its error hides sendErr.   *)
DeleteUnregistered ==
    /\ step = "delete"
    /\ \/ /\ removed' = retired
          /\ UNCHANGED failures
          /\ \/ sendErr # NoError /\ RecipientEnds(Wrap(sendErr))
             \/ sendErr = NoError /\ step' = "mark" /\ UNCHANGED errs
       \/ /\ retired # {}
          /\ Fails("delete")
          /\ RecipientEnds(Wrap(Plain))
          /\ UNCHANGED removed
    /\ UNCHANGED <<kind, recipients, device, retired, sendErrs, sendErr, err,
                   answers>>

MarkPushed ==
    /\ step = "mark"
    /\ \/ RecipientEnds(NoError) /\ UNCHANGED failures
       \/ RecipientEnds(Wrap(Plain)) /\ Fails("mark")
    /\ UNCHANGED <<kind, recipients, push, err>>

(* Mutation: the error of Release replaces the one it is released for.     *)
ReleaseHidesCause ==
    /\ step = "release"
    /\ step' = "end"
    /\ \/ UNCHANGED <<err, failures>>
       \/ err' = Wrap(Plain) /\ Fails("release")
    /\ UNCHANGED <<kind, recipients, push, errs>>

Release ==
    /\ step = "release"
    /\ step' = "end"
    /\ \/ UNCHANGED <<err, failures>>
       \/ err' = Join(err \o Wrap(Plain)) /\ Fails("release")
    /\ UNCHANGED <<kind, recipients, push, errs>>

Complete ==
    /\ step = "complete"
    /\ step' = "end"
    /\ \/ UNCHANGED <<err, failures>>
       \/ err' = Wrap(Plain) /\ Fails("complete")
    /\ UNCHANGED <<kind, recipients, push, errs>>

Next ==
    \/ Dispatch
    \/ LoopEnds
    \/ Render
    \/ Create
    \/ SendOne
    \/ SendReturns
    \/ DeleteUnregistered
    \/ MarkPushed
    \/ Release
    \/ Complete

Spec == Init /\ [][Next]_vars

-----------------------------------------------------------------------------
(* What the transports make of it.                                         *)
Verdict(e) ==
    IF e = NoError THEN "acknowledge"
    ELSE IF Discardable(e) THEN "discard" ELSE "retry"

(* The verdict is a function of what went wrong, through every layer of    *)
(* wrapping and joining: an event is discarded exactly when no renderer    *)
(* knows its type or a renderer refuses its payload, also when Release     *)
(* failed on top of that, and acknowledged as handled exactly when nothing *)
(* failed.  All else is retried, the payloads included that a fan-out's    *)
(* resolver refuses as malformed: its errors are plain ones.               *)
VerdictFollowsCause ==
    step = "end" =>
        Verdict(err) =
            IF failures \cap {"renderer", "render"} # {} THEN "discard"
            ELSE IF failures = {} THEN "acknowledge" ELSE "retry"

(* Of the current user's tokens, DeleteByUserID takes those for which the  *)
(* SDK answered UNREGISTERED and no other: neither a token that could not  *)
(* be reached, nor does one failing device keep the retired ones of the    *)
(* same user registered; unless the deletion itself fails.                 *)
RetiredTokensRemoved ==
    step \in {"mark", "next"} /\ answers # <<>> =>
        \/ removed =
              {t \in DOMAIN answers : answers[t] = FirebaseError("UNREGISTERED")}
        \/ removed = {} /\ "delete" \in failures
=============================================================================
