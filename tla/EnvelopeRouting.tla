--------------------------- MODULE EnvelopeRouting ---------------------------
(***************************************************************************)
(* What Service.Handle makes of one envelope while the database and        *)
(* Firebase answer: whether it is refused, what it is claimed as, whether  *)
(* its payload can be rendered, and so whether the transport acknowledges  *)
(* it; before that, how it comes out of an SQS record or a Pub/Sub push,   *)
(* and whom a fan-out selects.  All of it is a function of the delivery: a *)
(* delivery repeated gets the same answer.                                 *)
(*                                                                         *)
(* A field is kept when a check looks at it.  A string that must be a UUID *)
(* or a Mongo ObjectID is one, or is Malformed; the zero UUID is Nil;      *)
(* Absent is a JSON null or a missing field.                               *)
(***************************************************************************)
CONSTANTS
    Nil, Malformed, Absent,
    Uuids,          \* proper, non-zero UUIDs
    ObjectIds,      \* message ids as Chat writes them
    OtherTypes,     \* event types nothing is registered for
    Versions        \* values of envelope.version

CurrentVersion == 1

ASSUME RoutingAssumption ==
    /\ Nil \notin Uuids
    /\ Malformed \notin ObjectIds
    /\ 0 \in Versions
    /\ {"new_message", "listing_approved", "gig_category_matched"}
           \cap OtherTypes = {}

-----------------------------------------------------------------------------
(* Payloads of the registered types.  `padded` is white space around the   *)
(* id; `complete` stands for the sender_name, thread_id, occurred_at and   *)
(* gig_id of a chat message being acceptable.                              *)
NewMessagePayloads ==
    [message_id : [text : ObjectIds \cup {Malformed}, padded : BOOLEAN],
     recipient_id : Uuids \cup {Malformed}, sender_id : Uuids \cup {Malformed},
     complete : BOOLEAN]

ListingApprovedPayloads ==
    [recipient_id : Uuids \cup {Malformed}, listing_id : Uuids \cup {Malformed},
     base_category_slug : {"gig", "other"}]

GigCategoryMatchedPayloads ==
    [legacy_fields : BOOLEAN, gig_id : Uuids \cup {Nil},
     category_id : Uuids \cup {Nil}, country_id : Uuids \cup {Nil, Absent},
     place_id : Uuids \cup {Nil, Absent}]

EnvelopesOf(types, payloads) ==
    [type : types, event_id : Uuids \cup {Nil}, version : Versions,
     payload : payloads]

Envelopes ==
    UNION {EnvelopesOf({"new_message"}, NewMessagePayloads),
           EnvelopesOf({"listing_approved"}, ListingApprovedPayloads),
           EnvelopesOf({"gig_category_matched"}, GigCategoryMatchedPayloads),
           EnvelopesOf(OtherTypes, {Absent})}

RegisteredTypes == {"new_message", "listing_approved", "gig_category_matched"}

Registered(e) == e.type \in RegisteredTypes
FanOut(e) == e.type = "gig_category_matched"

-----------------------------------------------------------------------------
(* strings.TrimSpace, of an id.                                            *)
Trim(id) == [id EXCEPT !.padded = FALSE]

(* The UUIDv5 of a chat message's id: as unlike the producers' event ids,  *)
(* and as like another message's, as the ids are.                          *)
NewMessageClaimID(payload) == <<"new_message", Trim(payload.message_id)>>

(* Mutation: a type is forgotten.                                          *)
OnlyListingsRequireVersions(type) == type = "listing_approved"

RequiresVersionedEnvelope(type) ==
    type \in {"listing_approved", "gig_category_matched"}

Versioned(e) ==
    \/ RequiresVersionedEnvelope(e.type)
    \/ e.event_id # Nil
    \/ e.version # 0

(* What Handle decides before it asks the database anything.               *)
Precheck(e) ==
    CASE e.type = "new_message" ->
             IF e.payload.message_id.text = Malformed THEN "nonRetryable"
                                                      ELSE "claim"
      [] e.type # "new_message" /\ ~Versioned(e) -> "unclaimed"
      [] e.type # "new_message" /\ Versioned(e) ->
             IF e.event_id = Nil \/ e.version # CurrentVersion THEN "retryable"
                                                               ELSE "claim"

(* Mutation: chat messages are claimed as their envelopes say.             *)
ClaimIdOfEnvelope(e) == <<"event_id", e.event_id>>

(* The id Claim is asked for.                                              *)
ClaimId(e) ==
    IF e.type = "new_message" THEN NewMessageClaimID(e.payload)
                              ELSE <<"event_id", e.event_id>>

-----------------------------------------------------------------------------
(* The checks of GigCategoryMatchedResolver.Resolve.                       *)
Resolvable(p) ==
    /\ ~p.legacy_fields
    /\ p.gig_id # Nil
    /\ p.category_id # Nil
    /\ p.country_id # Nil
    /\ p.place_id # Nil
    /\ p.place_id # Absent => p.country_id # Absent

(* A user as the query of ListByCategoryAndLocation sees them: Absent is a *)
(* NULL location.                                                          *)
Subscribers ==
    [id : Uuids, category_id : Uuids, country_id : Uuids \cup {Absent},
     place_id : Uuids \cup {Absent}]

(* Mutation: a user whose country is not known matches any country.        *)
SelectedOrNowhere(p, s) ==
    /\ s.category_id = p.category_id
    /\ p.country_id = Absent \/ s.country_id \in {p.country_id, Absent}
    /\ p.place_id = Absent \/ (s.place_id # Absent /\ s.place_id = p.place_id)

(* Its WHERE clause.                                                       *)
Selected(p, s) ==
    /\ s.category_id = p.category_id
    /\ p.country_id = Absent \/ s.country_id = p.country_id
    /\ p.place_id = Absent \/ (s.place_id # Absent /\ s.place_id = p.place_id)

(* The payload Resolve makes for one subscriber.                           *)
ForRecipient(p, s) ==
    [recipient_id |-> s.id, gig_id |-> p.gig_id, category_id |-> p.category_id]

(* Fields NewSemanticPush fills in, and those a renderer adds.             *)
SemanticFields ==
    {"type", "entity_type", "entity_id", "localization_key",
     "localization_args"}

RoutingWithEntity(type) ==
    CASE type = "new_message" -> {"thread_id", "gig_id", "message_id"}
      [] type = "listing_approved" -> {}
      [] type = "gig_category_matched" -> {"category_id", "entity_id"}

AdditionalRouting(type) ==
    CASE type = "new_message" -> {"thread_id", "gig_id", "message_id"}
      [] type = "listing_approved" -> {}
      [] type = "gig_category_matched" -> {"category_id"}

SemanticPushBuilds(type) == AdditionalRouting(type) \cap SemanticFields = {}

(* Render succeeds on payload p.                                           *)
NewMessageRenders(p) ==
    /\ Malformed \notin {p.recipient_id, p.sender_id, p.message_id.text}
    /\ p.recipient_id # p.sender_id
    /\ p.complete
    /\ SemanticPushBuilds("new_message")

ListingApprovedRenders(p) ==
    /\ Malformed \notin {p.recipient_id, p.listing_id}
    /\ p.base_category_slug = "gig"
    /\ SemanticPushBuilds("listing_approved")

GigCategoryMatchedRenders(p) ==
    SemanticPushBuilds("gig_category_matched")

Renderable(type, p) ==
    \/ type = "new_message" /\ NewMessageRenders(p)
    \/ type = "listing_approved" /\ ListingApprovedRenders(p)
    \/ type = "gig_category_matched" /\ GigCategoryMatchedRenders(p)

(* Mutation: source_event_id is the message_id as it came.                 *)
RowOfUntrimmedId(e) ==
    IF e.type = "new_message" THEN <<"source", e.payload.message_id>>
    ELSE <<"legacy", e.payload.recipient_id, e.payload.listing_id>>

(* The unique index entry of the notification Render makes, of an event    *)
(* that names its recipient.                                               *)
RowOf(e) ==
    IF e.type = "new_message" THEN <<"source", Trim(e.payload.message_id)>>
    ELSE <<"legacy", e.payload.recipient_id, e.payload.listing_id>>

(* What handleEvent returns.                                               *)
HandleEvent(e) ==
    IF ~Registered(e) THEN "nonRetryable"
    ELSE IF ~FanOut(e) THEN
        IF Renderable(e.type, e.payload) THEN "ok" ELSE "nonRetryable"
    ELSE IF ~Resolvable(e.payload) THEN "retryable"
    ELSE IF \A s \in Subscribers : Selected(e.payload, s) =>
                Renderable(e.type, ForRecipient(e.payload, s))
         THEN "ok" ELSE "nonRetryable"

(* What Handle returns, and what the transports make of it.                *)
Handle(e) ==
    IF Precheck(e) \in {"claim", "unclaimed"} THEN HandleEvent(e)
                                              ELSE Precheck(e)

Acknowledged(outcome) == outcome \in {"ok", "nonRetryable"}

-----------------------------------------------------------------------------
(* How an envelope arrives: a record of an SQS batch, or an HTTP request,  *)
(* POST or not.  The body may hold no envelope; a request's may break off, *)
(* or exceed the limit of MaxBytesReader.                                  *)
Deliveries ==
    [via : {"sqs"}, post : {TRUE}, body : {"envelope", "garbage"}]
        \cup [via : {"pubsub"}, post : BOOLEAN,
              body : {"envelope", "garbage", "cut off"}]

Decoded(d) == d.post /\ d.body = "envelope"

(* The SQS handler names the record in BatchItemFailures.                  *)
RecordFails(d, outcome) == Decoded(d) /\ ~Acknowledged(outcome)

(* Mutation: a non-retryable error is answered like any other.             *)
PushStatusOfAnyError(d, outcome) ==
    IF ~d.post THEN 405
    ELSE IF Decoded(d) /\ outcome # "ok" THEN 500 ELSE 204

(* HandlePubSubPush: MethodNotAllowed, InternalServerError, NoContent.     *)
PushStatus(d, outcome) ==
    IF ~d.post THEN 405
    ELSE IF Decoded(d) /\ ~Acknowledged(outcome) THEN 500 ELSE 204

(* Whether the broker will deliver the message again.                      *)
Retried(d, outcome) ==
    \/ d.via = "sqs" /\ RecordFails(d, outcome)
    \/ d.via = "pubsub" /\ PushStatus(d, outcome) # 204

-----------------------------------------------------------------------------
VARIABLES env, delivery, verdict, retried

vars == <<env, delivery, verdict, retried>>

Init ==
    /\ env \in Envelopes
    /\ delivery \in Deliveries
    /\ verdict = "none"
    /\ retried = FALSE

Decide ==
    /\ verdict = "none"
    /\ verdict' = IF Decoded(delivery) THEN Handle(env) ELSE "unhandled"
    /\ retried' = Retried(delivery, verdict')
    /\ UNCHANGED <<env, delivery>>

Next == Decide

Spec == Init /\ [][Next]_vars

-----------------------------------------------------------------------------
(* No event that is handled to the end goes round the claim table: the     *)
(* unversioned way through Handle serves unknown types only, so that the   *)
(* redelivery of whatever can be notified is always deduplicated.          *)
HandledUnderClaim ==
    verdict = "ok" => Precheck(env) = "claim"

(* The claim of a chat message and the row of its notification, computed   *)
(* in two packages, stand for the same message: two envelopes share one    *)
(* exactly when they share the other, whatever their event_id, version and *)
(* white space.                                                            *)
OneClaimOneRow ==
    env.type = "new_message" /\ verdict = "ok" =>
        \A e \in EnvelopesOf({"new_message"}, NewMessagePayloads) :
            Handle(e) = "ok" =>
                (ClaimId(e) = ClaimId(env) <=> RowOf(e) = RowOf(env))

(* A fan-out is never discarded: the errors of its recipients are joined,  *)
(* and one non-retryable among them would acknowledge the message for the  *)
(* recipients whose failure was transient.                                 *)
FanOutNeverDiscarded ==
    FanOut(env) => verdict # "nonRetryable"

(* README.md:10: "Transport code only decodes the event and reports        *)
(* whether it should be retried": both transports say the same of the same *)
(* outcome, and neither drops an event it was given whole.                 *)
TransportsAgree ==
    /\ verdict \notin {"none", "unhandled"} =>
           (retried <=> ~Acknowledged(verdict))
    /\ verdict = "unhandled" /\ delivery.body = "envelope" => retried

(* An event without its place, and without its country as well.            *)
InCountry(p) == [p EXCEPT !.place_id = Absent]
Anywhere(p) == [p EXCEPT !.place_id = Absent, !.country_id = Absent]

(* NULL decides neither way by accident.  An event that names no location  *)
(* reaches everyone in its category, those included who have not said      *)
(* where they live.  Naming the country narrows that, naming the place     *)
(* narrows it further; each leaves out whoever did not say, and nobody is  *)
(* reached by two events that name different countries, or places.         *)
LocationNarrows ==
    FanOut(env) /\ verdict = "ok" =>
        \A s \in Subscribers :
            /\ Selected(Anywhere(env.payload), s)
                   <=> s.category_id = env.payload.category_id
            /\ Selected(InCountry(env.payload), s) =>
                   Selected(Anywhere(env.payload), s)
            /\ Selected(env.payload, s) =>
                   /\ Selected(InCountry(env.payload), s)
                   /\ env.payload.country_id # Absent => s.country_id # Absent
                   /\ env.payload.place_id # Absent => s.place_id # Absent
                   /\ \A p \in GigCategoryMatchedPayloads :
                          Resolvable(p) /\ Selected(p, s) =>
                              /\ \/ Absent \in {p.country_id, env.payload.country_id}
                                 \/ p.country_id = env.payload.country_id
                              /\ \/ Absent \in {p.place_id, env.payload.place_id}
                                 \/ p.place_id = env.payload.place_id

(* README.md:141: "Unknown or malformed poison events are acknowledged so  *)
(* they do not retry forever"; here, those of unknown type.                *)
UnknownAcknowledged ==
    ~Registered(env) /\ verdict \notin {"none", "unhandled"} =>
        Acknowledged(verdict)
=============================================================================
