----------------------- MODULE EnvelopeRoutingProofs -----------------------
(***************************************************************************)
(* What Handle and the transports make of an envelope, for any identifiers,*)
(* event types and versions there are.                                     *)
(***************************************************************************)
EXTENDS EnvelopeRouting, TLAPS

Outcomes == {"ok", "retryable", "nonRetryable"}

-----------------------------------------------------------------------------
(* Envelopes and what Handle answers them.                                 *)

LEMMA EnvelopeFields ==
    ASSUME NEW e \in Envelopes
    PROVE  /\ e.type \in RegisteredTypes \cup OtherTypes
           /\ e.event_id \in Uuids \cup {Nil}
           /\ e.version \in Versions
           /\ e.type = "new_message" => e.payload \in NewMessagePayloads
           /\ e.type = "listing_approved" => e.payload \in ListingApprovedPayloads
           /\ FanOut(e) => e.payload \in GigCategoryMatchedPayloads
  BY RoutingAssumption DEF Envelopes, EnvelopesOf, RegisteredTypes, FanOut

LEMMA PrecheckAnswers ==
    ASSUME NEW e
    PROVE  Precheck(e) \in {"nonRetryable", "claim", "unclaimed", "retryable"}
  <1>1. CASE e.type = "new_message"
    BY <1>1 DEF Precheck
  <1>2. CASE e.type # "new_message"
    BY <1>2 DEF Precheck
  <1>3. QED
    BY <1>1, <1>2

LEMMA HandleAnswers ==
    ASSUME NEW e
    PROVE  Handle(e) \in Outcomes
  <1>1. HandleEvent(e) \in Outcomes
    BY DEF HandleEvent, Outcomes
  <1>2. QED
    BY <1>1, PrecheckAnswers DEF Handle, Outcomes

(* Handle goes past the claim only for envelopes no handler is registered  *)
(* for.                                                                    *)
LEMMA UnclaimedAreUnknown ==
    ASSUME NEW e, Precheck(e) = "unclaimed"
    PROVE  ~Registered(e)
  <1>1. e.type # "new_message"
    BY DEF Precheck
  <1>2. ~Versioned(e)
    BY <1>1 DEF Precheck
  <1>3. QED
    BY <1>1, <1>2
       DEF Versioned, RequiresVersionedEnvelope, Registered, RegisteredTypes

LEMMA OkIsClaimed ==
    ASSUME NEW e, Handle(e) = "ok"
    PROVE  Precheck(e) = "claim" /\ HandleEvent(e) = "ok" /\ Registered(e)
  <1>1. Precheck(e) \in {"claim", "unclaimed"} /\ HandleEvent(e) = "ok"
    BY PrecheckAnswers DEF Handle
  <1>2. Registered(e)
    BY <1>1 DEF HandleEvent
  <1>3. QED
    BY <1>1, <1>2, UnclaimedAreUnknown

(* A payload the resolver let through is rendered for every subscriber.    *)
LEMMA FanOutAnswers ==
    ASSUME NEW e, FanOut(e)
    PROVE  /\ Handle(e) \in {"ok", "retryable"}
           /\ Handle(e) = "ok" => Resolvable(e.payload)
  <1>1. Registered(e)
    BY DEF Registered, RegisteredTypes, FanOut
  <1>2. SemanticPushBuilds("gig_category_matched")
    BY DEF SemanticPushBuilds, AdditionalRouting, SemanticFields
  <1>3. \A p : Renderable(e.type, p)
    BY <1>2 DEF Renderable, GigCategoryMatchedRenders, FanOut
  <1>4. HandleEvent(e) = IF Resolvable(e.payload) THEN "ok" ELSE "retryable"
    BY <1>1, <1>3 DEF HandleEvent
  <1>5. Precheck(e) \in {"claim", "unclaimed", "retryable"}
    BY DEF Precheck, FanOut
  <1>6. QED
    BY <1>4, <1>5 DEF Handle

-----------------------------------------------------------------------------
(* The decision is made once, and is that of the envelope and the delivery.*)
Decided ==
    /\ env \in Envelopes
    /\ delivery \in Deliveries
    /\ verdict # "none" =>
           /\ verdict = IF Decoded(delivery) THEN Handle(env) ELSE "unhandled"
           /\ retried = Retried(delivery, verdict)

LEMMA DecidedInvariant == Spec => []Decided
  <1>1. Init => Decided
    BY DEF Init, Decided
  <1>2. Decided /\ [Next]_vars => Decided'
    BY DEF Decided, Next, Decide, vars
  <1>3. QED
    BY <1>1, <1>2, PTL DEF Spec

LEMMA OkIsHandled ==
    ASSUME Decided, verdict \notin {"none", "unhandled"}
    PROVE  Decoded(delivery) /\ verdict = Handle(env)
  BY DEF Decided

(* Whatever is handled to the end is handled under a claim: no envelope of *)
(* a registered type takes the unversioned way through Handle, so that its *)
(* redelivery is always deduplicated.                                      *)
THEOREM HandledAreClaimed == Spec => []HandledUnderClaim
  <1>1. Decided => HandledUnderClaim
    BY OkIsHandled, OkIsClaimed DEF HandledUnderClaim
  <1>2. QED
    BY <1>1, DecidedInvariant, PTL

(* A chat message's claim and its row both stand for its id as Chat wrote  *)
(* it: the white space is gone, and nothing else of the envelope counts.   *)
LEMMA SameMessage ==
    ASSUME NEW e \in EnvelopesOf({"new_message"}, NewMessagePayloads),
           NEW f \in EnvelopesOf({"new_message"}, NewMessagePayloads)
    PROVE  LET same == e.payload.message_id.text = f.payload.message_id.text
           IN  /\ ClaimId(e) = ClaimId(f) <=> same
               /\ RowOf(e) = RowOf(f) <=> same
  <1>1. /\ e.type = "new_message"
        /\ f.type = "new_message"
        /\ e.payload \in NewMessagePayloads
        /\ f.payload \in NewMessagePayloads
    BY DEF EnvelopesOf
  <1>2. \A p, q \in NewMessagePayloads :
            Trim(p.message_id) = Trim(q.message_id)
                <=> p.message_id.text = q.message_id.text
    BY DEF Trim, NewMessagePayloads
  <1>3. QED
    BY <1>1, <1>2 DEF ClaimId, NewMessageClaimID, RowOf

(* The claim of a chat message and the unique row of its notification      *)
(* stand for the same message, however its id is padded and whatever its   *)
(* event id and version are.                                               *)
THEOREM ClaimIsRow == Spec => []OneClaimOneRow
  <1>1. ASSUME Decided, env.type = "new_message"
        PROVE  env \in EnvelopesOf({"new_message"}, NewMessagePayloads)
    BY <1>1, RoutingAssumption DEF Decided, Envelopes, EnvelopesOf
  <1>2. Decided => OneClaimOneRow
    BY <1>1, SameMessage DEF OneClaimOneRow
  <1>3. QED
    BY <1>2, DecidedInvariant, PTL

(* No fan-out ends in a non-retryable error, which would drop the message  *)
(* for the recipients that failed for a passing reason.                    *)
THEOREM FanOutKept == Spec => []FanOutNeverDiscarded
  <1>1. Decided => FanOutNeverDiscarded
    BY OkIsHandled, FanOutAnswers DEF FanOutNeverDiscarded
  <1>2. QED
    BY <1>1, DecidedInvariant, PTL

(* SQS and Pub/Sub ask for redelivery of the same outcomes, and neither    *)
(* lets an event go that it was given whole and did not handle.            *)
THEOREM TransportsSayTheSame == Spec => []TransportsAgree
  <1>1. ASSUME Decided
        PROVE  TransportsAgree
    <2>0. /\ delivery.via \in {"sqs", "pubsub"}
          /\ delivery.via = "sqs" => delivery.post
      BY <1>1 DEF Decided, Deliveries
    <2>1. CASE verdict \notin {"none", "unhandled"}
      <3>1. Decoded(delivery) /\ retried = Retried(delivery, verdict)
        BY <1>1, <2>1, OkIsHandled DEF Decided
      <3>2. retried <=> ~Acknowledged(verdict)
        BY <2>0, <3>1 DEF Retried, RecordFails, PushStatus, Decoded
      <3>3. QED
        BY <2>1, <3>2 DEF TransportsAgree
    <2>2. CASE verdict = "unhandled" /\ delivery.body = "envelope"
      <3>1. ~Decoded(delivery)
        BY <1>1, <2>2, HandleAnswers DEF Decided, Outcomes
      <3>2. delivery.via = "pubsub" /\ ~delivery.post
        BY <2>0, <2>2, <3>1 DEF Decoded
      <3>3. retried
        BY <1>1, <2>2, <3>2 DEF Decided, Retried, PushStatus
      <3>4. QED
        BY <2>2, <3>3 DEF TransportsAgree
    <2>3. QED
      BY <2>1, <2>2 DEF TransportsAgree
  <1>2. QED
    BY <1>1, DecidedInvariant, PTL

-----------------------------------------------------------------------------
LEMMA WithoutLocation ==
    ASSUME NEW p \in GigCategoryMatchedPayloads
    PROVE  /\ InCountry(p).category_id = p.category_id
           /\ InCountry(p).country_id = p.country_id
           /\ InCountry(p).place_id = Absent
           /\ Anywhere(p).category_id = p.category_id
           /\ Anywhere(p).country_id = Absent
           /\ Anywhere(p).place_id = Absent
  BY DEF InCountry, Anywhere, GigCategoryMatchedPayloads

LEMMA SelectedLives ==
    ASSUME NEW p, NEW s, Selected(p, s)
    PROVE  /\ p.country_id # Absent =>
                  s.country_id # Absent /\ s.country_id = p.country_id
           /\ p.place_id # Absent =>
                  s.place_id # Absent /\ s.place_id = p.place_id
  BY DEF Selected

(* A location only narrows a fan-out, whatever users and locations there   *)
(* are: without one it reaches the whole category, those of unknown        *)
(* location included; with a country, alone or with a place, it reaches a  *)
(* part of that, nobody who has not said where they live, and nobody whom  *)
(* an event for another country or place reaches.                          *)
THEOREM LocationOnlyNarrows == Spec => []LocationNarrows
  <1>1. ASSUME Decided, FanOut(env), verdict = "ok"
        PROVE  env.payload \in GigCategoryMatchedPayloads
    BY <1>1, OkIsHandled, EnvelopeFields, FanOutAnswers DEF Decided
  <1>2. ASSUME Decided, FanOut(env), verdict = "ok", NEW s \in Subscribers
        PROVE  /\ Selected(Anywhere(env.payload), s)
                      <=> s.category_id = env.payload.category_id
               /\ Selected(InCountry(env.payload), s) =>
                      Selected(Anywhere(env.payload), s)
               /\ Selected(env.payload, s) => Selected(InCountry(env.payload), s)
    BY <1>1, <1>2, WithoutLocation DEF Selected
  <1>3. Decided => LocationNarrows
    BY <1>2, SelectedLives DEF LocationNarrows
  <1>4. QED
    BY <1>3, DecidedInvariant, PTL
=============================================================================
