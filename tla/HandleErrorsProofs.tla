------------------------ MODULE HandleErrorsProofs ------------------------
(***************************************************************************)
(* What a transport reads off the error of a call is what went wrong, and  *)
(* the tokens deleted are those Firebase retired, for any number of        *)
(* recipients and devices.                                                 *)
(***************************************************************************)
EXTENDS HandleErrors, SequenceTheorems, FiniteSetTheorems, TLAPS

NodeKinds == {"error", "wrapError", "joinError", "FirebaseError", "SendError",
              "NonRetryableError"}

Codes == {"unknown_event_type", "malformed_event_payload"}

Marks == {"", "UNREGISTERED", "UNAVAILABLE", "retired"} \cup Codes

Nodes == [type : NodeKinds, mark : Marks]
Errors == Seq(Nodes)

Steps == {"dispatch", "next", "create", "send", "delete", "mark", "release",
          "complete", "end"}

Failing == {"renderer", "resolve", "render", "create", "list", "send",
            "delete", "mark", "release", "complete"}

TypeOK ==
    /\ kind \in {"unknown", "single", "fan_out"}
    /\ recipients \in Nat
    /\ step \in Steps
    /\ device \in Nat
    /\ retired \subseteq Nat
    /\ sendErrs \in Errors
    /\ sendErr \in Errors
    /\ errs \in Errors
    /\ err \in Errors
    /\ removed \subseteq Nat
    /\ answers \in Seq(Answers)
    /\ failures \subseteq Failing

-----------------------------------------------------------------------------
(* The marks of an error, and that the poison of a tree is found wherever  *)
(* in it the NonRetryableError is.                                         *)
Poisoned(e) == \E i \in DOMAIN e : e[i].type = "NonRetryableError"

PoisonFailures == {"renderer", "render"}

Poison == failures \cap PoisonFailures # {}

(* What the error of each level says of the failures so far.               *)
SendAccounts ==
    /\ ~Poisoned(sendErrs) /\ ~Poisoned(sendErr)
    /\ step = "delete" => (sendErr # NoError <=> sendErrs # NoError)
    /\ step = "mark" => sendErr = NoError /\ sendErrs = NoError
    /\ step = "create" => sendErrs = NoError

LoopAccounts ==
    /\ step \in {"dispatch", "next", "create", "send", "delete", "mark"} =>
           /\ err = NoError
           /\ Poisoned(errs) <=> Poison
           /\ "renderer" \notin failures
    /\ step \in {"dispatch", "next", "create", "mark"} =>
           (errs # NoError <=> failures # {})
    /\ step \in {"send", "delete"} =>
           (errs # NoError \/ sendErrs # NoError <=> failures # {})

CallAccounts ==
    /\ step \in {"dispatch", "complete"} => err = NoError /\ failures = {}
    /\ step = "release" => err # NoError
    /\ step \in {"release", "end"} =>
           /\ err # NoError <=> failures # {}
           /\ Poisoned(err) <=> Poison

ErrorsInv == SendAccounts /\ LoopAccounts /\ CallAccounts

(* The tokens of the current user for which the SDK answered UNREGISTERED. *)
Unregistered ==
    {t \in DOMAIN answers : answers[t] = FirebaseError("UNREGISTERED")}

TokensInv ==
    /\ step \in {"dispatch", "create"} => answers = <<>> /\ retired = {}
    /\ step \in {"create", "send", "delete"} => removed = {}
    /\ step \in {"send", "delete", "mark"} => retired = Unregistered
    /\ step = "mark" => removed = retired
    /\ step = "next" =>
           \/ answers = <<>>
           \/ removed = Unregistered
           \/ removed = {} /\ "delete" \in failures

-----------------------------------------------------------------------------
(* Errors as sequences of nodes.                                           *)

LEMMA ErrorParts ==
    ASSUME NEW e \in Errors, NEW f \in Errors
    PROVE  /\ e \o f \in Errors
           /\ e \o f # NoError <=> e # NoError \/ f # NoError
           /\ Poisoned(e \o f) <=> Poisoned(e) \/ Poisoned(f)
  <1>1. e \o f \in Errors
    BY DEF Errors
  <1>2. e \o f # NoError <=> e # NoError \/ f # NoError
    BY ConcatProperties, EmptySeq, ConcatSimplifications DEF NoError, Errors
  <1>3. /\ DOMAIN e = 1 .. Len(e) /\ Len(e) \in Nat
        /\ DOMAIN f = 1 .. Len(f) /\ Len(f) \in Nat
        /\ DOMAIN (e \o f) = 1 .. Len(e) + Len(f)
        /\ \A i \in 1 .. Len(e) + Len(f) :
               (e \o f)[i] = IF i <= Len(e) THEN e[i] ELSE f[i - Len(e)]
    BY <1>1, ConcatProperties, LenProperties DEF Errors
  <1>4. Poisoned(e) \/ Poisoned(f) => Poisoned(e \o f)
    <2>1. ASSUME NEW i \in 1 .. Len(e)
          PROVE  i \in DOMAIN (e \o f) /\ (e \o f)[i] = e[i]
      BY <1>3
    <2>2. ASSUME NEW i \in 1 .. Len(f)
          PROVE  /\ i + Len(e) \in DOMAIN (e \o f)
                 /\ (e \o f)[i + Len(e)] = f[i]
      <3>1. i + Len(e) \in 1 .. Len(e) + Len(f) /\ ~(i + Len(e) <= Len(e))
        BY <1>3
      <3>2. (i + Len(e)) - Len(e) = i
        BY <1>3
      <3>3. QED
        BY <1>3, <3>1, <3>2
    <2>3. QED
      BY <1>3, <2>1, <2>2 DEF Poisoned
  <1>5. Poisoned(e \o f) => Poisoned(e) \/ Poisoned(f)
    <2> SUFFICES ASSUME NEW i \in 1 .. Len(e) + Len(f),
                        (e \o f)[i].type = "NonRetryableError"
                 PROVE  Poisoned(e) \/ Poisoned(f)
      BY <1>3 DEF Poisoned
    <2>1. CASE i <= Len(e)
      BY <1>3, <2>1 DEF Poisoned
    <2>2. CASE ~(i <= Len(e))
      <3>1. i - Len(e) \in 1 .. Len(f) /\ (e \o f)[i] = f[i - Len(e)]
        BY <1>3, <2>2
      <3>2. QED
        BY <1>3, <3>1 DEF Poisoned
    <2>3. QED
      BY <2>1, <2>2
  <1>6. QED
    BY <1>1, <1>2, <1>4, <1>5

(* Putting a node on top of an error makes an error and hides nothing.     *)
LEMMA SingleNode ==
    ASSUME NEW n \in Nodes
    PROVE  /\ <<n>> \in Errors /\ <<n>> # NoError
           /\ Len(<<n>>) = 1 /\ <<n>>[1] = n
           /\ Poisoned(<<n>>) <=> n.type = "NonRetryableError"
  BY DEF Errors, NoError, Poisoned

LEMMA NodeOnTop ==
    ASSUME NEW n \in Nodes, NEW e \in Errors
    PROVE  /\ <<n>> \o e \in Errors /\ <<n>> \o e # NoError
           /\ Poisoned(<<n>> \o e) <=>
                  n.type = "NonRetryableError" \/ Poisoned(e)
  BY SingleNode, ErrorParts

LEMMA NodeTypes ==
    ASSUME NEW type \in NodeKinds, NEW mark \in Marks
    PROVE  Node(type, mark) \in Nodes /\ Node(type, mark).type = type
  BY DEF Node, Nodes, NodeKinds, Marks, Codes

LEMMA PlainError ==
    /\ NoError \in Errors /\ ~Poisoned(NoError)
    /\ Plain \in Errors /\ Plain # NoError /\ ~Poisoned(Plain)
  <1>1. NoError \in Errors /\ ~Poisoned(NoError)
    BY DEF NoError, Errors, Poisoned
  <1>2. Node("error", "") \in Nodes /\ Node("error", "").type = "error"
    BY NodeTypes DEF NodeKinds, Marks, Codes
  <1>3. Plain \in Errors /\ ~Poisoned(Plain)
    BY <1>1, <1>2, SingleNode DEF Plain
  <1>4. Plain # NoError
    BY DEF Plain, NoError
  <1>5. QED
    BY <1>1, <1>3, <1>4

LEMMA Wrapped ==
    ASSUME NEW e \in Errors
    PROVE  /\ Wrap(e) \in Errors /\ Wrap(e) # NoError
           /\ Poisoned(Wrap(e)) <=> Poisoned(e)
           /\ Join(e) \in Errors /\ Join(e) # NoError
           /\ Poisoned(Join(e)) <=> Poisoned(e)
           /\ SendError(e) \in Errors /\ SendError(e) # NoError
           /\ Poisoned(SendError(e)) <=> Poisoned(e)
  <1>1. Node("wrapError", "") \in Nodes /\ Node("wrapError", "").type = "wrapError"
    BY NodeTypes DEF NodeKinds, Marks, Codes
  <1>2. Node("joinError", "") \in Nodes /\ Node("joinError", "").type = "joinError"
    BY NodeTypes DEF NodeKinds, Marks, Codes
  <1>3. /\ Wrap(e) \in Errors /\ Wrap(e) # NoError
        /\ Poisoned(Wrap(e)) <=> Poisoned(e)
    BY <1>1, NodeOnTop DEF Wrap
  <1>4. /\ Join(e) \in Errors /\ Join(e) # NoError
        /\ Poisoned(Join(e)) <=> Poisoned(e)
    BY <1>2, NodeOnTop DEF Join
  <1> DEFINE mark == IF SdkUnregistered(e) THEN "retired" ELSE ""
  <1>5. SendError(e) = <<Node("SendError", mark)>> \o e /\ mark \in Marks
    BY DEF SendError, Marks
  <1> HIDE DEF mark
  <1>6. /\ Node("SendError", mark) \in Nodes
        /\ Node("SendError", mark).type = "SendError"
    BY <1>5, NodeTypes DEF NodeKinds, Marks, Codes
  <1>7. /\ SendError(e) \in Errors /\ SendError(e) # NoError
        /\ Poisoned(SendError(e)) <=> Poisoned(e)
    BY <1>5, <1>6, NodeOnTop
  <1>8. QED
    BY <1>3, <1>4, <1>7

LEMMA Poisonous ==
    ASSUME NEW e \in Errors, NEW code \in Codes
    PROVE  /\ NonRetryable(code, e) \in Errors
           /\ NonRetryable(code, e) # NoError
           /\ Poisoned(NonRetryable(code, e))
  <1>1. /\ Node("NonRetryableError", code) \in Nodes
        /\ Node("NonRetryableError", code).type = "NonRetryableError"
    BY NodeTypes DEF NodeKinds, Marks, Codes
  <1>2. QED
    BY <1>1, NodeOnTop DEF NonRetryable

-----------------------------------------------------------------------------
(* errors.As.                                                              *)

(* A non-empty set of indices has a least element: the initial segments    *)
(* its elements end are finite sets, which inclusion orders well.          *)
LEMMA LeastIndex ==
    ASSUME NEW n \in Nat, NEW T \in SUBSET (1 .. n), T # {}
    PROVE  \E x \in T : \A y \in T : x <= y
  <1> DEFINE S == 1 .. n
             Segments == {1 .. x : x \in T}
  <1>1. IsWellFoundedOn(StrictSubsetOrdering(S), FiniteSubsetsOf(S))
    BY FS_StrictSubsetOrderingWellFounded
  <1>2. \A x \in T : 1 .. x \in FiniteSubsetsOf(S)
    <2>1. \A x \in T : IsFiniteSet(1 .. x)
      BY FS_Interval
    <2>2. \A x \in T : 1 .. x \subseteq S
      OBVIOUS
    <2>3. QED
      BY <2>1, <2>2 DEF FiniteSubsetsOf
  <1>3. Segments \subseteq FiniteSubsetsOf(S) /\ Segments # {}
    BY <1>2
  <1>4. \E U \in Segments : \A V \in Segments :
            <<V, U>> \notin StrictSubsetOrdering(S)
    <2> HIDE DEF Segments, S
    <2> QED
      BY <1>1, <1>3, WFMin
  <1>5. PICK x \in T : \A y \in T :
            <<1 .. y, 1 .. x>> \notin StrictSubsetOrdering(S)
    BY <1>4
  <1>6. ASSUME NEW y \in T, y < x
        PROVE  FALSE
    <2>1. x \in 1 .. x /\ x \notin 1 .. y /\ 1 .. y \subseteq 1 .. x
      BY <1>6
    <2>2. <<1 .. y, 1 .. x>> \in StrictSubsetOrdering(S)
      BY <2>1 DEF StrictSubsetOrdering
    <2>3. QED
      BY <1>5, <2>2
  <1>7. QED
    BY <1>6

(* It finds the first node of the type, when there is one, however deep.   *)
LEMMA AsFinds ==
    ASSUME NEW e \in Errors, NEW type
    PROVE  LET i == As(e, type)
           IN  IF \E j \in DOMAIN e : e[j].type = type
               THEN /\ i \in DOMAIN e
                    /\ e[i].type = type
                    /\ \A j \in DOMAIN e : e[j].type = type => i <= j
               ELSE i = 0
  <1> DEFINE found == {j \in DOMAIN e : e[j].type = type}
  <1>1. found \subseteq 1 .. Len(e) /\ Len(e) \in Nat
    BY LenProperties DEF Errors
  <1>2. As(e, type) = IF found = {} THEN 0
                      ELSE CHOOSE i \in found : \A j \in found : i <= j
    BY DEF As
  <1>3. CASE found = {}
    BY <1>2, <1>3
  <1>4. CASE found # {}
    <2>1. \E i \in found : \A j \in found : i <= j
      <3> HIDE DEF found
      <3> QED
        BY <1>1, <1>4, LeastIndex
    <2>2. /\ As(e, type) \in found
          /\ \A j \in found : As(e, type) <= j
      <3> HIDE DEF found
      <3> QED
        BY <1>2, <1>4, <2>1
    <2>3. QED
      BY <1>4, <2>2
  <1>5. QED
    BY <1>3, <1>4

LEMMA DiscardablePoison ==
    ASSUME NEW e \in Errors
    PROVE  Discardable(e) <=> Poisoned(e)
  <1>1. \A i \in DOMAIN e : i # 0
    BY LenProperties DEF Errors
  <1>2. QED
    BY <1>1, AsFinds DEF Discardable, Poisoned

(* What is on top is found first.                                          *)
LEMMA AsFindsTop ==
    ASSUME NEW n \in Nodes, NEW e \in Errors
    PROVE  LET s == <<n>> \o e
           IN  As(s, n.type) = 1 /\ s[1] = n
  <1>1. <<n>> \o e \in Errors
    BY NodeOnTop
  <1>2. /\ Len(<<n>> \o e) = 1 + Len(e)
        /\ (<<n>> \o e)[1] = n
        /\ Len(e) \in Nat
    <2> DEFINE top == <<n>>
    <2>1. top \in Seq(Nodes) /\ Len(top) = 1 /\ top[1] = n
      BY SingleNode DEF Errors
    <2> HIDE DEF top
    <2>2. e \in Seq(Nodes) /\ Len(e) \in Nat
      BY LenProperties DEF Errors
    <2>3. /\ Len(top \o e) = Len(top) + Len(e)
          /\ \A i \in 1 .. Len(top) + Len(e) :
                 (top \o e)[i] = IF i <= Len(top) THEN top[i] ELSE e[i - Len(top)]
      BY <2>1, <2>2, ConcatProperties
    <2>4. 1 \in 1 .. Len(top) + Len(e) /\ 1 <= Len(top)
      BY <2>1, <2>2
    <2>5. (top \o e)[1] = n
      BY <2>1, <2>3, <2>4
    <2>6. QED
      BY <2>1, <2>2, <2>3, <2>5 DEF top
  <1>3. \A s \in Errors : DOMAIN s = 1 .. Len(s)
    BY LenProperties DEF Errors
  <1> DEFINE s == <<n>> \o e
  <1>4. s \in Errors /\ 1 \in DOMAIN s /\ s[1] = n
    BY <1>1, <1>2, <1>3
  <1>5. \A i \in DOMAIN s : i \in Nat /\ i >= 1
    BY <1>1, <1>2, <1>3
  <1> HIDE DEF s
  <1>6. As(s, n.type) \in DOMAIN s /\ As(s, n.type) <= 1
    BY <1>4, AsFinds
  <1>7. As(s, n.type) = 1
    BY <1>5, <1>6
  <1>8. QED
    BY <1>4, <1>7 DEF s

(* The SDK's classification of its own error survives the wrapping: the    *)
(* SendError is the first errors.As meets.                                 *)
LEMMA ClassificationKept ==
    ASSUME NEW e \in Errors
    PROVE  IsUnregistered(SendError(e)) <=> SdkUnregistered(e)
  <1> DEFINE mark == IF SdkUnregistered(e) THEN "retired" ELSE ""
             n == Node("SendError", mark)
  <1>1. n \in Nodes
    <2>1. mark \in Marks
      BY DEF Marks
    <2> HIDE DEF mark
    <2>2. QED
      BY <2>1, NodeTypes DEF NodeKinds
  <1>2. n.type = "SendError" /\ n.mark = mark
    BY DEF Node
  <1>3. SendError(e) = <<n>> \o e
    BY DEF SendError
  <1> HIDE DEF n
  <1>4. As(SendError(e), "SendError") = 1 /\ SendError(e)[1] = n
    BY <1>1, <1>2, <1>3, AsFindsTop
  <1>5. IsUnregistered(SendError(e)) <=> mark = "retired"
    <2> HIDE DEF mark
    <2>1. QED
      BY <1>2, <1>4 DEF IsUnregistered
  <1>6. QED
    BY <1>5

-----------------------------------------------------------------------------
LEMMA AnswerErrors ==
    /\ Answers \subseteq Errors
    /\ \A a \in Answers : ~Poisoned(a)
    /\ \A a \in Answers \ {NoError} :
           SdkUnregistered(a) <=> a = FirebaseError("UNREGISTERED")
  <1>1. ASSUME NEW code \in {"UNREGISTERED", "UNAVAILABLE"}
        PROVE  /\ FirebaseError(code) \in Errors
               /\ ~Poisoned(FirebaseError(code))
    <2>1. /\ Node("FirebaseError", code) \in Nodes
          /\ Node("FirebaseError", code).type = "FirebaseError"
      BY NodeTypes DEF NodeKinds, Marks
    <2>2. QED
      BY <2>1, SingleNode DEF FirebaseError
  <1>2. Answers \subseteq Errors /\ \A a \in Answers : ~Poisoned(a)
    BY <1>1, PlainError DEF Answers
  <1>3. /\ SdkUnregistered(FirebaseError("UNREGISTERED"))
        /\ ~SdkUnregistered(FirebaseError("UNAVAILABLE"))
        /\ ~SdkUnregistered(Plain)
    <2>1. \A n \in Nodes : SdkUnregistered(<<n>>)
                                <=> n = Node("FirebaseError", "UNREGISTERED")
      BY DEF SdkUnregistered
    <2>2. /\ Node("FirebaseError", "UNREGISTERED") \in Nodes
          /\ Node("FirebaseError", "UNAVAILABLE") \in Nodes
          /\ Node("error", "") \in Nodes
      BY NodeTypes DEF NodeKinds, Marks
    <2>3. /\ Node("FirebaseError", "UNAVAILABLE").mark = "UNAVAILABLE"
          /\ Node("FirebaseError", "UNREGISTERED").mark = "UNREGISTERED"
          /\ Node("error", "").mark = ""
      BY DEF Node
    <2>4. QED
      BY <2>1, <2>2, <2>3 DEF FirebaseError, Plain
  <1>4. QED
    BY <1>2, <1>3 DEF Answers

LEMMA TypeNext ==
    ASSUME TypeOK, [Next]_vars
    PROVE  TypeOK'
  <1> USE PlainError, Wrapped
  <1>1. ASSUME NEW e \in Errors, RecipientEnds(e)
        PROVE  errs' \in Errors /\ step' = "next"
    BY <1>1, ErrorParts DEF RecipientEnds, TypeOK
  <1>2. ASSUME NEW e \in Errors, EventEnds(e)
        PROVE  err' \in Errors /\ step' \in {"complete", "release"}
    BY <1>2 DEF EventEnds
  <1>3. ASSUME NEW what \in Failing, Fails(what)
        PROVE  failures' \subseteq Failing
    BY <1>3 DEF Fails, TypeOK
  <1>4. CASE Dispatch
    <2>1. /\ NonRetryable("unknown_event_type", Plain) \in Errors
          /\ Wrap(Plain) \in Errors
      BY Poisonous DEF Codes
    <2>2. recipients' \in Nat
      BY <1>4, BoundsAssumption DEF Dispatch, TypeOK
    <2>3. err' \in Errors /\ step' \in Steps /\ failures' \subseteq Failing
      BY <1>2, <1>3, <1>4, <2>1 DEF Dispatch, TypeOK, Steps, Failing
    <2>4. QED
      BY <1>4, <2>2, <2>3 DEF Dispatch, push, TypeOK
  <1>5. CASE LoopEnds
    <2>1. err' \in Errors /\ step' \in Steps
      BY <1>2, <1>5 DEF LoopEnds, TypeOK, Steps
    <2>2. QED
      BY <1>5, <2>1 DEF LoopEnds, push, TypeOK
  <1>6. CASE Render
    <2>1. NonRetryable("malformed_event_payload", Wrap(Plain)) \in Errors
      BY Poisonous DEF Codes
    <2>2. errs' \in Errors /\ step' \in Steps /\ failures' \subseteq Failing
      BY <1>1, <1>3, <1>6, <2>1 DEF Render, TypeOK, Steps, Failing
    <2>3. recipients' \in Nat
      BY <1>6 DEF Render, TypeOK
    <2>4. <<>> \in Seq(Answers)
      OBVIOUS
    <2>5. QED
      BY <1>6, <2>2, <2>3, <2>4 DEF Render, TypeOK
  <1>7. CASE Create
    <2>1. errs' \in Errors /\ step' \in Steps /\ failures' \subseteq Failing
      BY <1>1, <1>3, <1>7 DEF Create, TypeOK, Steps, Failing
    <2>2. device' \in Nat
      BY <1>7, BoundsAssumption DEF Create, TypeOK
    <2>3. QED
      BY <1>7, <2>1, <2>2 DEF Create, TypeOK
  <1>8. CASE SendOne
    <2>1. answers' \in Seq(Answers)
      BY <1>8 DEF SendOne, TypeOK
    <2>2. Len(answers) + 1 \in Nat
      BY LenProperties DEF TypeOK
    <2>3. retired' \subseteq Nat
      BY <1>8, <2>2 DEF SendOne, TypeOK
    <2>4. \A a \in Answers : sendErrs \o Wrap(SendError(a)) \in Errors
      BY AnswerErrors, ErrorParts DEF TypeOK
    <2>5. sendErrs' \in Errors
      <3>1. PICK a \in Answers :
                sendErrs' = sendErrs \/ sendErrs' = sendErrs \o Wrap(SendError(a))
        BY <1>8 DEF SendOne
      <3>2. sendErrs \o Wrap(SendError(a)) \in Errors /\ sendErrs \in Errors
        BY <2>4 DEF TypeOK
      <3>3. QED
        BY <3>1, <3>2, Zenon
    <2>6. failures' \subseteq Failing
      BY <1>3, <1>8 DEF SendOne, TypeOK, Failing
    <2>7. device' \in Nat
      BY <1>8 DEF SendOne, TypeOK
    <2>8. QED
      BY <1>8, <2>1, <2>3, <2>5, <2>6, <2>7 DEF SendOne, TypeOK
  <1>9. CASE SendReturns
    BY <1>9 DEF SendReturns, TypeOK, Steps
  <1>10. CASE DeleteUnregistered
    <2>1. errs' \in Errors /\ step' \in Steps /\ failures' \subseteq Failing
      BY <1>1, <1>3, <1>10 DEF DeleteUnregistered, TypeOK, Steps, Failing
    <2>2. QED
      BY <1>10, <2>1 DEF DeleteUnregistered, TypeOK
  <1>11. CASE MarkPushed
    <2>1. errs' \in Errors /\ step' \in Steps /\ failures' \subseteq Failing
      BY <1>1, <1>3, <1>11 DEF MarkPushed, TypeOK, Steps, Failing
    <2>2. QED
      BY <1>11, <2>1 DEF MarkPushed, push, TypeOK
  <1>12. CASE Release \/ Complete
    <2>1. Join(err \o Wrap(Plain)) \in Errors
      BY ErrorParts DEF TypeOK
    <2>2. err' \in Errors /\ step' \in Steps /\ failures' \subseteq Failing
      BY <1>3, <1>12, <2>1 DEF Release, Complete, TypeOK, Steps, Failing
    <2>3. QED
      BY <1>12, <2>2 DEF Release, Complete, push, TypeOK
  <1>13. CASE UNCHANGED vars
    BY <1>13 DEF vars, TypeOK
  <1>14. QED
    BY <1>4, <1>5, <1>6, <1>7, <1>8, <1>9, <1>10, <1>11, <1>12, <1>13 DEF Next

LEMMA TypeCorrect == Spec => []TypeOK
  <1>1. Init => TypeOK
    BY PlainError DEF Init, TypeOK, Steps
  <1>2. TypeOK /\ [Next]_vars => TypeOK'
    BY TypeNext
  <1>3. QED
    BY <1>1, <1>2, PTL DEF Spec

-----------------------------------------------------------------------------
(* What a step adds to the errors of the loop, and to the failures.        *)

LEMMA RecipientAccounts ==
    ASSUME TypeOK, NEW e \in Errors, RecipientEnds(e)
    PROVE  /\ step' = "next"
           /\ errs' # NoError <=> errs # NoError \/ e # NoError
           /\ Poisoned(errs') <=> Poisoned(errs) \/ Poisoned(e)
  <1>1. errs' = errs \o e /\ step' = "next"
    BY DEF RecipientEnds
  <1>2. errs \in Errors
    BY DEF TypeOK
  <1>3. /\ errs \o e # NoError <=> errs # NoError \/ e # NoError
        /\ Poisoned(errs \o e) <=> Poisoned(errs) \/ Poisoned(e)
    BY <1>2, ErrorParts
  <1>4. Poisoned(errs') <=> Poisoned(errs \o e)
    BY <1>1, Zenon
  <1>5. errs' # NoError <=> errs \o e # NoError
    BY <1>1, Zenon
  <1>6. QED
    BY <1>1, <1>3, <1>4, <1>5, Zenon

LEMMA FailureAccounts ==
    ASSUME NEW what \in Failing, Fails(what)
    PROVE  /\ failures' # {}
           /\ Poison' <=> Poison \/ what \in PoisonFailures
           /\ "renderer" \in failures' <=>
                  "renderer" \in failures \/ what = "renderer"
  BY DEF Fails, Poison

LEMMA SendAccountsNext ==
    ASSUME TypeOK, ErrorsInv, [Next]_vars
    PROVE  SendAccounts'
  <1>0. SendAccounts
    BY DEF ErrorsInv
  <1>1. ASSUME UNCHANGED <<sendErrs, sendErr>>,
               step' \in {"create", "delete", "mark"} => step' = step
        PROVE  SendAccounts'
    BY <1>0, <1>1 DEF SendAccounts
  <1>2. CASE Dispatch
    <2>1. step' \in {"next", "complete", "release"}
      BY <1>2 DEF Dispatch, EventEnds
    <2>2. QED
      BY <1>1, <1>2, <2>1 DEF Dispatch, push
  <1>3. CASE LoopEnds \/ MarkPushed \/ Release \/ Complete
    <2>1. step' \in {"next", "complete", "release", "end"}
      BY <1>3 DEF LoopEnds, MarkPushed, Release, Complete, EventEnds,
                  RecipientEnds
    <2>2. QED
      BY <1>1, <1>3, <2>1 DEF LoopEnds, MarkPushed, Release, Complete, push
  <1>4. CASE Render
    <2>1. step' \in {"next", "create"} /\ sendErrs' = NoError /\ sendErr' = NoError
      BY <1>4 DEF Render, RecipientEnds
    <2>2. QED
      BY <2>1, PlainError DEF SendAccounts
  <1>5. CASE Create
    <2>1. step' \in {"next", "send"} /\ UNCHANGED <<sendErrs, sendErr>>
      BY <1>5 DEF Create, RecipientEnds
    <2>2. QED
      BY <1>1, <2>1
  <1>6. CASE SendOne
    <2>1. PICK a \in Answers :
              sendErrs' = sendErrs \/ sendErrs' = sendErrs \o Wrap(SendError(a))
      BY <1>6 DEF SendOne
    <2>2. Wrap(SendError(a)) \in Errors /\ ~Poisoned(Wrap(SendError(a)))
      BY AnswerErrors, Wrapped
    <2>3. sendErrs \in Errors
      BY DEF TypeOK
    <2>4. ~Poisoned(sendErrs \o Wrap(SendError(a)))
      BY <1>0, <2>2, <2>3, ErrorParts DEF SendAccounts
    <2>5. ~Poisoned(sendErrs')
      BY <1>0, <2>1, <2>4, Zenon DEF SendAccounts
    <2>6. step' = "send" /\ sendErr' = sendErr
      BY <1>6 DEF SendOne
    <2>7. QED
      BY <1>0, <2>5, <2>6 DEF SendAccounts
  <1>7. CASE SendReturns
    <2>1. sendErrs \in Errors /\ ~Poisoned(sendErrs)
      BY <1>0 DEF TypeOK, SendAccounts
    <2>2. ~Poisoned(Wrap(Join(sendErrs))) /\ Wrap(Join(sendErrs)) # NoError
      BY <2>1, Wrapped
    <2>3. QED
      BY <1>7, <2>1, <2>2, PlainError DEF SendReturns, SendAccounts
  <1>8. CASE DeleteUnregistered
    <2>1. UNCHANGED <<sendErrs, sendErr>>
      BY <1>8 DEF DeleteUnregistered
    <2>2. step' = "next" \/ (step' = "mark" /\ sendErr = NoError)
      BY <1>8 DEF DeleteUnregistered, RecipientEnds
    <2>3. step = "delete"
      BY <1>8 DEF DeleteUnregistered
    <2>4. QED
      BY <1>0, <2>1, <2>2, <2>3 DEF SendAccounts
  <1>9. CASE UNCHANGED vars
    BY <1>0, <1>9 DEF vars, SendAccounts
  <1>10. QED
    BY <1>2, <1>3, <1>4, <1>5, <1>6, <1>7, <1>8, <1>9 DEF Next

LEMMA LoopAccountsNext ==
    ASSUME TypeOK, ErrorsInv, [Next]_vars
    PROVE  LoopAccounts'
  <1>0. SendAccounts /\ LoopAccounts
    BY DEF ErrorsInv
  <1>1. CASE Dispatch
    <2>1. /\ step = "dispatch" /\ errs' = errs
          /\ \/ step' \in {"complete", "release"}
             \/ step' = "next" /\ UNCHANGED <<err, failures>>
      BY <1>1 DEF Dispatch, EventEnds
    <2>2. QED
      BY <1>0, <2>1 DEF LoopAccounts, Poison
  <1>2. CASE LoopEnds \/ Release \/ Complete
    <2>1. step' \in {"complete", "release", "end"}
      BY <1>2 DEF LoopEnds, Release, Complete, EventEnds
    <2>2. QED
      BY <2>1 DEF LoopAccounts
  <1>3. CASE Render
    <2> DEFINE refusal == NonRetryable("malformed_event_payload", Wrap(Plain))
    <2>1. refusal \in Errors /\ refusal # NoError /\ Poisoned(refusal)
      BY PlainError, Wrapped, Poisonous DEF Codes
    <2> HIDE DEF refusal
    <2>2. /\ step = "next" /\ err' = err
          /\ \/ step' = "create" /\ UNCHANGED <<errs, failures>>
             \/ Fails("render") /\ RecipientEnds(refusal)
      BY <1>3 DEF Render, refusal
    <2>3. CASE step' = "create" /\ UNCHANGED <<errs, failures>>
      BY <1>0, <2>2, <2>3 DEF LoopAccounts, Poison
    <2>4. CASE Fails("render") /\ RecipientEnds(refusal)
      <3>1. step' = "next" /\ errs' # NoError /\ Poisoned(errs')
        BY <2>1, <2>4, RecipientAccounts
      <3>2. failures' # {} /\ Poison' /\
            ("renderer" \in failures' <=> "renderer" \in failures)
        BY <2>4, FailureAccounts DEF Failing, PoisonFailures
      <3>3. QED
        BY <1>0, <2>2, <3>1, <3>2 DEF LoopAccounts
    <2>5. QED
      BY <2>2, <2>3, <2>4
  <1>4. ASSUME step \in {"create", "mark"}, err' = err,
               \/ RecipientEnds(NoError) /\ UNCHANGED failures
               \/ /\ RecipientEnds(Wrap(Plain))
                  /\ \E what \in {"create", "list", "mark"} : Fails(what)
        PROVE  LoopAccounts'
    <2>1. CASE RecipientEnds(NoError) /\ UNCHANGED failures
      <3>1. /\ step' = "next"
            /\ errs' # NoError <=> errs # NoError
            /\ Poisoned(errs') <=> Poisoned(errs)
        BY <2>1, PlainError, RecipientAccounts
      <3>2. QED
        BY <1>0, <1>4, <2>1, <3>1 DEF LoopAccounts, Poison
    <2>2. ASSUME RecipientEnds(Wrap(Plain)),
                 NEW what \in {"create", "list", "mark"}, Fails(what)
          PROVE  LoopAccounts'
      <3>1. Wrap(Plain) \in Errors /\ Wrap(Plain) # NoError /\ ~Poisoned(Wrap(Plain))
        BY PlainError, Wrapped
      <3>2. /\ step' = "next"
            /\ errs' # NoError
            /\ Poisoned(errs') <=> Poisoned(errs)
        BY <2>2, <3>1, RecipientAccounts
      <3>3. /\ failures' # {}
            /\ Poison' <=> Poison
            /\ "renderer" \in failures' <=> "renderer" \in failures
        BY <2>2, FailureAccounts DEF Failing, PoisonFailures
      <3>4. QED
        BY <1>0, <1>4, <3>2, <3>3 DEF LoopAccounts
    <2>3. QED
      BY <1>4, <2>1, <2>2
  <1>5. CASE Create
    <2>1. CASE step' = "send" /\ UNCHANGED <<errs, failures>>
      <3>1. step = "create" /\ UNCHANGED <<err, sendErrs>>
        BY <1>5 DEF Create
      <3>2. QED
        BY <1>0, <2>1, <3>1 DEF LoopAccounts, SendAccounts, Poison
    <2>2. CASE ~(step' = "send" /\ UNCHANGED <<errs, failures>>)
      BY <1>4, <1>5, <2>2 DEF Create
    <2>3. QED
      BY <2>1, <2>2
  <1>6. CASE MarkPushed
    BY <1>4, <1>6 DEF MarkPushed
  <1>7. CASE SendOne
    <2>1. /\ step = "send" /\ step' = "send"
          /\ UNCHANGED <<err, errs>>
      BY <1>7 DEF SendOne
    <2>2. \/ UNCHANGED <<sendErrs, failures>>
          \/ /\ Fails("send")
             /\ \E a \in Answers : sendErrs' = sendErrs \o Wrap(SendError(a))
      BY <1>7 DEF SendOne
    <2>3. CASE UNCHANGED <<sendErrs, failures>>
      BY <1>0, <2>1, <2>3 DEF LoopAccounts, Poison
    <2>4. ASSUME Fails("send"), NEW a \in Answers,
                 sendErrs' = sendErrs \o Wrap(SendError(a))
          PROVE  LoopAccounts'
      <3>1. /\ sendErrs \in Errors
            /\ Wrap(SendError(a)) \in Errors
            /\ Wrap(SendError(a)) # NoError
        BY AnswerErrors, Wrapped DEF TypeOK
      <3>2. sendErrs' # NoError
        BY <2>4, <3>1, ErrorParts
      <3>3. /\ failures' # {}
            /\ Poison' <=> Poison
            /\ "renderer" \in failures' <=> "renderer" \in failures
        BY <2>4, FailureAccounts DEF Failing, PoisonFailures
      <3>4. QED
        BY <1>0, <2>1, <3>2, <3>3 DEF LoopAccounts
    <2>5. QED
      BY <2>2, <2>3, <2>4
  <1>8. CASE SendReturns
    BY <1>0, <1>8 DEF SendReturns, LoopAccounts, Poison
  <1>9. CASE DeleteUnregistered
    <2>1. step = "delete" /\ err' = err /\ sendErr \in Errors
      BY <1>9 DEF DeleteUnregistered, TypeOK
    <2>2. /\ sendErr # NoError <=> sendErrs # NoError
          /\ ~Poisoned(sendErr)
      BY <1>0, <2>1 DEF SendAccounts
    <2>3. CASE UNCHANGED failures /\ sendErr # NoError /\ RecipientEnds(Wrap(sendErr))
      <3>1. /\ step' = "next" /\ errs' # NoError
            /\ Poisoned(errs') <=> Poisoned(errs)
        BY <2>1, <2>2, <2>3, Wrapped, RecipientAccounts
      <3>2. QED
        BY <1>0, <2>1, <2>2, <2>3, <3>1 DEF LoopAccounts, Poison
    <2>4. CASE UNCHANGED failures /\ sendErr = NoError /\ step' = "mark" /\ UNCHANGED errs
      BY <1>0, <2>1, <2>2, <2>4 DEF LoopAccounts, Poison
    <2>5. CASE Fails("delete") /\ RecipientEnds(Wrap(Plain))
      <3>1. /\ step' = "next" /\ errs' # NoError
            /\ Poisoned(errs') <=> Poisoned(errs)
        BY <2>5, PlainError, Wrapped, RecipientAccounts
      <3>2. /\ failures' # {}
            /\ Poison' <=> Poison
            /\ "renderer" \in failures' <=> "renderer" \in failures
        BY <2>5, FailureAccounts DEF Failing, PoisonFailures
      <3>3. QED
        BY <1>0, <2>1, <3>1, <3>2 DEF LoopAccounts
    <2>6. QED
      BY <1>9, <2>3, <2>4, <2>5 DEF DeleteUnregistered
  <1>10. CASE UNCHANGED vars
    BY <1>0, <1>10 DEF vars, LoopAccounts, Poison
  <1>11. QED
    BY <1>1, <1>2, <1>3, <1>5, <1>6, <1>7, <1>8, <1>9, <1>10 DEF Next

LEMMA CallAccountsNext ==
    ASSUME TypeOK, ErrorsInv, [Next]_vars
    PROVE  CallAccounts'
  <1>0. LoopAccounts /\ CallAccounts
    BY DEF ErrorsInv
  <1>1. ASSUME step' \notin {"dispatch", "complete", "release", "end"}
        PROVE  CallAccounts'
    BY <1>1 DEF CallAccounts
  <1>2. ASSUME NEW e \in Errors, EventEnds(e),
               e # NoError <=> failures' # {},
               Poisoned(e) <=> Poison'
        PROVE  CallAccounts'
    <2>1. err' = e /\ step' = IF e = NoError THEN "complete" ELSE "release"
      BY <1>2 DEF EventEnds
    <2>2. QED
      BY <1>2, <2>1 DEF CallAccounts
  <1>3. Wrap(Plain) \in Errors /\ Wrap(Plain) # NoError /\ ~Poisoned(Wrap(Plain))
    BY PlainError, Wrapped
  <1>4. CASE Dispatch
    <2>1. failures = {} /\ ~Poison
      BY <1>0, <1>4 DEF Dispatch, CallAccounts, Poison
    <2>2. CASE step' = "next"
      BY <1>1, <2>2
    <2>3. CASE Fails("renderer")
                   /\ EventEnds(NonRetryable("unknown_event_type", Plain))
      <3> DEFINE e == NonRetryable("unknown_event_type", Plain)
      <3>1. e \in Errors /\ e # NoError /\ Poisoned(e)
        BY PlainError, Poisonous DEF Codes
      <3>2. failures' # {} /\ Poison'
        BY <2>3, FailureAccounts DEF Failing, PoisonFailures
      <3>3. QED
        BY <1>2, <2>3, <3>1, <3>2
    <2>4. CASE Fails("resolve") /\ EventEnds(Wrap(Plain))
      <3>1. failures' # {} /\ ~Poison'
        BY <2>1, <2>4, FailureAccounts DEF Failing, PoisonFailures
      <3>2. QED
        BY <1>2, <1>3, <2>4, <3>1
    <2>5. QED
      BY <1>4, <2>2, <2>3, <2>4 DEF Dispatch
  <1>5. CASE LoopEnds
    <2>1. /\ step = "next" /\ UNCHANGED failures
          /\ EventEnds(IF errs = NoError THEN NoError ELSE Wrap(Join(errs)))
      BY <1>5 DEF LoopEnds
    <2>2. /\ errs # NoError <=> failures # {}
          /\ Poisoned(errs) <=> Poison
      BY <1>0, <2>1 DEF LoopAccounts
    <2>3. failures' = failures /\ (Poison' <=> Poison)
      BY <2>1 DEF Poison
    <2>4. CASE errs = NoError
      <3>1. EventEnds(NoError)
        BY <2>1, <2>4
      <3>2. ~Poisoned(errs)
        BY <2>4, PlainError
      <3>3. QED
        BY <1>2, <2>2, <2>3, <2>4, <3>1, <3>2, PlainError
    <2>5. CASE errs # NoError
      <3>1. EventEnds(Wrap(Join(errs))) /\ errs \in Errors
        BY <2>1, <2>5 DEF TypeOK
      <3>2. /\ Wrap(Join(errs)) \in Errors
            /\ Wrap(Join(errs)) # NoError
            /\ Poisoned(Wrap(Join(errs))) <=> Poisoned(errs)
        BY <3>1, Wrapped
      <3>3. QED
        BY <1>2, <2>2, <2>3, <2>5, <3>1, <3>2
    <2>6. QED
      BY <2>4, <2>5
  <1>6. CASE Render \/ Create \/ SendOne \/ SendReturns \/ DeleteUnregistered
             \/ MarkPushed
    <2>1. step' \in {"next", "create", "send", "delete", "mark"}
      BY <1>6 DEF Render, Create, SendOne, SendReturns, DeleteUnregistered,
                  MarkPushed, RecipientEnds
    <2>2. QED
      BY <1>1, <2>1
  <1>7. CASE Release
    <2>1. /\ step = "release" /\ step' = "end"
          /\ \/ UNCHANGED <<err, failures>>
             \/ err' = Join(err \o Wrap(Plain)) /\ Fails("release")
      BY <1>7 DEF Release
    <2>2. /\ err # NoError
          /\ failures # {}
          /\ Poisoned(err) <=> Poison
      BY <1>0, <2>1 DEF CallAccounts
    <2>3. CASE UNCHANGED <<err, failures>>
      BY <2>1, <2>2, <2>3 DEF CallAccounts, Poison
    <2>4. CASE err' = Join(err \o Wrap(Plain)) /\ Fails("release")
      <3> DEFINE e == err \o Wrap(Plain)
      <3>1. e \in Errors /\ (Poisoned(e) <=> Poisoned(err))
        BY <1>3, ErrorParts DEF TypeOK
      <3>2. Join(e) # NoError /\ (Poisoned(Join(e)) <=> Poisoned(err))
        <4> HIDE DEF e
        <4> QED
          BY <3>1, Wrapped
      <3>3. failures' # {} /\ (Poison' <=> Poison)
        BY <2>4, FailureAccounts DEF Failing, PoisonFailures
      <3>4. QED
        BY <2>1, <2>2, <2>4, <3>2, <3>3 DEF CallAccounts
    <2>5. QED
      BY <2>1, <2>3, <2>4
  <1>8. CASE Complete
    <2>1. /\ step = "complete" /\ step' = "end"
          /\ \/ UNCHANGED <<err, failures>>
             \/ err' = Wrap(Plain) /\ Fails("complete")
      BY <1>8 DEF Complete
    <2>2. err = NoError /\ failures = {} /\ ~Poison
      BY <1>0, <2>1 DEF CallAccounts, Poison
    <2>3. CASE UNCHANGED <<err, failures>>
      BY <2>1, <2>2, <2>3, PlainError DEF CallAccounts, Poison
    <2>4. CASE err' = Wrap(Plain) /\ Fails("complete")
      <3>1. failures' # {} /\ ~Poison'
        BY <2>2, <2>4, FailureAccounts DEF Failing, PoisonFailures
      <3>2. QED
        BY <1>3, <2>1, <2>4, <3>1 DEF CallAccounts
    <2>5. QED
      BY <2>1, <2>3, <2>4
  <1>9. CASE UNCHANGED vars
    BY <1>0, <1>9 DEF vars, CallAccounts, Poison
  <1>10. QED
    BY <1>4, <1>5, <1>6, <1>7, <1>8, <1>9 DEF Next

LEMMA ErrorsAccounted == Spec => [](TypeOK /\ ErrorsInv)
  <1>1. Init => ErrorsInv
    BY PlainError
       DEF Init, ErrorsInv, SendAccounts, LoopAccounts, CallAccounts, Poison
  <1>2. TypeOK /\ ErrorsInv /\ [Next]_vars => ErrorsInv'
    BY SendAccountsNext, LoopAccountsNext, CallAccountsNext DEF ErrorsInv
  <1>3. QED
    BY <1>1, <1>2, TypeCorrect, PTL DEF Spec

(* Through every layer of wrapping and joining, what the transport makes   *)
(* of a call's error is a function of what went wrong, for any number of   *)
(* recipients and devices: an event is discarded exactly when no renderer  *)
(* knows its type or one refuses its payload, reported handled exactly     *)
(* when nothing failed, and retried otherwise, a payload the resolver      *)
(* refuses included.                                                       *)
THEOREM VerdictIsCause == Spec => []VerdictFollowsCause
  <1>1. ASSUME TypeOK, ErrorsInv, step = "end"
        PROVE  Verdict(err) = IF failures \cap {"renderer", "render"} # {}
                              THEN "discard"
                              ELSE IF failures = {} THEN "acknowledge" ELSE "retry"
    <2>1. /\ err # NoError <=> failures # {}
          /\ Poisoned(err) <=> Poison
      BY <1>1 DEF ErrorsInv, CallAccounts
    <2>2. Discardable(err) <=> Poison
      BY <1>1, <2>1, DiscardablePoison DEF TypeOK
    <2>3. Poison => failures # {}
      BY DEF Poison
    <2>4. QED
      BY <2>1, <2>2, <2>3 DEF Verdict, Poison, PoisonFailures
  <1>2. TypeOK /\ ErrorsInv => VerdictFollowsCause
    BY <1>1 DEF VerdictFollowsCause
  <1>3. QED
    BY <1>2, ErrorsAccounted, PTL

-----------------------------------------------------------------------------
(* The tokens of the current user.                                         *)

LEMMA TokensNext ==
    ASSUME TypeOK, TokensInv, [Next]_vars
    PROVE  TokensInv'
  <1>1. ASSUME UNCHANGED <<retired, removed, answers, failures>>,
               step' = step \/ step' \in {"complete", "release", "end"}
        PROVE  TokensInv'
    BY <1>1 DEF TokensInv, Unregistered
  <1>2. CASE Dispatch
    <2>1. /\ step = "dispatch" /\ step' \in {"next", "complete", "release"}
          /\ answers' = answers
      BY <1>2 DEF Dispatch, EventEnds, push
    <2>2. answers' = <<>>
      BY <2>1 DEF TokensInv
    <2>3. QED
      BY <2>1, <2>2 DEF TokensInv
  <1>3. CASE LoopEnds \/ Release \/ Complete
    <2>1. step' \in {"complete", "release", "end"}
      BY <1>3 DEF LoopEnds, Release, Complete, EventEnds
    <2>2. QED
      BY <2>1 DEF TokensInv
  <1>4. CASE Render
    <2>1. /\ step' \in {"next", "create"}
          /\ answers' = <<>> /\ retired' = {} /\ removed' = {}
      BY <1>4 DEF Render, RecipientEnds
    <2>2. QED
      BY <2>1 DEF TokensInv
  <1>5. CASE Create
    <2>1. /\ step = "create" /\ step' \in {"next", "send"}
          /\ UNCHANGED <<retired, removed, answers>>
      BY <1>5 DEF Create, RecipientEnds
    <2>2. answers' = <<>> /\ retired' = {} /\ removed' = {}
      BY <2>1 DEF TokensInv
    <2>3. Unregistered' = {}
      BY <2>2 DEF Unregistered
    <2>4. QED
      BY <2>1, <2>2, <2>3 DEF TokensInv
  <1>6. CASE SendOne
    <2>1. step = "send" /\ step' = "send" /\ removed' = removed
      BY <1>6 DEF SendOne
    <2>2. retired = Unregistered /\ removed = {}
      BY <2>1 DEF TokensInv
    <2> DEFINE t == Len(answers) + 1
    <2>3. PICK a \in Answers :
              /\ answers' = Append(answers, a)
              /\ \/ a = NoError /\ retired' = retired
                 \/ /\ a # NoError /\ IsUnregistered(SendError(a))
                    /\ retired' = retired \cup {t}
                 \/ /\ a # NoError /\ ~IsUnregistered(SendError(a))
                    /\ retired' = retired
      BY <1>6 DEF SendOne
    <2>4. a # NoError => (IsUnregistered(SendError(a))
                              <=> a = FirebaseError("UNREGISTERED"))
      BY AnswerErrors, ClassificationKept
    <2>5. NoError # FirebaseError("UNREGISTERED")
      BY DEF NoError, FirebaseError
    <2>6. retired' = IF a = FirebaseError("UNREGISTERED") THEN retired \cup {t}
                                                         ELSE retired
      BY <2>3, <2>4, <2>5
    <2>7. /\ DOMAIN answers = 1 .. Len(answers) /\ Len(answers) \in Nat
          /\ DOMAIN answers' = 1 .. t
          /\ \A i \in 1 .. Len(answers) : answers'[i] = answers[i]
          /\ answers'[t] = a
      BY <2>3 DEF TypeOK
    <2>8. 1 .. t = (1 .. Len(answers)) \cup {t}
      BY <2>7
    <2>9. Unregistered' = IF a = FirebaseError("UNREGISTERED")
                          THEN Unregistered \cup {t} ELSE Unregistered
      <3> HIDE DEF t
      <3>1. QED
        BY <2>7, <2>8 DEF Unregistered
    <2>10. QED
      BY <2>1, <2>2, <2>6, <2>9 DEF TokensInv
  <1>7. CASE SendReturns
    BY <1>7 DEF SendReturns, TokensInv, Unregistered
  <1>8. CASE DeleteUnregistered
    <2>1. /\ step = "delete"
          /\ step' \in {"next", "mark"}
          /\ UNCHANGED <<retired, answers>>
          /\ \/ removed' = retired
             \/ /\ step' = "next"
                /\ removed' = removed
                /\ "delete" \in failures'
      BY <1>8 DEF DeleteUnregistered, RecipientEnds, Fails
    <2>2. retired = Unregistered /\ removed = {}
      BY <2>1 DEF TokensInv
    <2>3. Unregistered' = Unregistered
      BY <2>1 DEF Unregistered
    <2>4. QED
      BY <2>1, <2>2, <2>3 DEF TokensInv
  <1>9. CASE MarkPushed
    <2>1. /\ step = "mark" /\ step' = "next"
          /\ UNCHANGED <<retired, removed, answers>>
      BY <1>9 DEF MarkPushed, RecipientEnds, push
    <2>2. removed' = Unregistered'
      BY <2>1 DEF TokensInv, Unregistered
    <2>3. QED
      BY <2>1, <2>2 DEF TokensInv
  <1>10. CASE UNCHANGED vars
    BY <1>1, <1>10 DEF vars
  <1>11. QED
    BY <1>2, <1>3, <1>4, <1>5, <1>6, <1>7, <1>8, <1>9, <1>10 DEF Next

(* Of a user's tokens those are deleted that Firebase called UNREGISTERED  *)
(* and no other, whichever of the other devices failed, unless the         *)
(* deletion itself did.                                                    *)
THEOREM RetiredAreRemoved == Spec => []RetiredTokensRemoved
  <1>1. Init => TokensInv
    BY DEF Init, TokensInv
  <1>2. TypeOK /\ TokensInv /\ [Next]_vars => TokensInv'
    BY TokensNext
  <1>3. TokensInv => RetiredTokensRemoved
    BY DEF TokensInv, RetiredTokensRemoved, Unregistered
  <1>4. QED
    BY <1>1, <1>2, <1>3, TypeCorrect, PTL DEF Spec
=============================================================================
