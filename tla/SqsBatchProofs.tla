--------------------------- MODULE SqsBatchProofs ---------------------------
(***************************************************************************)
(* For every batch size and every limit: the response of the SQS handler   *)
(* names exactly the records that failed retryably.                        *)
(***************************************************************************)
EXTENDS SqsBatch, FiniteSetTheorems, TLAPS

Critical == {"locked", "appending", "unlocking"}
Appended == {"unlocking", "done"}

(* The records whose append is done.                                       *)
Recorded == {r \in Records : routine[r] \in Appended /\ verdict[r] = "retryable"}

(* The loop has started the records before `next`; a record has a verdict  *)
(* once it was handled, and holds the mutex from Lock to Unlock; what it   *)
(* read is still the slice when it writes.                                 *)
Place ==
    \A r \in Records :
        /\ routine[r] = "new" <=> r >= next
        /\ routine[r] \in {"new", "running"} <=> verdict[r] = "none"
        /\ routine[r] \in Critical \cup {"failed"} => verdict[r] = "retryable"
        /\ routine[r] \in Critical <=> failuresMu = r
        /\ routine[r] = "appending" => read[r] = failures

(* The slice names the records whose append is done, each once.            *)
SliceIsExact ==
    /\ {failures[i] : i \in 1..Len(failures)} = Recorded
    /\ \A i, j \in 1..Len(failures) : failures[i] = failures[j] => i = j

Ended == responded => next > N /\ Alive = {}

Inv == TypeOK /\ Place /\ SliceIsExact /\ Ended

-----------------------------------------------------------------------------
(* What appending a new element does to a sequence without repetitions.    *)
LEMMA AppendNew ==
    ASSUME NEW S, NEW s \in Seq(S), NEW e \in S,
           \A i \in 1..Len(s) : s[i] # e,
           \A i, j \in 1..Len(s) : s[i] = s[j] => i = j
    PROVE  /\ Append(s, e) \in Seq(S)
           /\ {Append(s, e)[i] : i \in 1..Len(Append(s, e))} =
                  {s[i] : i \in 1..Len(s)} \cup {e}
           /\ \A i, j \in 1..Len(Append(s, e)) :
                  Append(s, e)[i] = Append(s, e)[j] => i = j
  <1> DEFINE a == Append(s, e)
  <1>1. /\ a \in Seq(S)
        /\ Len(s) \in Nat
        /\ Len(a) = Len(s) + 1
        /\ a[Len(s) + 1] = e
        /\ \A i \in 1..Len(s) : a[i] = s[i]
    OBVIOUS
  <1> HIDE DEF a
  <1>2. 1..Len(a) = 1..Len(s) \cup {Len(s) + 1}
    BY <1>1
  <1>3. {a[i] : i \in 1..Len(a)} = {s[i] : i \in 1..Len(s)} \cup {e}
    BY <1>1, <1>2
  <1>4. ASSUME NEW i \in 1..Len(a), NEW j \in 1..Len(a), a[i] = a[j]
        PROVE  i = j
    <2>1. CASE i \in 1..Len(s) /\ j \in 1..Len(s)
      BY <2>1, <1>1, <1>4
    <2>2. CASE i = Len(s) + 1 /\ j = Len(s) + 1
      BY <2>2
    <2>3. CASE i \in 1..Len(s) /\ j = Len(s) + 1
      BY <2>3, <1>1, <1>4
    <2>4. CASE i = Len(s) + 1 /\ j \in 1..Len(s)
      BY <2>4, <1>1, <1>4
    <2>5. QED
      BY <2>1, <2>2, <2>3, <2>4, <1>2
  <1>5. QED
    BY <1>1, <1>3, <1>4 DEF a

LEMMA InvInit == Init => Inv
  <1> SUFFICES ASSUME Init PROVE Inv
    OBVIOUS
  <1> USE BatchAssumption DEF Init, Records
  <1>1. TypeOK
    <2> DEFINE none == [r \in Records |-> <<>>]
    <2>1. <<>> \in Seq(Records)
      OBVIOUS
    <2>2. none \in [Records -> Seq(Records)]
      BY <2>1
    <2>3. /\ next \in 1..(N + 1)
          /\ routine \in [Records -> {"new", "running", "failed", "locked",
                                       "appending", "unlocking", "done"}]
          /\ verdict \in [Records -> Verdicts \cup {"none"}]
          /\ failuresMu \in Records \cup {NoOne}
          /\ responded \in BOOLEAN
      <3>1. next \in 1..(N + 1)
        OBVIOUS
      <3>2. routine \in [Records -> {"new", "running", "failed", "locked",
                                    "appending", "unlocking", "done"}]
        BY Zenon
      <3>3. verdict \in [Records -> Verdicts \cup {"none"}]
        BY Zenon
      <3>4. QED
        BY <3>1, <3>2, <3>3, Zenon
    <2>4. failures \in Seq(Records) /\ read \in [Records -> Seq(Records)]
      BY <2>1, <2>2, Zenon
    <2>5. QED
      BY <2>3, <2>4, Zenon DEF TypeOK
  <1>2. Place
    BY DEF Place, Critical
  <1>3. SliceIsExact
    BY DEF SliceIsExact, Recorded, Appended
  <1>4. Ended
    BY DEF Ended
  <1>5. QED
    BY <1>1, <1>2, <1>3, <1>4 DEF Inv

LEMMA InvNext == Inv /\ [Next]_vars => Inv'
  <1> SUFFICES ASSUME Inv, [Next]_vars PROVE Inv'
    OBVIOUS
  <1> USE BatchAssumption DEF Records
  <1>1. CASE Go
    <2>0. next \in Records /\ routine[next] = "new"
      BY <1>1 DEF Go, Inv, TypeOK, Place
    <2>1. TypeOK'
      BY <1>1, <2>0 DEF Go, Inv, TypeOK
    <2>2. Place'
      BY <1>1, <2>0 DEF Go, Inv, TypeOK, Place, Critical
    <2>3. Recorded' = Recorded
      BY <1>1, <2>0 DEF Go, Inv, TypeOK, Recorded, Appended
    <2>4. SliceIsExact'
      BY <1>1, <2>3 DEF Go, Inv, SliceIsExact
    <2>5. Ended'
      BY <1>1 DEF Go, Inv, Ended, TypeOK
    <2>6. QED
      BY <2>1, <2>2, <2>4, <2>5 DEF Inv
  <1>2. ASSUME NEW r \in Records, HandleRecord(r) PROVE Inv'
    <2>0. PICK v \in Verdicts :
              /\ verdict' = [verdict EXCEPT ![r] = v]
              /\ routine' = [routine EXCEPT ![r] =
                                IF v = "retryable" THEN "failed" ELSE "done"]
      BY <1>2 DEF HandleRecord
    <2>1. TypeOK'
      BY <1>2, <2>0 DEF HandleRecord, Inv, TypeOK
    <2>2. Place'
      BY <1>2, <2>0 DEF HandleRecord, Inv, TypeOK, Place, Critical, Verdicts
    <2>3. Recorded' = Recorded
      BY <1>2, <2>0 DEF HandleRecord, Inv, TypeOK, Recorded, Appended, Verdicts
    <2>4. SliceIsExact'
      BY <1>2, <2>3 DEF HandleRecord, Inv, SliceIsExact
    <2>5. Ended'
      BY <1>2 DEF HandleRecord, Inv, Ended, Alive
    <2>6. QED
      BY <2>1, <2>2, <2>4, <2>5 DEF Inv
  <1>3. ASSUME NEW r \in Records, Lock(r) PROVE Inv'
    <2>1. TypeOK'
      BY <1>3 DEF Lock, Inv, TypeOK
    <2>2. Place'
      BY <1>3 DEF Lock, Inv, TypeOK, Place, Critical
    <2>3. Recorded' = Recorded
      BY <1>3 DEF Lock, Inv, TypeOK, Recorded, Appended
    <2>4. SliceIsExact'
      BY <1>3, <2>3 DEF Lock, Inv, SliceIsExact
    <2>5. Ended'
      BY <1>3 DEF Lock, Inv, Ended, Alive
    <2>6. QED
      BY <2>1, <2>2, <2>4, <2>5 DEF Inv
  <1>4. ASSUME NEW r \in Records, ReadFailures(r) PROVE Inv'
    <2>1. TypeOK'
      BY <1>4 DEF ReadFailures, Inv, TypeOK
    <2>2. Place'
      BY <1>4 DEF ReadFailures, Inv, TypeOK, Place, Critical
    <2>3. Recorded' = Recorded
      BY <1>4 DEF ReadFailures, Inv, TypeOK, Recorded, Appended
    <2>4. SliceIsExact'
      BY <1>4, <2>3 DEF ReadFailures, Inv, SliceIsExact
    <2>5. Ended'
      BY <1>4 DEF ReadFailures, Inv, Ended, Alive
    <2>6. QED
      BY <2>1, <2>2, <2>4, <2>5 DEF Inv
  <1>5. ASSUME NEW r \in Records, WriteFailures(r) PROVE Inv'
    <2>0. /\ failures' = Append(failures, r)
          /\ \A i \in 1..Len(failures) : failures[i] # r
      <3>1. r \notin Recorded
        BY <1>5 DEF WriteFailures, Recorded, Appended
      <3>2. QED
        BY <1>5, <3>1 DEF WriteFailures, Inv, Place, SliceIsExact
    <2>1. /\ failures' \in Seq(Records)
          /\ {failures'[i] : i \in 1..Len(failures')} =
                 {failures[i] : i \in 1..Len(failures)} \cup {r}
          /\ \A i, j \in 1..Len(failures') :
                 failures'[i] = failures'[j] => i = j
      <3>1. /\ failures \in Seq(Records)
            /\ \A i, j \in 1..Len(failures) : failures[i] = failures[j] => i = j
        BY DEF Inv, TypeOK, SliceIsExact
      <3> DEFINE Grown(s) ==
                     /\ s \in Seq(Records)
                     /\ {s[i] : i \in 1..Len(s)} =
                            {failures[i] : i \in 1..Len(failures)} \cup {r}
                     /\ \A i, j \in 1..Len(s) : s[i] = s[j] => i = j
      <3>2. Grown(Append(failures, r))
        BY <2>0, <3>1, AppendNew
      <3>3. Grown(failures')
        <4> HIDE DEF Grown
        <4>1. QED
          BY <2>0, <3>2
      <3>4. QED
        BY <3>3
    <2>2. TypeOK'
      BY <1>5, <2>1 DEF WriteFailures, Inv, TypeOK
    <2>3. Place'
      BY <1>5 DEF WriteFailures, Inv, TypeOK, Place, Critical
    <2>4. Recorded' = Recorded \cup {r}
      BY <1>5 DEF WriteFailures, Inv, TypeOK, Place, Critical, Recorded, Appended
    <2>5. SliceIsExact'
      BY <2>1, <2>4 DEF Inv, SliceIsExact
    <2>6. Ended'
      BY <1>5 DEF WriteFailures, Inv, Ended, Alive
    <2>7. QED
      BY <2>2, <2>3, <2>5, <2>6 DEF Inv
  <1>6. ASSUME NEW r \in Records, Unlock(r) PROVE Inv'
    <2>1. TypeOK'
      BY <1>6 DEF Unlock, Inv, TypeOK
    <2>2. Place'
      BY <1>6 DEF Unlock, Inv, TypeOK, Place, Critical
    <2>3. Recorded' = Recorded
      BY <1>6 DEF Unlock, Inv, TypeOK, Recorded, Appended
    <2>4. SliceIsExact'
      BY <1>6, <2>3 DEF Unlock, Inv, SliceIsExact
    <2>5. Ended'
      BY <1>6 DEF Unlock, Inv, Ended, Alive
    <2>6. QED
      BY <2>1, <2>2, <2>4, <2>5 DEF Inv
  <1>7. CASE Respond
    BY <1>7 DEF Respond, Inv, TypeOK, Place, SliceIsExact, Recorded, Ended, Alive
  <1>8. CASE UNCHANGED vars
    <2>1. TypeOK' /\ Place'
      BY <1>8 DEF vars, Inv, TypeOK, Place
    <2>2. Recorded' = Recorded /\ Alive' = Alive
      BY <1>8 DEF vars, Recorded, Alive
    <2>3. SliceIsExact' /\ Ended'
      BY <1>8, <2>2 DEF vars, Inv, SliceIsExact, Ended
    <2>4. QED
      BY <2>1, <2>3 DEF Inv
  <1>9. QED
    BY <1>1, <1>2, <1>3, <1>4, <1>5, <1>6, <1>7, <1>8
       DEF Next, RecordFailure

LEMMA InvAlways == Spec => []Inv
  BY InvInit, InvNext, PTL DEF Spec

(* The counters and slices of every batch hold what they should.           *)
THEOREM BatchTypes == Spec => []TypeOK
  BY InvAlways, PTL DEF Inv

(* Whatever the goroutines do between them, the response of every batch    *)
(* names each record that failed retryably, once, and no other.            *)
THEOREM ResponseExact == Spec => []ResponseIsExact
  <1>1. Inv => ResponseIsExact
    <2> SUFFICES ASSUME Inv, responded PROVE Recorded = {r \in Records : verdict[r] = "retryable"}
      BY DEF Inv, SliceIsExact, ResponseIsExact
    <2>1. \A r \in Records : routine[r] \in {"new", "done"}
      BY DEF Inv, Ended, Alive
    <2>2. QED
      BY <2>1 DEF Inv, Place, Recorded, Appended
  <1>2. QED
    BY <1>1, InvAlways, PTL
=============================================================================
