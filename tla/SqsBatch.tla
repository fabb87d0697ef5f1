------------------------------ MODULE SqsBatch -------------------------------
(***************************************************************************)
(* One invocation of the SQS handler: a loop starts a goroutine per record *)
(* and is held back by the errgroup's limit; each goroutine handles its    *)
(* record and, when Handle fails with a retryable error, appends the       *)
(* record to the failures under a mutex; the response is sent once all     *)
(* have ended.  A goroutine's append is a read of the slice and a write    *)
(* back, the two steps two goroutines must not interleave.                 *)
(*                                                                         *)
(* What Handle makes of a record is chosen when the goroutine runs it;     *)
(* NotificationService is the module that says how it comes about.         *)
(***************************************************************************)
EXTENDS Naturals, Sequences, FiniteSets

CONSTANTS
    N,      \* records in the batch
    Limit,  \* maxConcurrentRecords
    NoOne   \* the mutex is free

ASSUME BatchAssumption == N \in Nat /\ Limit \in Nat \ {0} /\ NoOne \notin 1..N

Records == 1..N
Verdicts == {"ok", "undecodable", "nonRetryable", "retryable"}

VARIABLES
    next,       \* the next record of the loop
    routine,    \* of each record: where its goroutine is
    verdict,    \* of each record: what its handling came to
    failuresMu, \* holder of the mutex
    failures,   \* the slice
    read,       \* of each record: the slice its goroutine read
    responded   \* the invocation has returned

vars == <<next, routine, verdict, failuresMu, failures, read, responded>>

Init ==
    /\ next = 1
    /\ routine = [r \in Records |-> "new"]
    /\ verdict = [r \in Records |-> "none"]
    /\ failuresMu = NoOne
    /\ failures = <<>>
    /\ read = [r \in Records |-> <<>>]
    /\ responded = FALSE

Alive == {r \in Records : routine[r] \notin {"new", "done"}}

-----------------------------------------------------------------------------
(* Mutation: the loop runs once too often.                                 *)
GoOnceMore ==
    /\ next <= N + 1
    /\ Cardinality(Alive) < Limit
    /\ routine' = [r \in Records |-> IF r = next THEN "running" ELSE routine[r]]
    /\ next' = next + 1
    /\ UNCHANGED <<verdict, failuresMu, failures, read, responded>>

(* g.Go: waits for one of Limit slots, then starts the goroutine.          *)
Go ==
    /\ next <= N
    /\ Cardinality(Alive) < Limit
    /\ routine' = [routine EXCEPT ![next] = "running"]
    /\ next' = next + 1
    /\ UNCHANGED <<verdict, failuresMu, failures, read, responded>>

(* Unmarshal the envelope and Handle it.  Every verdict but a retryable    *)
(* error acknowledges the record.                                          *)
HandleRecord(r) ==
    /\ routine[r] = "running"
    /\ \E v \in Verdicts :
          /\ verdict' = [verdict EXCEPT ![r] = v]
          /\ routine' = [routine EXCEPT ![r] =
                            IF v = "retryable" THEN "failed" ELSE "done"]
    /\ UNCHANGED <<next, failuresMu, failures, read, responded>>

(* Mutation: the mutex is not taken.                                       *)
LockNothing(r) ==
    /\ routine[r] = "failed"
    /\ routine' = [routine EXCEPT ![r] = "locked"]
    /\ UNCHANGED <<next, verdict, failuresMu, failures, read, responded>>

Lock(r) ==
    /\ routine[r] = "failed"
    /\ failuresMu = NoOne
    /\ failuresMu' = r
    /\ routine' = [routine EXCEPT ![r] = "locked"]
    /\ UNCHANGED <<next, verdict, failures, read, responded>>

ReadFailures(r) ==
    /\ routine[r] = "locked"
    /\ read' = [read EXCEPT ![r] = failures]
    /\ routine' = [routine EXCEPT ![r] = "appending"]
    /\ UNCHANGED <<next, verdict, failuresMu, failures, responded>>

WriteFailures(r) ==
    /\ routine[r] = "appending"
    /\ failures' = Append(read[r], r)
    /\ routine' = [routine EXCEPT ![r] = "unlocking"]
    /\ UNCHANGED <<next, verdict, failuresMu, read, responded>>

(* Mutation: the mutex is kept.                                            *)
KeepLock(r) ==
    /\ routine[r] = "unlocking"
    /\ routine' = [routine EXCEPT ![r] = "done"]
    /\ read' = [read EXCEPT ![r] = <<>>]
    /\ UNCHANGED <<next, verdict, failuresMu, failures, responded>>

Unlock(r) ==
    /\ routine[r] = "unlocking"
    /\ failuresMu' = NoOne
    /\ routine' = [routine EXCEPT ![r] = "done"]
    /\ read' = [read EXCEPT ![r] = <<>>]
    /\ UNCHANGED <<next, verdict, failures, responded>>

(* g.Wait, and the response.                                               *)
Respond ==
    /\ ~responded
    /\ next > N
    /\ Alive = {}
    /\ responded' = TRUE
    /\ UNCHANGED <<next, routine, verdict, failuresMu, failures, read>>

RecordFailure(r) ==
    \/ Lock(r)
    \/ ReadFailures(r)
    \/ WriteFailures(r)
    \/ Unlock(r)

Next ==
    \/ Go
    \/ \E r \in Records : HandleRecord(r) \/ RecordFailure(r)
    \/ Respond

(* Goroutines are scheduled; Service.Handle returns, at the latest when    *)
(* the invocation's context ends; Go and Unlock let a waiter through, and  *)
(* no one can take the mutex for ever, as each record takes it once.       *)
Spec == Init /\ [][Next]_vars /\ WF_vars(Next)

-----------------------------------------------------------------------------
(* The counters and slices hold what they should.                          *)
TypeOK ==
    /\ next \in 1..(N + 1)
    /\ routine \in [Records -> {"new", "running", "failed", "locked",
                                "appending", "unlocking", "done"}]
    /\ verdict \in [Records -> Verdicts \cup {"none"}]
    /\ failuresMu \in Records \cup {NoOne}
    /\ failures \in Seq(Records)
    /\ read \in [Records -> Seq(Records)]
    /\ responded \in BOOLEAN

(* The response names each record whose handling failed retryably, once,   *)
(* and no other: a record left out would be deleted from the queue.        *)
ResponseIsExact ==
    responded =>
        /\ {failures[i] : i \in 1..Len(failures)}
               = {r \in Records : verdict[r] = "retryable"}
        /\ \A i, j \in 1..Len(failures) : failures[i] = failures[j] => i = j

(* The invocation responds, whichever records fail: the limit, the mutex   *)
(* and Wait cannot hold each other up.                                     *)
Responds == <>responded
=============================================================================
