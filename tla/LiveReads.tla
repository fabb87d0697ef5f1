------------------------------ MODULE LiveReads -------------------------------
(***************************************************************************)
(* NotificationService with a history of what was true while a call ran.   *)
(*                                                                         *)
(* The service reads whom an event is for, and which devices are theirs,   *)
(* with statements of their own; both may change before the push they lead *)
(* to.  What it promises is that neither is older than the call: the       *)
(* history keeps what either read could have returned since then, and only *)
(* the property reads it.                                                  *)
(***************************************************************************)
EXTENDS NotificationService

VARIABLES
    asked,  \* of each worker: who was subscribed during its call
    held    \* of each worker: the tokens its recipient had while it served them

lvars == <<vars, asked, held>>

Registered(u) == {t \in Tokens : owner[t] = u}

LInit ==
    /\ Init
    /\ asked = [w \in Workers |-> {}]
    /\ held = [w \in Workers |-> {}]

Remember ==
    /\ asked' = [w \in Workers |->
                    IF pc'[w] = "idle" THEN {} ELSE asked[w] \cup subscribed']
    /\ held' = [w \in Workers |->
                   IF pc'[w] \in {"list", "send"}
                   THEN held[w] \cup Registered(call[w].rcpt)' ELSE {}]

LNext == Next /\ Remember

LSpec == LInit /\ [][LNext]_lvars

-----------------------------------------------------------------------------
(* Whom worker w may push: the payload's addressee, or a user the fan-out  *)
(* query selected at some time since w received the message.               *)
Meant(w) == IF FanOut(MsgOf(w)) THEN asked[w] ELSE {Addressee[MsgOf(w)]}

(* Every push, also one whose answer is lost, goes to a user the message   *)
(* is for by what the database said during that very call, on a token that *)
(* was theirs since the call turned to them, and with a row in their inbox *)
(* to show for it unless their account is deleted.  A device handed over   *)
(* earlier, a subscription ended earlier or what an earlier attempt had    *)
(* resolved is never used.                                                 *)
PushesGoWhereMeant ==
    [][\A m \in Messages, u \in Users, t \in Tokens :
          pushes'[<<m, u, t>>] # pushes[<<m, u, t>>] =>
              /\ notifications[RowKey(m, u)] # "absent" \/ u \in deleted
              /\ \E w \in Workers : /\ MsgOf(w) = m
                                    /\ u \in Meant(w)
                                    /\ u = call[w].rcpt
                                    /\ t \in held[w]]_lvars
=============================================================================
