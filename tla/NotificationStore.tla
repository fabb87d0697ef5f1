------------------------- MODULE NotificationStore -------------------------
(***************************************************************************)
(* The tables notifications and fcm_tokens, the statements the service     *)
(* runs on them, and Firebase as the service sees it: a token is accepted  *)
(* for delivery, or is permanently UNREGISTERED.                           *)
(*                                                                         *)
(* A row of notifications is known by its unique index: (type,             *)
(* source_event_id) for chat messages, (user_id, entity_type, entity_id,   *)
(* type) for the others.  Of its columns only pushed_at is read back.      *)
(* Rows of both tables refer to users, a table of Core's.                  *)
(***************************************************************************)
EXTENDS Naturals

CONSTANTS
    Keys,          \* values of the unique indexes of notifications
    Users,
    Tokens,        \* FCM registration tokens; fcm_tokens.token is UNIQUE
    NoUser         \* the token is in no row of fcm_tokens

ASSUME NoUserAssumption == NoUser \notin Users

VARIABLES
    notifications, \* what the row of a key holds
    owner,         \* fcm_tokens.user_id of each token
    dead,          \* tokens Firebase answers UNREGISTERED for
    deleted        \* users Core has deleted

RowStates == {"absent", "unpushed", "pushed"}

StoreTypeOK ==
    /\ notifications \in [Keys -> RowStates]
    /\ owner \in [Tokens -> Users \cup {NoUser}]
    /\ dead \subseteq Tokens
    /\ deleted \subseteq Users

-----------------------------------------------------------------------------
(* user_id and actor_id refer to users.  Only a row that is inserted is    *)
(* checked; the no-op update of one that exists changes neither column.    *)
ForeignKeysHold(k, users) ==
    notifications[k] # "absent" \/ users \cap deleted = {}

(* INSERT ... ON CONFLICT DO UPDATE SET id = notifications.id RETURNING:   *)
(* inserts, or leaves the row as it is and returns it.                     *)
CreateRow(k) ==
    notifications' = [notifications EXCEPT ![k] =
                         IF @ = "absent" THEN "unpushed" ELSE @]

(* UPDATE notifications SET pushed_at WHERE id.  The number of rows is not *)
(* looked at: nothing happens, without an error, when the row is gone.     *)
MarkRowPushed(k) ==
    notifications' = [notifications EXCEPT ![k] =
                         IF @ = "absent" THEN @ ELSE "pushed"]

(* Mutation: SELECT token FROM fcm_tokens, without the user.               *)
TokensOfAnyone(u) == {t \in Tokens : owner[t] # NoUser}

(* SELECT token FROM fcm_tokens WHERE user_id.                             *)
TokensOf(u) == {t \in Tokens : owner[t] = u}

(* Mutation: DELETE ... WHERE token = ANY($2), without the user.           *)
DeleteTokensOfAnyone(u, T) ==
    owner' = [t \in Tokens |-> IF t \in T THEN NoUser ELSE owner[t]]

(* DELETE FROM fcm_tokens WHERE user_id = $1 AND token = ANY($2).          *)
DeleteTokens(u, T) ==
    owner' = [t \in Tokens |->
                 IF owner[t] = u /\ t \in T THEN NoUser ELSE owner[t]]

-----------------------------------------------------------------------------
(* Core registers a token, or moves it to the user now signed in on the    *)
(* device.  Firebase has not retired it.                                   *)
CoreAssigns(t, u) ==
    /\ t \notin dead
    /\ u \notin deleted
    /\ owner[t] # u
    /\ owner' = [owner EXCEPT ![t] = u]

(* The app is uninstalled: Firebase retires the token for good.            *)
FirebaseRetires(t) ==
    /\ t \notin dead
    /\ dead' = dead \cup {t}

(* Core deletes u: both tables say ON DELETE CASCADE of user_id.  rows are *)
(* u's notifications; actor_id, never read back, is set NULL elsewhere.    *)
CoreDeletes(u, rows) ==
    /\ u \notin deleted
    /\ deleted' = deleted \cup {u}
    /\ notifications' = [k \in Keys |->
                            IF k \in rows THEN "absent" ELSE notifications[k]]
    /\ owner' = [t \in Tokens |-> IF owner[t] = u THEN NoUser ELSE owner[t]]
=============================================================================
