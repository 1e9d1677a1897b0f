------------------------ MODULE ConnectorCredentials ------------------------
(***************************************************************************)
(* API connections, their encrypted secrets and the tasks that freeze a    *)
(* reference to one.                                                       *)
(*                                                                         *)
(* A persistent connection serves any number of tasks and its secret may   *)
(* be rotated at any time: an old secret goes with the last reference to   *)
(* it.  An ephemeral one belongs to a conversation, is bound to the task   *)
(* that consumes it, and its secrets go with the end of the task, with the *)
(* snapshot of the source, with the conversation or with its age.          *)
(*                                                                         *)
(* Variables hold what is committed.  A transaction whose uncommitted work *)
(* or row locks another one can meet is two steps or more, and its row is  *)
(* in `work`; the others are one.  The secret of a connection is its       *)
(* generation, counted from 1.  One conversation and one school are        *)
(* modelled: start, creation and reset take the conversation's row lock.   *)
(***************************************************************************)
EXTENDS Naturals, FiniteSets

CONSTANTS
    Connection,     \* rows of api_connections
    Ephemeral,      \* those of scope task_ephemeral; the others are persistent
    CredentialTask, \* tasks with an API authority
    MaxRotations    \* bound: rotations of one connection

ASSUME CredentialAssumption ==
    /\ Ephemeral \subseteq Connection
    /\ MaxRotations \in Nat
    /\ "none" \notin Connection \cup CredentialTask
    /\ Connection \cap CredentialTask = {}

VARIABLES
    connections,    \* [Connection -> state, secret, task, revoked, whether it aged]
    stored,         \* rows of api_connection_secrets
    authority,      \* [CredentialTask -> task's state, its connection, frozen secret,
                    \*   state of its api_authority_sources row]
    conversation,   \* whether the conversation still exists
    work,           \* [row -> the transaction on it, what it read]
    expiring        \* the candidates of the maintenance scan

credentialVars == <<connections, stored, authority, conversation, work, expiring>>

Secret == Connection \X (1..MaxRotations + 1)
Row == Connection \cup CredentialTask
Quiet == [pc |-> "none", secret |-> 0]
Steps == {"none", "rotating", "binding", "removing", "capturing", "deleting", "kept", "dropped"}

CredentialTypeOK ==
    /\ connections \in [Connection -> [state : {"absent", "pending", "active", "disabled", "deleted"},
                            secret : 0..MaxRotations + 1, task : CredentialTask \cup {"none"},
                            revoked : BOOLEAN, aged : BOOLEAN]]
    /\ stored \subseteq Secret
    /\ authority \in [CredentialTask -> [state : {"absent", "active", "ended", "deleted"},
                          connection : Connection \cup {"none"}, frozen : 0..MaxRotations + 1,
                          source : {"none", "registered", "ready", "failed"}]]
    /\ conversation \in BOOLEAN
    /\ work \in [Row -> [pc : Steps, secret : 0..MaxRotations + 1]]
    /\ expiring \subseteq Connection

CredentialInit ==
    /\ connections = [c \in Connection |->
          [state |-> "absent", secret |-> 0, task |-> "none", revoked |-> FALSE, aged |-> FALSE]]
    /\ stored = {}
    /\ authority = [t \in CredentialTask |->
          [state |-> "absent", connection |-> "none", frozen |-> 0, source |-> "none"]]
    /\ conversation = TRUE
    /\ work = [r \in Row |-> Quiet]
    /\ expiring = {}

Existing(c) == connections[c].state \in {"pending", "active", "disabled"}
Doing(r, pc) == work[r].pc = pc
BeginWork(r, pc, secret) == work' = [work EXCEPT ![r] = [pc |-> pc, secret |-> secret]]
EndWork(r) == work' = [work EXCEPT ![r] = Quiet]

\* No other transaction holds the connection's row.
Unlocked(c) == work[c].pc \in {"none", "removing"}

\* A start in progress holds the conversation's row.
ConversationFree == \A c \in Connection : ~Doing(c, "binding")

SchoolFree == \A t \in CredentialTask : authority[t].state # "active"

SourcesOf(c) == {t \in CredentialTask : authority[t].connection = c /\ authority[t].source # "none"}

-----------------------------------------------------------------------------
(* Revocation.                                                             *)

\* revoke_ephemeral_connection: the secrets of the connection and of every
\* source that froze one.
Revocable(c) == c \in Ephemeral /\ Existing(c) /\ ~connections[c].revoked

Revoked(row) == [row EXCEPT !.state = "disabled", !.revoked = TRUE]

SecretsOf(c) == {<<c, connections[c].secret>>} \cup {<<c, authority[t].frozen>> : t \in SourcesOf(c)}

Unbound(c) == connections[c].task = "none"

\* Of several connections at once, each of them checked under its lock.
Revoke(chosen) ==
    LET gone == {c \in chosen : Revocable(c)} IN
    /\ \A c \in gone : Unlocked(c)
    /\ connections' = [c \in Connection |->
                         IF c \in gone THEN Revoked(connections[c]) ELSE connections[c]]
    /\ stored' = stored \ UNION {SecretsOf(c) : c \in gone}

-----------------------------------------------------------------------------
(* The life of a connection.                                               *)

\* Ephemeral: one configuration at a time, a newer one supersedes.
Create(c) ==
    /\ connections[c].state = "absent"
    /\ LET superseded == IF c \in Ephemeral THEN {d \in Ephemeral : Revocable(d) /\ Unbound(d)}
                         ELSE {}
       IN  /\ c \in Ephemeral => conversation /\ ConversationFree
           /\ \A d \in superseded : Unlocked(d)
           /\ connections' = [d \in Connection |->
                CASE d \in superseded -> Revoked(connections[d])
                  [] d = c -> [connections[c] EXCEPT !.state = "pending", !.secret = 1]
                  [] OTHER -> connections[d]]
           /\ stored' = (stored \ UNION {SecretsOf(d) : d \in superseded}) \cup {<<c, 1>>}
    /\ UNCHANGED <<authority, conversation, work, expiring>>

\* Test and rotation refuse an ephemeral connection once it is bound or old.
Changeable(c) ==
    /\ connections[c].state \in {"pending", "active"}
    /\ Unlocked(c)
    /\ c \in Ephemeral => Unbound(c) /\ ~connections[c].aged

TestConnection(c) ==
    /\ Changeable(c)
    /\ <<c, connections[c].secret>> \in stored
    /\ \E state \in {"pending", "active"} :
         connections' = [connections EXCEPT ![c].state = state]
    /\ UNCHANGED <<stored, authority, conversation, work, expiring>>

\* rotate: the row is locked and its reference replaced, uncommitted.
BeginRotation(c) ==
    /\ Changeable(c)
    /\ connections[c].secret <= MaxRotations
    /\ <<c, connections[c].secret>> \in stored
    /\ BeginWork(c, "rotating", connections[c].secret)
    /\ UNCHANGED <<connections, stored, authority, conversation, expiring>>

\* The secret's row is not locked by another delete_unreferenced_secret.
SecretFree(secret) ==
    \A r \in Row : work[r].pc \in {"kept", "dropped"} =>
        secret # <<IF r \in Connection THEN r ELSE authority[r].connection, work[r].secret>>

\* delete_unreferenced_secret for the transaction on row r, which no longer
\* refers to the secret itself: lock it, then look for references.
Release(r, c, secret) ==
    LET referenced == \/ r # c /\ Existing(c) /\ connections[c].secret = secret
                      \/ \E t \in SourcesOf(c) \ {r} : authority[t].frozen = secret
    IN
    /\ SecretFree(<<c, secret>>)
    /\ BeginWork(r, IF referenced \/ <<c, secret>> \notin stored THEN "kept" ELSE "dropped", secret)

ReleaseRotated(c) ==
    /\ Doing(c, "rotating")
    /\ Release(c, c, work[c].secret)
    /\ UNCHANGED <<connections, stored, authority, conversation, expiring>>

\* What the transaction on row r commits.
Remaining(r, c) == stored \ IF Doing(r, "dropped") THEN {<<c, work[r].secret>>} ELSE {}

CommitRotation(c) ==
    /\ work[c].pc \in {"kept", "dropped"}
    /\ connections' = [connections EXCEPT ![c].secret = @ + 1, ![c].state = "pending"]
    /\ stored' = Remaining(c, c) \cup {<<c, connections[c].secret + 1>>}
    /\ EndWork(c)
    /\ UNCHANGED <<authority, conversation, expiring>>

\* delete reads without a lock; it refuses a connection with a source.
BeginRemoval(c) ==
    /\ Existing(c) /\ Doing(c, "none")
    /\ SourcesOf(c) = {}
    /\ <<c, connections[c].secret>> \in stored
    /\ BeginWork(c, "removing", connections[c].secret)
    /\ UNCHANGED <<connections, stored, authority, conversation, expiring>>

\* The foreign key refuses it if a source came in between.
CommitRemoval(c) ==
    /\ Doing(c, "removing")
    /\ IF SourcesOf(c) = {}
         THEN /\ connections' = [connections EXCEPT ![c].state = "deleted"]
              /\ stored' = stored \ {<<c, work[c].secret>>}
         ELSE UNCHANGED <<connections, stored>>
    /\ EndWork(c)
    /\ UNCHANGED <<authority, conversation, expiring>>

\* Twenty-four hours pass.
Age(c) ==
    /\ c \in Ephemeral /\ Existing(c) /\ ~connections[c].aged
    /\ connections' = [connections EXCEPT ![c].aged = TRUE]
    /\ UNCHANGED <<stored, authority, conversation, work, expiring>>

\* revoke_all_expired_ephemeral_connections lists its candidates, then takes
\* one after the other.
ScanExpired ==
    /\ expiring = {}
    /\ expiring' = {c \in Connection : Revocable(c) /\ Unbound(c) /\ connections[c].aged}
    /\ UNCHANGED <<connections, stored, authority, conversation, work>>

\* Mutant of RevokeExpired: no second look at whether it was bound meanwhile.
RevokeExpiredBlindly(c) ==
    /\ c \in expiring
    /\ Unlocked(c)
    /\ expiring' = expiring \ {c}
    /\ Revoke({c})
    /\ UNCHANGED <<authority, conversation, work>>

RevokeExpired(c) ==
    /\ c \in expiring
    /\ Unlocked(c)
    /\ expiring' = expiring \ {c}
    /\ Revoke({c} \cap {d \in Connection : Unbound(d)})
    /\ UNCHANGED <<authority, conversation, work>>

\* reset_conversation, refused while a task holds the school.
Reset ==
    /\ conversation /\ ConversationFree /\ SchoolFree
    /\ conversation' = FALSE
    /\ Revoke({c \in Ephemeral : Unbound(c)})
    /\ UNCHANGED <<authority, work, expiring>>

-----------------------------------------------------------------------------
(* Tasks.                                                                  *)

\* _load_api_authority_connection: locked until the task is committed.
BeginBinding(c) ==
    /\ connections[c].state = "active" /\ Unlocked(c) /\ Unbound(c)
    /\ ~connections[c].revoked /\ ~connections[c].aged
    /\ conversation /\ ConversationFree /\ SchoolFree
    /\ \E t \in CredentialTask : authority[t].state = "absent"
    /\ BeginWork(c, "binding", connections[c].secret)
    /\ UNCHANGED <<connections, stored, authority, conversation, expiring>>

\* create's insertions, _bind_api_database_pair.
CommitBinding(c, t) ==
    /\ Doing(c, "binding")
    /\ authority[t].state = "absent"
    /\ authority' = [authority EXCEPT ![t] = [state |-> "active", connection |-> c,
                        frozen |-> work[c].secret, source |-> "registered"]]
    /\ connections' = IF c \in Ephemeral THEN [connections EXCEPT ![c].task = t] ELSE connections
    /\ EndWork(c)
    /\ UNCHANGED <<stored, conversation, expiring>>

\* materialize locks the source's row and reads the secret...
BeginCapture(t) ==
    /\ authority[t].state = "active" /\ authority[t].source \in {"registered", "failed"}
    /\ Doing(t, "none")
    /\ BeginWork(t, "capturing", authority[t].frozen)
    /\ UNCHANGED <<connections, stored, authority, conversation, expiring>>

\* ... a provider's error, or a secret that is gone, fails the source ...
FailCapture(t) ==
    /\ Doing(t, "capturing")
    /\ authority' = [authority EXCEPT ![t].source = "failed"]
    /\ EndWork(t)
    /\ UNCHANGED <<connections, stored, conversation, expiring>>

\* ... a snapshot revokes the credentials, whatever became of the run.
FinishCapture(t) ==
    /\ Doing(t, "capturing")
    /\ authority' = [authority EXCEPT ![t].source = "ready"]
    /\ Revoke({authority[t].connection})
    /\ EndWork(t)
    /\ UNCHANGED <<conversation, expiring>>

BoundTo(t) == {c \in Ephemeral : Existing(c) /\ connections[c].task = t}

\* Any end of the run: terminal commit, failure, termination.
EndTask(t) ==
    /\ authority[t].state = "active"
    /\ work[t].pc \in {"none", "capturing"}
    /\ authority' = [authority EXCEPT ![t].state = "ended"]
    /\ Revoke(BoundTo(t))
    /\ UNCHANGED <<conversation, work, expiring>>

\* TaskDeletionService.delete: the task's run is locked, its source deleted.
BeginDeletion(t) ==
    /\ authority[t].state \in {"active", "ended"}
    /\ Doing(t, "none")
    /\ BeginWork(t, "deleting", authority[t].frozen)
    /\ UNCHANGED <<connections, stored, authority, conversation, expiring>>

ReleaseDeleted(t) ==
    /\ Doing(t, "deleting")
    /\ Release(t, authority[t].connection, authority[t].frozen)
    /\ UNCHANGED <<connections, stored, authority, conversation, expiring>>

\* The foreign key unbinds the connection, unless the conversation has
\* another one that is unbound.
CommitDeletion(t) ==
    LET unbound == BoundTo(t)
        clash == \E c \in unbound, d \in Ephemeral \ unbound :
                    Revocable(c) /\ Revocable(d) /\ Unbound(d)
    IN
    /\ work[t].pc \in {"kept", "dropped"}
    /\ \A c \in unbound : Unlocked(c)
    /\ IF clash THEN UNCHANGED <<connections, stored, authority>>
       ELSE /\ authority' = [authority EXCEPT ![t].state = "deleted", ![t].source = "none"]
            /\ connections' = [c \in Connection |->
                  IF c \in unbound THEN [connections[c] EXCEPT !.task = "none"] ELSE connections[c]]
            /\ stored' = Remaining(t, authority[t].connection)
    /\ EndWork(t)
    /\ UNCHANGED <<conversation, expiring>>

CredentialNext ==
    \/ \E c \in Connection :
         Create(c) \/ TestConnection(c) \/ BeginRotation(c) \/ ReleaseRotated(c)
         \/ CommitRotation(c) \/ BeginRemoval(c) \/ CommitRemoval(c) \/ Age(c)
         \/ RevokeExpired(c) \/ BeginBinding(c)
    \/ \E c \in Connection, t \in CredentialTask : CommitBinding(c, t)
    \/ \E t \in CredentialTask :
         BeginCapture(t) \/ FailCapture(t) \/ FinishCapture(t) \/ EndTask(t)
         \/ BeginDeletion(t) \/ ReleaseDeleted(t) \/ CommitDeletion(t)
    \/ ScanExpired \/ Reset

CredentialSpec == CredentialInit /\ [][CredentialNext]_credentialVars

-----------------------------------------------------------------------------
(* Properties.                                                             *)

\* A secret is there as long as somebody may read it: a connection that was
\* not revoked, or a running task whose source is not captured yet, however
\* rotations, expiry, deletions and starts interleave.
SecretsAreAvailable ==
    /\ \A c \in Connection : Existing(c) /\ ~connections[c].revoked =>
          <<c, connections[c].secret>> \in stored
    /\ \A t \in CredentialTask :
          authority[t].state = "active" /\ authority[t].source \in {"registered", "failed"} =>
              <<authority[t].connection, authority[t].frozen>> \in stored

\* A secret goes with the last reference to it, and with the revocation of an
\* ephemeral connection; only a deletion that overlaps a rotation leaves one.
SecretsAreReleased ==
    \A c \in Connection, n \in 1..MaxRotations + 1 :
        <<c, n>> \in stored /\ connections[c].state # "deleted" =>
            /\ ~connections[c].revoked
            /\ \/ connections[c].secret = n
               \/ \E t \in SourcesOf(c) : authority[t].frozen = n

\* A task holds an unrevoked ephemeral connection only while it runs, so that a
\* reset, which deletes the conversation, never leaves such a connection
\* without one (ck_api_connection_scope_binding).
BoundMeansRunning ==
    \A c \in Ephemeral : Revocable(c) =>
        /\ ~Unbound(c) => authority[connections[c].task].state = "active"
        /\ conversation

\* Credentials are there while they may be read, and go with their last use
\* (secrets.py: delete_unreferenced_secret, the revocations).
SecretsFollowTheirUses == SecretsAreAvailable /\ SecretsAreReleased /\ BoundMeansRunning
=============================================================================
