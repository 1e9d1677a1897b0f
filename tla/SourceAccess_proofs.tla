------------------------- MODULE SourceAccess_proofs -------------------------
(***************************************************************************)
(* What the access to the sources promises.                                *)
(*                                                                         *)
(* ConnectorCredentials: secrets follow their uses, for any number of      *)
(* connections of both kinds, of tasks and of rotations.  The invariant    *)
(* says what a frozen reference binds a task and a connection to, what     *)
(* each transaction in progress has read that still holds, and that the    *)
(* row lock of a secret keeps two releases of it apart.                    *)
(*                                                                         *)
(* SourceIngestion: what is analysed is one version of a source and        *)
(* complete, and crashes fail no run, for every pair of sources and any    *)
(* number of workers and disturbances.  The invariant says what inputs,    *)
(* checkpoints and the first target version have in common, what the       *)
(* action that is frozen or under way was offered for, what a worker has   *)
(* read that still bounds what it stores, and that a run nobody disturbs   *)
(* has one worker, which sees the first version of everything.             *)
(***************************************************************************)
EXTENDS ConnectorCredentials, SourceIngestion, WellFoundedInduction, TLAPS

-----------------------------------------------------------------------------
(* Credentials: the inductive invariant *)

Frozen(t) == authority[t].source # "none"
Releasing(r) == work[r].pc \in {"kept", "dropped"}
RowOf(r) == IF r \in Connection THEN r ELSE authority[r].connection

\* A connection has a secret from its creation on, and only ephemeral ones are
\* bound.
ConnectionsAreFormed ==
    \A c \in Connection :
        /\ connections[c].state = "absent" =>
              /\ connections[c].secret = 0 /\ connections[c].task = "none"
              /\ ~connections[c].revoked
        /\ connections[c].state # "absent" => connections[c].secret >= 1
        /\ connections[c].task # "none" => c \in Ephemeral

\* No secret is stored before it is issued.
StoredAreIssued ==
    \A c \in Connection, n \in 1..MaxRotations + 1 :
        <<c, n>> \in stored => n <= connections[c].secret

\* A source freezes a secret of a connection that exists; it is the only
\* source of an ephemeral one, which is bound to its task.
ReferencesAreFrozen ==
    /\ \A t \in CredentialTask :
        /\ Frozen(t) <=> authority[t].state \in {"active", "ended"}
        /\ Frozen(t) =>
              /\ authority[t].connection \in Connection
              /\ Existing(authority[t].connection)
              /\ authority[t].frozen \in 1..connections[authority[t].connection].secret
              /\ authority[t].connection \in Ephemeral =>
                    connections[authority[t].connection].task = t
    /\ \A c \in Connection : connections[c].task # "none" =>
          /\ Frozen(connections[c].task)
          /\ authority[connections[c].task].connection = c

\* What a transaction on a connection read still holds.
ConnectionWorkIsFounded ==
    \A c \in Connection :
        /\ work[c].pc \in {"none", "rotating", "binding", "removing", "kept", "dropped"}
        /\ work[c].pc \in {"rotating", "kept", "dropped"} =>
              /\ Existing(c) /\ ~connections[c].revoked
              /\ work[c].secret = connections[c].secret
              /\ connections[c].secret <= MaxRotations
        /\ Doing(c, "binding") =>
              /\ Existing(c) /\ ~connections[c].revoked /\ Unbound(c)
              /\ work[c].secret = connections[c].secret
              /\ conversation
        /\ Doing(c, "removing") => connections[c].state # "absent"
        /\ Doing(c, "kept") => \E t \in SourcesOf(c) : authority[t].frozen = connections[c].secret
        /\ Doing(c, "dropped") => \A t \in SourcesOf(c) : authority[t].frozen # connections[c].secret

\* What a transaction on a task read still holds.
TaskWorkIsFounded ==
    \A t \in CredentialTask :
        /\ work[t].pc \in {"none", "capturing", "deleting", "kept", "dropped"}
        /\ work[t].pc # "none" => Frozen(t)
        /\ Doing(t, "capturing") => authority[t].source \in {"registered", "failed"}
        /\ Releasing(t) => work[t].secret = authority[t].frozen
        /\ Doing(t, "kept") =>
              \/ <<authority[t].connection, authority[t].frozen>> \notin stored
              \/ connections[authority[t].connection].secret = authority[t].frozen
              \/ \E u \in SourcesOf(authority[t].connection) \ {t} :
                    authority[u].frozen = authority[t].frozen
        /\ Doing(t, "dropped") =>
              /\ connections[authority[t].connection].secret # authority[t].frozen
              /\ \A u \in SourcesOf(authority[t].connection) \ {t} :
                    authority[u].frozen # authority[t].frozen

\* Two transactions never release one secret at the same time.
OneReleaseAtATime ==
    \A r, s \in Row : r # s /\ Releasing(r) /\ Releasing(s) =>
        ~(RowOf(r) = RowOf(s) /\ work[r].secret = work[s].secret)

Structure ==
    /\ CredentialTypeOK
    /\ ConnectionsAreFormed
    /\ StoredAreIssued
    /\ ReferencesAreFrozen
    /\ ConnectionWorkIsFounded
    /\ TaskWorkIsFounded
    /\ OneReleaseAtATime

CredentialInv == Structure /\ SecretsFollowTheirUses

-----------------------------------------------------------------------------
(* Starts and releases: only the work of one row changes. *)

LEMMA OnlyWorkChanges ==
    ASSUME CredentialInv, UNCHANGED <<connections, stored, authority, conversation>>
    PROVE  ConnectionsAreFormed' /\ StoredAreIssued' /\ ReferencesAreFrozen'
           /\ SecretsFollowTheirUses'
BY DEF CredentialInv, Structure, ConnectionsAreFormed, StoredAreIssued, ReferencesAreFrozen,
   SecretsFollowTheirUses, SecretsAreAvailable, SecretsAreReleased, BoundMeansRunning,
   Frozen, Existing, Revocable, Unbound, SourcesOf

LEMMA CurrentSecrets ==
    ASSUME CredentialInv, NEW c \in Connection, Existing(c)
    PROVE  /\ connections[c].secret \in 1..MaxRotations + 1
           /\ ~connections[c].revoked <=> <<c, connections[c].secret>> \in stored
<1>1. connections[c].secret \in 1..MaxRotations + 1
      BY CredentialAssumption DEF CredentialInv, Structure, Existing, ConnectionsAreFormed,
         CredentialTypeOK
<1> QED BY <1>1 DEF CredentialInv, SecretsFollowTheirUses, SecretsAreAvailable,
           SecretsAreReleased, Existing

LEMMA RotationBegins ==
    ASSUME CredentialInv, NEW c \in Connection, BeginRotation(c)
    PROVE  CredentialInv'
<1> USE DEF CredentialInv, Structure
<1>1. /\ work' = [work EXCEPT ![c] = [pc |-> "rotating", secret |-> connections[c].secret]]
      /\ UNCHANGED <<connections, stored, authority, conversation, expiring>>
      BY DEF BeginRotation, BeginWork
<1>2. CredentialTypeOK'
      BY <1>1 DEF CredentialTypeOK, Row, Steps
<1>3. ConnectionsAreFormed' /\ StoredAreIssued' /\ ReferencesAreFrozen' /\ SecretsFollowTheirUses'
      BY <1>1, OnlyWorkChanges
<1>4. ConnectionWorkIsFounded'
  <2>1. Existing(c) /\ connections[c].secret <= MaxRotations /\ ~connections[c].revoked
        BY CurrentSecrets DEF BeginRotation, Changeable, Existing
  <2> QED BY <1>1, <2>1 DEF ConnectionWorkIsFounded, Existing, Doing, SourcesOf,
             CredentialTypeOK, Row, Unbound
<1>5. TaskWorkIsFounded'
      BY <1>1, CredentialAssumption DEF TaskWorkIsFounded, Doing, SourcesOf, Releasing, Frozen,
         CredentialTypeOK, Row
<1>6. OneReleaseAtATime'
      BY <1>1 DEF OneReleaseAtATime, Releasing, RowOf, CredentialTypeOK, Row
<1> QED BY <1>2, <1>3, <1>4, <1>5, <1>6

LEMMA RemovalBegins ==
    ASSUME CredentialInv, NEW c \in Connection, BeginRemoval(c)
    PROVE  CredentialInv'
<1> USE DEF CredentialInv, Structure
<1>1. /\ work' = [work EXCEPT ![c] = [pc |-> "removing", secret |-> connections[c].secret]]
      /\ UNCHANGED <<connections, stored, authority, conversation, expiring>>
      BY DEF BeginRemoval, BeginWork
<1>2. CredentialTypeOK'
      BY <1>1 DEF CredentialTypeOK, Row, Steps
<1>3. ConnectionsAreFormed' /\ StoredAreIssued' /\ ReferencesAreFrozen' /\ SecretsFollowTheirUses'
      BY <1>1, OnlyWorkChanges
<1>4. ConnectionWorkIsFounded'
      BY <1>1 DEF BeginRemoval, ConnectionWorkIsFounded, Existing, Doing, SourcesOf,
         CredentialTypeOK, Row, Unbound
<1>5. TaskWorkIsFounded'
      BY <1>1, CredentialAssumption DEF TaskWorkIsFounded, Doing, SourcesOf, Releasing, Frozen,
         CredentialTypeOK, Row
<1>6. OneReleaseAtATime'
      BY <1>1 DEF OneReleaseAtATime, Releasing, RowOf, CredentialTypeOK, Row
<1> QED BY <1>2, <1>3, <1>4, <1>5, <1>6

LEMMA BindingBegins ==
    ASSUME CredentialInv, NEW c \in Connection, BeginBinding(c)
    PROVE  CredentialInv'
<1> USE DEF CredentialInv, Structure
<1>1. /\ work' = [work EXCEPT ![c] = [pc |-> "binding", secret |-> connections[c].secret]]
      /\ UNCHANGED <<connections, stored, authority, conversation, expiring>>
      BY DEF BeginBinding, BeginWork
<1>2. CredentialTypeOK'
      BY <1>1 DEF CredentialTypeOK, Row, Steps
<1>3. ConnectionsAreFormed' /\ StoredAreIssued' /\ ReferencesAreFrozen' /\ SecretsFollowTheirUses'
      BY <1>1, OnlyWorkChanges
<1>4. ConnectionWorkIsFounded'
      BY <1>1 DEF BeginBinding, ConnectionWorkIsFounded, Existing, Doing, SourcesOf,
         CredentialTypeOK, Row, Unbound
<1>5. TaskWorkIsFounded'
      BY <1>1, CredentialAssumption DEF TaskWorkIsFounded, Doing, SourcesOf, Releasing, Frozen,
         CredentialTypeOK, Row
<1>6. OneReleaseAtATime'
      BY <1>1 DEF OneReleaseAtATime, Releasing, RowOf, CredentialTypeOK, Row
<1> QED BY <1>2, <1>3, <1>4, <1>5, <1>6

LEMMA CaptureBegins ==
    ASSUME CredentialInv, NEW t \in CredentialTask, BeginCapture(t)
    PROVE  CredentialInv'
<1> USE DEF CredentialInv, Structure
<1>1. /\ work' = [work EXCEPT ![t] = [pc |-> "capturing", secret |-> authority[t].frozen]]
      /\ UNCHANGED <<connections, stored, authority, conversation, expiring>>
      BY DEF BeginCapture, BeginWork
<1>2. CredentialTypeOK'
      BY <1>1 DEF CredentialTypeOK, Row, Steps
<1>3. ConnectionsAreFormed' /\ StoredAreIssued' /\ ReferencesAreFrozen' /\ SecretsFollowTheirUses'
      BY <1>1, OnlyWorkChanges
<1>4. ConnectionWorkIsFounded'
      BY <1>1, CredentialAssumption DEF ConnectionWorkIsFounded, Existing, Doing, SourcesOf,
         CredentialTypeOK, Row, Unbound
<1>5. TaskWorkIsFounded'
      BY <1>1 DEF BeginCapture, TaskWorkIsFounded, Doing, SourcesOf, Releasing, Frozen,
         CredentialTypeOK, Row
<1>6. OneReleaseAtATime'
      BY <1>1 DEF OneReleaseAtATime, Releasing, RowOf, CredentialTypeOK, Row
<1> QED BY <1>2, <1>3, <1>4, <1>5, <1>6

LEMMA DeletionBegins ==
    ASSUME CredentialInv, NEW t \in CredentialTask, BeginDeletion(t)
    PROVE  CredentialInv'
<1> USE DEF CredentialInv, Structure
<1>1. /\ work' = [work EXCEPT ![t] = [pc |-> "deleting", secret |-> authority[t].frozen]]
      /\ UNCHANGED <<connections, stored, authority, conversation, expiring>>
      BY DEF BeginDeletion, BeginWork
<1>2. CredentialTypeOK'
      BY <1>1 DEF CredentialTypeOK, Row, Steps
<1>3. ConnectionsAreFormed' /\ StoredAreIssued' /\ ReferencesAreFrozen' /\ SecretsFollowTheirUses'
      BY <1>1, OnlyWorkChanges
<1>4. ConnectionWorkIsFounded'
      BY <1>1, CredentialAssumption DEF ConnectionWorkIsFounded, Existing, Doing, SourcesOf,
         CredentialTypeOK, Row, Unbound
<1>5. TaskWorkIsFounded'
      BY <1>1 DEF BeginDeletion, ReferencesAreFrozen, TaskWorkIsFounded, Doing, SourcesOf, Releasing,
         Frozen, CredentialTypeOK, Row
<1>6. OneReleaseAtATime'
      BY <1>1 DEF OneReleaseAtATime, Releasing, RowOf, CredentialTypeOK, Row
<1> QED BY <1>2, <1>3, <1>4, <1>5, <1>6

\* A release takes the row lock of the secret, and waits for another's.
LEMMA ReleasesExclude ==
    ASSUME CredentialInv, NEW r \in Row, NEW secret \in 0..MaxRotations + 1,
           Release(r, RowOf(r), secret), authority' = authority
    PROVE  OneReleaseAtATime'
<1>1. PICK pc \in {"kept", "dropped"} :
        work' = [work EXCEPT ![r] = [pc |-> pc, secret |-> secret]]
      BY DEF Release, BeginWork
<1>2. \A s \in Row : Releasing(s) => ~(RowOf(s) = RowOf(r) /\ work[s].secret = secret)
      BY DEF Release, SecretFree, Releasing, RowOf
<1>3. work'[r].secret = secret /\ \A s \in Row \ {r} : work'[s] = work[s]
      BY <1>1 DEF CredentialInv, Structure, CredentialTypeOK
<1> QED BY <1>1, <1>2, <1>3 DEF CredentialInv, Structure, OneReleaseAtATime, Releasing, RowOf

LEMMA RotationReleases ==
    ASSUME CredentialInv, NEW c \in Connection, ReleaseRotated(c)
    PROVE  CredentialInv'
<1> USE DEF CredentialInv, Structure
<1>1. PICK pc \in {"kept", "dropped"} :
        work' = [work EXCEPT ![c] = [pc |-> pc, secret |-> work[c].secret]]
      BY DEF ReleaseRotated, Release, BeginWork
<1>2. UNCHANGED <<connections, stored, authority, conversation, expiring>>
      BY DEF ReleaseRotated
<1>3. CredentialTypeOK'
      BY <1>1, <1>2 DEF CredentialTypeOK, Row, Steps
<1>4. ConnectionsAreFormed' /\ StoredAreIssued' /\ ReferencesAreFrozen' /\ SecretsFollowTheirUses'
      BY <1>2, OnlyWorkChanges
<1>5. ConnectionWorkIsFounded'
  <2>1. /\ Existing(c) /\ connections[c].secret <= MaxRotations /\ ~connections[c].revoked
        /\ work[c].secret = connections[c].secret
        BY DEF ReleaseRotated, ConnectionWorkIsFounded, Doing
  <2>2. work'[c] = [pc |-> pc, secret |-> connections[c].secret]
        BY <1>1, <2>1 DEF CredentialTypeOK, Row
  <2>3. <<c, connections[c].secret>> \in stored
        BY <2>1, CurrentSecrets
  <2>4. pc = "kept" <=> \E t \in SourcesOf(c) \ {c} : authority[t].frozen = connections[c].secret
    <3>1. work'[c] = [pc |-> IF \E t \in SourcesOf(c) \ {c} : authority[t].frozen = connections[c].secret
                             THEN "kept" ELSE "dropped",
                      secret |-> connections[c].secret]
          BY <2>1, <2>3 DEF ReleaseRotated, Release, BeginWork, CredentialTypeOK, Row
    <3> QED BY <2>2, <3>1
  <2>5. SourcesOf(c) \ {c} = SourcesOf(c)
        BY CredentialAssumption DEF SourcesOf
  <2>6. \A d \in Connection \ {c} : work'[d] = work[d]
        BY <1>1 DEF CredentialTypeOK, Row
  <2> QED BY <1>2, <2>1, <2>2, <2>4, <2>5, <2>6 DEF ConnectionWorkIsFounded, Existing, Doing,
             SourcesOf, Unbound
<1>6. TaskWorkIsFounded'
      BY <1>1, <1>2, CredentialAssumption DEF TaskWorkIsFounded, Doing, SourcesOf, Releasing, Frozen,
         CredentialTypeOK, Row
<1>7. OneReleaseAtATime'
  <2>1. RowOf(c) = c /\ c \in Row /\ work[c].secret \in 0..MaxRotations + 1
        BY DEF RowOf, Row, CredentialTypeOK
  <2> QED BY <1>2, <2>1, ReleasesExclude DEF ReleaseRotated
<1> QED BY <1>3, <1>4, <1>5, <1>6, <1>7

LEMMA DeletionReleases ==
    ASSUME CredentialInv, NEW t \in CredentialTask, ReleaseDeleted(t)
    PROVE  CredentialInv'
<1> USE DEF CredentialInv, Structure
<1> DEFINE c == authority[t].connection
           n == authority[t].frozen
<1>1. PICK pc \in {"kept", "dropped"} :
        work' = [work EXCEPT ![t] = [pc |-> pc, secret |-> n]]
      BY DEF ReleaseDeleted, Release, BeginWork
<1>2. UNCHANGED <<connections, stored, authority, conversation, expiring>>
      BY DEF ReleaseDeleted
<1>3. CredentialTypeOK'
      BY <1>1, <1>2 DEF CredentialTypeOK, Row, Steps
<1>4. ConnectionsAreFormed' /\ StoredAreIssued' /\ ReferencesAreFrozen' /\ SecretsFollowTheirUses'
      BY <1>2, OnlyWorkChanges
<1>5. ConnectionWorkIsFounded'
      BY <1>1, <1>2, CredentialAssumption DEF ConnectionWorkIsFounded, Existing, Doing, SourcesOf,
         CredentialTypeOK, Row, Unbound
<1>6. TaskWorkIsFounded'
  <2>1. Frozen(t) /\ c \in Connection /\ Existing(c) /\ t # c
        BY CredentialAssumption DEF ReleaseDeleted, TaskWorkIsFounded, ReferencesAreFrozen, Doing
  <2>2. work'[t] = [pc |-> pc, secret |-> n]
        BY <1>1 DEF CredentialTypeOK, Row
  <2>3. pc = "kept" <=> \/ connections[c].secret = n
                        \/ \E u \in SourcesOf(c) \ {t} : authority[u].frozen = n
                        \/ <<c, n>> \notin stored
    <3>1. work'[t] = [pc |-> IF \/ connections[c].secret = n
                                \/ \E u \in SourcesOf(c) \ {t} : authority[u].frozen = n
                                \/ <<c, n>> \notin stored
                             THEN "kept" ELSE "dropped",
                      secret |-> n]
          BY <2>1 DEF ReleaseDeleted, Release, BeginWork, CredentialTypeOK, Row
    <3> QED BY <2>2, <3>1
  <2>4. \A u \in CredentialTask \ {t} : work'[u] = work[u]
        BY <1>1 DEF CredentialTypeOK, Row
  <2> QED BY <1>2, <2>1, <2>2, <2>3, <2>4 DEF TaskWorkIsFounded, Frozen, Releasing, Doing, SourcesOf
<1>7. OneReleaseAtATime'
  <2>1. RowOf(t) = c /\ t \in Row /\ n \in 0..MaxRotations + 1
        BY CredentialAssumption DEF RowOf, Row, CredentialTypeOK
  <2> QED BY <1>2, <2>1, ReleasesExclude DEF ReleaseDeleted
<1> QED BY <1>3, <1>4, <1>5, <1>6, <1>7

-----------------------------------------------------------------------------
(* Changes of one connection that leave its secret. *)

ConnectionRow == [state : {"absent", "pending", "active", "disabled", "deleted"},
                  secret : 0..MaxRotations + 1, task : CredentialTask \cup {"none"},
                  revoked : BOOLEAN, aged : BOOLEAN]

LEMMA ConnectionTypes == CredentialTypeOK => connections \in [Connection -> ConnectionRow]
BY DEF CredentialTypeOK, ConnectionRow

\* What a connection refers to, and whether it exists, is all that matters.
LEMMA OnlyStatesChange ==
    ASSUME CredentialInv, CredentialTypeOK', UNCHANGED <<stored, authority, conversation, work>>,
           \A d \in Connection :
              /\ connections'[d].secret = connections[d].secret
              /\ connections'[d].task = connections[d].task
              /\ connections'[d].revoked = connections[d].revoked
              /\ connections'[d].state \in {"absent"} <=> connections[d].state \in {"absent"}
              /\ connections'[d].state \in {"deleted"} <=> connections[d].state \in {"deleted"},
           \A d \in Connection : Existing(d)' <=> Existing(d)
    PROVE  CredentialInv'
<1> USE DEF CredentialInv, Structure
<1>1. ConnectionsAreFormed' /\ StoredAreIssued'
      BY DEF ConnectionsAreFormed, StoredAreIssued
<1>2. ReferencesAreFrozen'
      BY DEF ReferencesAreFrozen, Frozen
<1>3. ConnectionWorkIsFounded'
      BY DEF ConnectionWorkIsFounded, Doing, SourcesOf, Unbound
<1>4. TaskWorkIsFounded'
      BY DEF TaskWorkIsFounded, ReferencesAreFrozen, Doing, Frozen, Releasing, SourcesOf
<1>5. OneReleaseAtATime'
      BY DEF OneReleaseAtATime, Releasing, RowOf
<1>6. SecretsFollowTheirUses'
  <2>1. SecretsAreAvailable'
        BY DEF SecretsFollowTheirUses, SecretsAreAvailable
  <2>2. SecretsAreReleased'
        BY DEF SecretsFollowTheirUses, SecretsAreReleased, SourcesOf
  <2>3. BoundMeansRunning'
        BY CredentialAssumption
        DEF SecretsFollowTheirUses, BoundMeansRunning, Revocable, Unbound
  <2> QED BY <2>1, <2>2, <2>3 DEF SecretsFollowTheirUses
<1> QED BY <1>1, <1>2, <1>3, <1>4, <1>5, <1>6

LEMMA TestKeeps ==
    ASSUME CredentialInv, NEW c \in Connection, TestConnection(c)
    PROVE  CredentialInv'
<1>0. CredentialTypeOK /\ connections \in [Connection -> ConnectionRow]
      BY ConnectionTypes DEF CredentialInv, Structure
<1>1. PICK state \in {"pending", "active"} :
        connections' = [connections EXCEPT ![c] = [connections[c] EXCEPT !.state = state]]
      BY DEF TestConnection
<1>2. UNCHANGED <<stored, authority, conversation, work, expiring>>
      BY DEF TestConnection
<1>3. connections[c] \in ConnectionRow /\ [connections[c] EXCEPT !.state = state] \in ConnectionRow
  <2>1. connections[c] \in ConnectionRow
        BY <1>0
  <2> QED BY <2>1 DEF ConnectionRow
<1>4. connections' \in [Connection -> ConnectionRow]
      BY <1>0, <1>1, <1>3
<1>5. \A d \in Connection :
        /\ connections'[d].secret = connections[d].secret
        /\ connections'[d].task = connections[d].task
        /\ connections'[d].revoked = connections[d].revoked
        /\ d # c => connections'[d].state = connections[d].state
      BY <1>0, <1>1, <1>3 DEF ConnectionRow
<1>6. /\ connections[c].state \in {"pending", "active"}
      /\ connections'[c].state \in {"pending", "active"}
      BY <1>0, <1>1, <1>3 DEF TestConnection, Changeable, ConnectionRow
<1>7. \A d \in Connection : Existing(d)' <=> Existing(d)
      BY <1>5, <1>6 DEF Existing
<1>8. CredentialTypeOK'
      BY <1>0, <1>2, <1>4 DEF CredentialTypeOK, ConnectionRow
<1>9. \A d \in Connection :
        /\ connections'[d].state \in {"absent"} <=> connections[d].state \in {"absent"}
        /\ connections'[d].state \in {"deleted"} <=> connections[d].state \in {"deleted"}
      BY <1>5, <1>6
<1> QED BY <1>2, <1>5, <1>7, <1>8, <1>9, OnlyStatesChange

LEMMA AgeKeeps ==
    ASSUME CredentialInv, NEW c \in Connection, Age(c)
    PROVE  CredentialInv'
<1>0. CredentialTypeOK /\ connections \in [Connection -> ConnectionRow]
      BY ConnectionTypes DEF CredentialInv, Structure
<1>1. connections' = [connections EXCEPT ![c] = [connections[c] EXCEPT !.aged = TRUE]]
      BY DEF Age
<1>2. UNCHANGED <<stored, authority, conversation, work, expiring>>
      BY DEF Age
<1>3. connections[c] \in ConnectionRow /\ [connections[c] EXCEPT !.aged = TRUE] \in ConnectionRow
  <2>1. connections[c] \in ConnectionRow
        BY <1>0
  <2> QED BY <2>1 DEF ConnectionRow
<1>4. connections' \in [Connection -> ConnectionRow]
      BY <1>0, <1>1, <1>3
<1>5. \A d \in Connection :
        /\ connections'[d].secret = connections[d].secret
        /\ connections'[d].task = connections[d].task
        /\ connections'[d].revoked = connections[d].revoked
        /\ connections'[d].state = connections[d].state
      BY <1>0, <1>1, <1>3 DEF ConnectionRow
<1>6. \A d \in Connection : Existing(d)' <=> Existing(d)
      BY <1>5 DEF Existing
<1>7. CredentialTypeOK'
      BY <1>0, <1>2, <1>4 DEF CredentialTypeOK, ConnectionRow
<1> QED BY <1>2, <1>5, <1>6, <1>7, OnlyStatesChange

LEMMA ScanKeeps == ASSUME CredentialInv, ScanExpired PROVE CredentialInv'
<1>1. UNCHANGED <<connections, stored, authority, conversation, work>> /\ expiring' \subseteq Connection
      BY DEF ScanExpired
<1>2. CredentialTypeOK'
      BY <1>1 DEF CredentialInv, Structure, CredentialTypeOK
<1> QED BY <1>1, <1>2, OnlyStatesChange DEF Existing

-----------------------------------------------------------------------------
(* Revocations. *)

LEMMA RevokedSecretsGo ==
    ASSUME CredentialInv, NEW gone \in SUBSET Connection, \A c \in gone : Revocable(c)
    PROVE  LET left == stored \ UNION {SecretsOf(c) : c \in gone}
           IN  /\ left \subseteq stored
               /\ \A c \in gone, n \in 1..MaxRotations + 1 : <<c, n>> \notin left
               /\ \A c \in Connection \ gone, n \in 1..MaxRotations + 1 :
                     <<c, n>> \in stored => <<c, n>> \in left
<1> DEFINE left == stored \ UNION {SecretsOf(c) : c \in gone}
<1>1. ASSUME NEW c \in gone, NEW n \in 1..MaxRotations + 1, <<c, n>> \in stored
      PROVE  <<c, n>> \in SecretsOf(c)
      BY <1>1 DEF CredentialInv, SecretsFollowTheirUses, SecretsAreReleased, SecretsOf, Revocable, Existing
<1>2. ASSUME NEW c \in Connection, NEW d \in gone, NEW n \in 1..MaxRotations + 1,
             <<c, n>> \in SecretsOf(d)
      PROVE  c = d
      BY <1>2 DEF SecretsOf
<1>3. \A c \in gone, n \in 1..MaxRotations + 1 : <<c, n>> \notin left
      BY <1>1
<1>4. \A c \in Connection \ gone, n \in 1..MaxRotations + 1 : <<c, n>> \in stored => <<c, n>> \in left
      BY <1>2
<1> QED BY <1>3, <1>4

\* The step revokes these connections, and takes what is stored for them.
RevokesExactly(gone) ==
    /\ gone \in SUBSET Connection
    /\ \A c \in gone : Revocable(c) /\ Unlocked(c)
    /\ connections' \in [Connection -> ConnectionRow]
    /\ \A c \in Connection :
         /\ connections'[c].secret = connections[c].secret
         /\ connections'[c].task = connections[c].task
         /\ connections'[c].revoked <=> (connections[c].revoked \/ c \in gone)
         /\ c \notin gone => connections'[c].state = connections[c].state
         /\ c \in gone => connections'[c].state = "disabled"
         /\ Existing(c)' <=> Existing(c)
    /\ stored' \subseteq stored
    /\ \A c \in gone, n \in 1..MaxRotations + 1 : <<c, n>> \notin stored'
    /\ \A c \in Connection \ gone, n \in 1..MaxRotations + 1 :
          <<c, n>> \in stored => <<c, n>> \in stored'

LEMMA RevokedConnections ==
    ASSUME CredentialInv, NEW chosen \in SUBSET Connection, Revoke(chosen)
    PROVE  RevokesExactly({c \in chosen : Revocable(c)})
<1> DEFINE gone == {c \in chosen : Revocable(c)}
<1>1. /\ gone \in SUBSET Connection
      /\ \A c \in gone : Revocable(c)
      /\ \A c \in gone : Unlocked(c)
      /\ connections' = [c \in Connection |->
                           IF c \in gone THEN Revoked(connections[c]) ELSE connections[c]]
      /\ stored' = stored \ UNION {SecretsOf(c) : c \in gone}
      BY DEF Revoke
<1> HIDE DEF gone
<1>2. \A c \in Connection : connections[c] \in ConnectionRow /\ Revoked(connections[c]) \in ConnectionRow
  <2>1. ASSUME NEW c \in Connection PROVE connections[c] \in ConnectionRow
        BY ConnectionTypes DEF CredentialInv, Structure
  <2>2. ASSUME NEW row \in ConnectionRow PROVE Revoked(row) \in ConnectionRow
        BY DEF ConnectionRow, Revoked
  <2> QED BY <2>1, <2>2
<1>3. connections' \in [Connection -> ConnectionRow]
      BY <1>1, <1>2
<1>4. ASSUME NEW c \in Connection
      PROVE  /\ connections'[c].secret = connections[c].secret
             /\ connections'[c].task = connections[c].task
             /\ connections'[c].revoked <=> (connections[c].revoked \/ c \in gone)
             /\ c \notin gone => connections'[c].state = connections[c].state
             /\ c \in gone => connections'[c].state = "disabled"
  <2>1. CASE c \in gone
    <3>1. connections'[c] = Revoked(connections[c]) /\ connections[c] \in ConnectionRow
          BY <1>1, <1>2, <2>1
    <3> QED BY <2>1, <3>1 DEF Revoked, ConnectionRow
  <2>2. CASE c \notin gone
    <3>1. connections'[c] = connections[c]
          BY <1>1, <2>2
    <3> QED BY <2>2, <3>1
  <2> QED BY <2>1, <2>2
<1>5. \A c \in Connection : Existing(c)' <=> Existing(c)
      BY <1>1, <1>4 DEF Revocable, Existing
<1>6. /\ stored' \subseteq stored
      /\ \A c \in gone, n \in 1..MaxRotations + 1 : <<c, n>> \notin stored'
      /\ \A c \in Connection \ gone, n \in 1..MaxRotations + 1 :
            <<c, n>> \in stored => <<c, n>> \in stored'
      BY <1>1, RevokedSecretsGo
<1> QED BY <1>1, <1>3, <1>4, <1>5, <1>6 DEF gone, RevokesExactly

\* A revocation keeps the invariant if it takes nothing a running task still
\* has to read, and the tasks it comes with refer to what they referred to.
LEMMA RevocationKeeps ==
    ASSUME CredentialInv, CredentialTypeOK', BoundMeansRunning',
           NEW gone, RevokesExactly(gone),
           \A t \in CredentialTask :
                /\ authority'[t].connection = authority[t].connection
                /\ authority'[t].frozen = authority[t].frozen
                /\ Frozen(t)' <=> Frozen(t)
                /\ authority'[t].state \in {"active", "ended"} <=> authority[t].state \in {"active", "ended"}
                /\ authority'[t].state = "active" /\ authority'[t].source \in {"registered", "failed"} =>
                      /\ authority[t].state = "active" /\ authority[t].source \in {"registered", "failed"}
                      /\ authority[t].connection \notin gone
                /\ Doing(t, "capturing")' => authority'[t].source \in {"registered", "failed"},
           \A r \in Row : work'[r] = work[r] \/ (r \in CredentialTask /\ work'[r] = Quiet),
           conversation' = conversation \/ ConversationFree
    PROVE  CredentialInv'
<1> USE DEF CredentialInv, Structure, RevokesExactly
<1>1. \A c \in Connection : SourcesOf(c)' = SourcesOf(c)
      BY DEF SourcesOf, Frozen
<1>2. \A c \in Connection : work'[c] = work[c]
      BY CredentialAssumption DEF Row
<1>3. ConnectionsAreFormed' /\ StoredAreIssued'
  <2>1. ConnectionsAreFormed'
        BY DEF ConnectionsAreFormed, Existing, Revocable
  <2>2. StoredAreIssued'
        BY DEF StoredAreIssued
  <2> QED BY <2>1, <2>2
<1>4. ReferencesAreFrozen'
      BY CredentialAssumption DEF ReferencesAreFrozen, Frozen, CredentialTypeOK
<1>5. ConnectionWorkIsFounded'
  <2>1. ASSUME NEW c \in Connection, work[c].pc \in {"rotating", "binding", "kept", "dropped"}
        PROVE  c \notin gone
        BY <2>1 DEF Unlocked
  <2> QED BY <1>1, <1>2, <2>1 DEF ConnectionWorkIsFounded, Doing, Unbound, ConversationFree, SourcesOf
<1>6. TaskWorkIsFounded'
      BY <1>1 DEF TaskWorkIsFounded, ReferencesAreFrozen, Doing, Frozen, Releasing, Quiet, Row, SourcesOf
<1>7. OneReleaseAtATime'
      BY CredentialAssumption DEF OneReleaseAtATime, Releasing, RowOf, Quiet, Row
<1>8. SecretsAreAvailable'
  <2>1. ASSUME NEW c \in Connection, Existing(c)', ~connections'[c].revoked
        PROVE  <<c, connections'[c].secret>> \in stored'
        BY <2>1, CurrentSecrets
  <2>2. ASSUME NEW t \in CredentialTask, authority'[t].state = "active",
               authority'[t].source \in {"registered", "failed"}
        PROVE  <<authority'[t].connection, authority'[t].frozen>> \in stored'
    <3>1. <<authority[t].connection, authority[t].frozen>> \in stored /\ authority[t].connection \notin gone
          BY <2>2 DEF SecretsFollowTheirUses, SecretsAreAvailable
    <3>2. authority[t].connection \in Connection /\ authority[t].frozen \in 1..MaxRotations + 1
          BY <3>1 DEF CredentialTypeOK, Secret
    <3> QED BY <3>1, <3>2
  <2> QED BY <2>1, <2>2 DEF SecretsAreAvailable
<1>9. SecretsAreReleased'
  <2> SUFFICES ASSUME NEW c \in Connection, NEW n \in 1..MaxRotations + 1,
                      <<c, n>> \in stored', connections'[c].state # "deleted"
               PROVE  /\ ~connections'[c].revoked
                      /\ \/ connections'[c].secret = n
                         \/ \E t \in SourcesOf(c)' : authority'[t].frozen = n
      BY DEF SecretsAreReleased
  <2>1. <<c, n>> \in stored /\ c \notin gone /\ connections[c].state # "deleted"
        OBVIOUS
  <2>2. /\ ~connections[c].revoked
        /\ \/ connections[c].secret = n
           \/ \E t \in SourcesOf(c) : authority[t].frozen = n
        BY <2>1 DEF SecretsFollowTheirUses, SecretsAreReleased
  <2> QED BY <1>1, <2>1, <2>2 DEF SourcesOf
<1> QED BY <1>3, <1>4, <1>5, <1>6, <1>7, <1>8, <1>9 DEF SecretsFollowTheirUses

\* The four revocations, and the failure of a capture, which revokes nothing.
LEMMA ExpiryKeeps ==
    ASSUME CredentialInv, NEW c \in Connection, RevokeExpired(c)
    PROVE  CredentialInv'
<1> USE DEF CredentialInv, Structure
<1> DEFINE chosen == {c} \cap {d \in Connection : Unbound(d)}
           gone == {d \in chosen : Revocable(d)}
<1>1. /\ chosen \in SUBSET Connection /\ Revoke(chosen)
      /\ UNCHANGED <<authority, conversation, work>> /\ expiring' \subseteq expiring
      BY DEF RevokeExpired
<1>2. RevokesExactly(gone) /\ \A d \in gone : Unbound(d)
      BY <1>1, RevokedConnections
<1> HIDE DEF chosen, gone
<1>3. CredentialTypeOK'
      BY <1>1, <1>2 DEF RevokesExactly, CredentialTypeOK, ConnectionRow
<1>4. BoundMeansRunning'
      BY <1>1, <1>2, CredentialAssumption
      DEF RevokesExactly, SecretsFollowTheirUses, BoundMeansRunning, Revocable, Unbound
<1>5. \A t \in CredentialTask :
         authority[t].state = "active" /\ authority[t].source \in {"registered", "failed"} =>
            authority[t].connection \notin gone
      BY <1>2, CredentialAssumption
      DEF RevokesExactly, ReferencesAreFrozen, Frozen, Revocable, Unbound
<1>6. \A t \in CredentialTask : Doing(t, "capturing") => authority[t].source \in {"registered", "failed"}
      BY DEF TaskWorkIsFounded
<1> QED BY <1>1, <1>2, <1>3, <1>4, <1>5, <1>6, RevocationKeeps DEF Frozen, Doing

LEMMA ResetKeeps == ASSUME CredentialInv, Reset PROVE CredentialInv'
<1> USE DEF CredentialInv, Structure
<1> DEFINE chosen == {c \in Ephemeral : Unbound(c)}
           gone == {c \in chosen : Revocable(c)}
<1>1. /\ chosen \in SUBSET Connection /\ Revoke(chosen)
      /\ UNCHANGED <<authority, work, expiring>> /\ conversation' = FALSE
      /\ ConversationFree /\ SchoolFree
      BY CredentialAssumption DEF Reset
<1>2. RevokesExactly(gone) /\ \A c \in gone : Unbound(c)
      BY <1>1, RevokedConnections
<1>3. \A c \in Ephemeral : Revocable(c) /\ Unbound(c) => c \in gone
      OBVIOUS
<1> HIDE DEF chosen, gone
<1>4. CredentialTypeOK'
      BY <1>1, <1>2 DEF RevokesExactly, CredentialTypeOK, ConnectionRow
<1>5. BoundMeansRunning'
  <2>1. \A c \in Ephemeral : Revocable(c) => Unbound(c)
        BY <1>1, CredentialAssumption DEF SchoolFree, SecretsFollowTheirUses, BoundMeansRunning,
           Unbound, Revocable, CredentialTypeOK
  <2> QED BY <1>2, <1>3, <2>1, CredentialAssumption DEF RevokesExactly, BoundMeansRunning, Revocable
<1>6. \A t \in CredentialTask :
         authority[t].state = "active" /\ authority[t].source \in {"registered", "failed"} =>
            authority[t].connection \notin gone
      BY <1>1 DEF SchoolFree
<1>7. \A t \in CredentialTask : Doing(t, "capturing") => authority[t].source \in {"registered", "failed"}
      BY DEF TaskWorkIsFounded
<1> QED BY <1>1, <1>2, <1>4, <1>5, <1>6, <1>7, RevocationKeeps DEF Frozen, Doing

AuthorityRow == [state : {"absent", "active", "ended", "deleted"},
                 connection : Connection \cup {"none"}, frozen : 0..MaxRotations + 1,
                 source : {"none", "registered", "ready", "failed"}]

LEMMA TaskEndKeeps ==
    ASSUME CredentialInv, NEW t \in CredentialTask, EndTask(t)
    PROVE  CredentialInv'
<1> USE DEF CredentialInv, Structure
<1> DEFINE chosen == BoundTo(t)
           gone == {c \in chosen : Revocable(c)}
<1>1. /\ chosen \in SUBSET Connection /\ Revoke(chosen)
      /\ UNCHANGED <<conversation, work, expiring>>
      /\ authority' = [authority EXCEPT ![t] = [authority[t] EXCEPT !.state = "ended"]]
      /\ authority[t].state = "active"
      BY CredentialAssumption DEF EndTask, BoundTo
<1>2. RevokesExactly(gone) /\ \A c \in gone : connections[c].task = t
      BY <1>1, RevokedConnections DEF BoundTo
<1>3. \A c \in Ephemeral : Revocable(c) /\ connections[c].task = t => c \in gone
      BY DEF BoundTo, Revocable
<1> HIDE DEF chosen, gone
<1>4. authority[t] \in AuthorityRow /\ [authority[t] EXCEPT !.state = "ended"] \in AuthorityRow
  <2>1. authority[t] \in AuthorityRow
        BY DEF CredentialTypeOK, AuthorityRow
  <2> QED BY <2>1 DEF AuthorityRow
<1>5. authority' \in [CredentialTask -> AuthorityRow]
      BY <1>1, <1>4 DEF CredentialTypeOK, AuthorityRow
<1>6. \A u \in CredentialTask :
        /\ authority'[u].connection = authority[u].connection
        /\ authority'[u].frozen = authority[u].frozen
        /\ authority'[u].source = authority[u].source
        /\ authority'[u].state = IF u = t THEN "ended" ELSE authority[u].state
      BY <1>1, <1>4 DEF CredentialTypeOK, AuthorityRow
<1>7. CredentialTypeOK'
      BY <1>1, <1>2, <1>5 DEF RevokesExactly, CredentialTypeOK, ConnectionRow, AuthorityRow
<1>8. BoundMeansRunning'
      BY <1>1, <1>2, <1>3, <1>6, CredentialAssumption
      DEF RevokesExactly, SecretsFollowTheirUses, BoundMeansRunning, Revocable, Unbound, CredentialTypeOK
<1>9. \A u \in CredentialTask \ {t} :
         authority[u].state = "active" /\ authority[u].source \in {"registered", "failed"} =>
            authority[u].connection \notin gone
      BY <1>2, CredentialAssumption DEF RevokesExactly, ReferencesAreFrozen, Frozen, Revocable
<1>10. \A u \in CredentialTask :
          Doing(u, "capturing") => authority[u].source \in {"registered", "failed"}
      BY DEF TaskWorkIsFounded
<1> QED BY <1>1, <1>2, <1>6, <1>7, <1>8, <1>9, <1>10, RevocationKeeps DEF Frozen, Doing

LEMMA CaptureFailureKeeps ==
    ASSUME CredentialInv, NEW t \in CredentialTask, FailCapture(t)
    PROVE  CredentialInv'
<1> USE DEF CredentialInv, Structure
<1>1. /\ UNCHANGED <<connections, stored, conversation, expiring>>
      /\ authority' = [authority EXCEPT ![t] = [authority[t] EXCEPT !.source = "failed"]]
      /\ work' = [work EXCEPT ![t] = Quiet]
      BY DEF FailCapture, EndWork
<1>2. authority[t].source \in {"registered", "failed"}
      BY DEF FailCapture, TaskWorkIsFounded
<1>3. authority[t] \in AuthorityRow /\ [authority[t] EXCEPT !.source = "failed"] \in AuthorityRow
  <2>1. authority[t] \in AuthorityRow
        BY DEF CredentialTypeOK, AuthorityRow
  <2> QED BY <2>1 DEF AuthorityRow
<1>4. authority' \in [CredentialTask -> AuthorityRow]
      BY <1>1, <1>3 DEF CredentialTypeOK, AuthorityRow
<1>5. \A u \in CredentialTask :
        /\ authority'[u].connection = authority[u].connection
        /\ authority'[u].frozen = authority[u].frozen
        /\ authority'[u].state = authority[u].state
        /\ authority'[u].source = IF u = t THEN "failed" ELSE authority[u].source
      BY <1>1, <1>3 DEF CredentialTypeOK, AuthorityRow
<1>6. work' \in [Row -> [pc : Steps, secret : 0..MaxRotations + 1]]
      /\ \A r \in Row : work'[r] = IF r = t THEN Quiet ELSE work[r]
      BY <1>1, CredentialAssumption DEF CredentialTypeOK, Row, Quiet, Steps
<1>7. CredentialTypeOK'
      BY <1>1, <1>4, <1>6 DEF CredentialTypeOK, AuthorityRow
<1>8. RevokesExactly({})
      BY <1>1, ConnectionTypes DEF RevokesExactly, Existing
<1>9. BoundMeansRunning'
      BY <1>1, <1>5, CredentialAssumption
      DEF SecretsFollowTheirUses, BoundMeansRunning, Revocable, Existing, Unbound, CredentialTypeOK
<1>10. \A u \in CredentialTask :
          Doing(u, "capturing") => authority[u].source \in {"registered", "failed"}
      BY DEF TaskWorkIsFounded
<1> QED BY <1>1, <1>2, <1>5, <1>6, <1>7, <1>8, <1>9, <1>10, RevocationKeeps
        DEF Frozen, Doing, Quiet, Row

LEMMA CaptureKeeps ==
    ASSUME CredentialInv, NEW t \in CredentialTask, FinishCapture(t)
    PROVE  CredentialInv'
<1> USE DEF CredentialInv, Structure
<1> DEFINE chosen == {authority[t].connection}
           gone == {c \in chosen : Revocable(c)}
<1>0. /\ authority[t].source \in {"registered", "failed"}
      /\ authority[t].connection \in Connection
      BY DEF FinishCapture, TaskWorkIsFounded, ReferencesAreFrozen, Frozen
<1>1. /\ chosen \in SUBSET Connection /\ Revoke(chosen)
      /\ UNCHANGED <<conversation, expiring>>
      /\ authority' = [authority EXCEPT ![t] = [authority[t] EXCEPT !.source = "ready"]]
      /\ work' = [work EXCEPT ![t] = Quiet]
      BY <1>0 DEF FinishCapture, EndWork
<1>2. RevokesExactly(gone) /\ \A c \in gone : c = authority[t].connection /\ Revocable(c)
      BY <1>1, RevokedConnections
<1> HIDE DEF chosen, gone
<1>3. authority[t] \in AuthorityRow /\ [authority[t] EXCEPT !.source = "ready"] \in AuthorityRow
  <2>1. authority[t] \in AuthorityRow
        BY DEF CredentialTypeOK, AuthorityRow
  <2> QED BY <2>1 DEF AuthorityRow
<1>4. authority' \in [CredentialTask -> AuthorityRow]
      BY <1>1, <1>3 DEF CredentialTypeOK, AuthorityRow
<1>5. \A u \in CredentialTask :
        /\ authority'[u].connection = authority[u].connection
        /\ authority'[u].frozen = authority[u].frozen
        /\ authority'[u].state = authority[u].state
        /\ authority'[u].source = IF u = t THEN "ready" ELSE authority[u].source
      BY <1>1, <1>3 DEF CredentialTypeOK, AuthorityRow
<1>6. work' \in [Row -> [pc : Steps, secret : 0..MaxRotations + 1]]
      /\ \A r \in Row : work'[r] = IF r = t THEN Quiet ELSE work[r]
      BY <1>1, CredentialAssumption DEF CredentialTypeOK, Row, Quiet, Steps
<1>7. CredentialTypeOK'
      BY <1>1, <1>2, <1>4, <1>6 DEF RevokesExactly, CredentialTypeOK, AuthorityRow, ConnectionRow
<1>8. BoundMeansRunning'
      BY <1>1, <1>2, <1>5, CredentialAssumption
      DEF RevokesExactly, SecretsFollowTheirUses, BoundMeansRunning, Revocable, Unbound, CredentialTypeOK
<1>9. \A u \in CredentialTask \ {t} :
         authority[u].state = "active" /\ authority[u].source \in {"registered", "failed"} =>
            authority[u].connection \notin gone
      BY <1>0, <1>2 DEF ReferencesAreFrozen, Frozen, Revocable
<1>10. \A u \in CredentialTask :
          Doing(u, "capturing") => authority[u].source \in {"registered", "failed"}
      BY DEF TaskWorkIsFounded
<1> QED BY <1>0, <1>1, <1>2, <1>5, <1>6, <1>7, <1>8, <1>9, <1>10, RevocationKeeps
        DEF Frozen, Doing, Quiet, Row

-----------------------------------------------------------------------------
(* The commits *)

LEMMA CreationKeeps ==
    ASSUME CredentialInv, NEW c \in Connection, Create(c)
    PROVE  CredentialInv'
<1> USE DEF CredentialInv, Structure
<1> DEFINE gone == IF c \in Ephemeral THEN {d \in Ephemeral : Revocable(d) /\ Unbound(d)} ELSE {}
           fresh == [connections[c] EXCEPT !.state = "pending", !.secret = 1]
<1>1. /\ connections[c].state = "absent"
      /\ c \in Ephemeral => conversation
      /\ gone \in SUBSET Connection
      /\ \A d \in gone : Revocable(d) /\ Unbound(d) /\ Unlocked(d)
      /\ connections' = [d \in Connection |->
            CASE d \in gone -> Revoked(connections[d])
              [] d = c -> fresh
              [] OTHER -> connections[d]]
      /\ stored' = (stored \ UNION {SecretsOf(d) : d \in gone}) \cup {<<c, 1>>}
      /\ UNCHANGED <<authority, conversation, work, expiring>>
      BY CredentialAssumption DEF Create
<1> HIDE DEF gone
<1>2. c \notin gone
      BY <1>1 DEF Revocable, Existing
<1>3. \A d \in Connection : connections[d] \in ConnectionRow
      BY ConnectionTypes
<1>4. fresh \in ConnectionRow
  <2>1. connections[c] \in ConnectionRow /\ 1 \in 0..MaxRotations + 1
        BY <1>3, CredentialAssumption
  <2> QED BY <2>1 DEF ConnectionRow
<1>5. \A row \in ConnectionRow : Revoked(row) \in ConnectionRow
      BY DEF ConnectionRow, Revoked
<1>6. connections' \in [Connection -> ConnectionRow]
      BY <1>1, <1>3, <1>4, <1>5
<1>7. /\ connections'[c].state = "pending"
      /\ connections'[c].secret = 1
      /\ connections'[c].task = connections[c].task
      /\ connections'[c].revoked = connections[c].revoked
  <2>1. connections'[c] = fresh /\ connections[c] \in ConnectionRow
        BY <1>1, <1>2, <1>3
  <2> QED BY <2>1 DEF ConnectionRow
<1>8. ASSUME NEW d \in Connection \ {c}
      PROVE  /\ connections'[d].secret = connections[d].secret
             /\ connections'[d].task = connections[d].task
             /\ connections'[d].revoked <=> (connections[d].revoked \/ d \in gone)
             /\ d \notin gone => connections'[d].state = connections[d].state
             /\ d \in gone => connections'[d].state = "disabled"
             /\ Existing(d)' <=> Existing(d)
  <2>1. CASE d \in gone
    <3>1. connections'[d] = Revoked(connections[d]) /\ connections[d] \in ConnectionRow
          BY <1>1, <1>3, <2>1
    <3>2. Existing(d)
          BY <1>1, <2>1 DEF Revocable
    <3> QED BY <2>1, <3>1, <3>2 DEF Revoked, ConnectionRow, Existing
  <2>2. CASE d \notin gone
    <3>1. connections'[d] = connections[d]
          BY <1>1, <2>2
    <3> QED BY <2>2, <3>1 DEF Existing
  <2> QED BY <2>1, <2>2
<1>9. /\ \A d \in gone, n \in 1..MaxRotations + 1 : <<d, n>> \notin stored'
      /\ \A d \in Connection \ gone, n \in 1..MaxRotations + 1 :
            <<d, n>> \in stored => <<d, n>> \in stored'
      /\ \A d \in Connection \ {c}, n \in 1..MaxRotations + 1 :
            <<d, n>> \in stored' => <<d, n>> \in stored
      /\ \A n \in 1..MaxRotations + 1 : <<c, n>> \in stored' <=> n = 1
  <2>1. \A n \in 1..MaxRotations + 1 : <<c, n>> \notin stored
        BY <1>1 DEF StoredAreIssued, ConnectionsAreFormed
  <2>2. /\ \A d \in gone, n \in 1..MaxRotations + 1 :
              <<d, n>> \notin stored \ UNION {SecretsOf(e) : e \in gone}
        /\ \A d \in Connection \ gone, n \in 1..MaxRotations + 1 :
              <<d, n>> \in stored => <<d, n>> \in stored \ UNION {SecretsOf(e) : e \in gone}
        BY <1>1, RevokedSecretsGo
  <2> QED BY <1>1, <1>2, <2>1, <2>2
<1>10. CredentialTypeOK'
  <2>1. stored' \subseteq Secret
        BY <1>1, CredentialAssumption DEF CredentialTypeOK, Secret
  <2> QED BY <1>1, <1>6, <2>1 DEF CredentialTypeOK, ConnectionRow
<1>11. ConnectionsAreFormed'
      BY <1>1, <1>7, <1>8 DEF ConnectionsAreFormed, Revocable, Existing
<1>12. StoredAreIssued'
      BY <1>7, <1>8, <1>9 DEF StoredAreIssued
<1>13. SourcesOf(c) = {} /\ \A t \in CredentialTask : Frozen(t) => authority[t].connection # c
      BY <1>1 DEF ReferencesAreFrozen, SourcesOf, Frozen, Existing
<1>14. ReferencesAreFrozen'
      BY <1>1, <1>7, <1>8, <1>13, CredentialAssumption
      DEF ReferencesAreFrozen, Frozen, ConnectionsAreFormed, CredentialTypeOK
<1>15. ConnectionWorkIsFounded'
  <2>1. work[c].pc \in {"none", "removing"}
        BY <1>1 DEF ConnectionWorkIsFounded, Existing, Doing
  <2>2. ASSUME NEW d \in Connection, work[d].pc \in {"rotating", "binding", "kept", "dropped"}
        PROVE  d \notin gone /\ d # c
        BY <1>1, <2>1, <2>2 DEF Unlocked
  <2> QED BY <1>1, <1>8, <2>1, <2>2 DEF ConnectionWorkIsFounded, Doing, Unbound, SourcesOf
<1>16. TaskWorkIsFounded'
  <2>1. ASSUME NEW t \in CredentialTask, Frozen(t)
        PROVE  /\ authority[t].connection \in Connection \ {c}
               /\ authority[t].frozen \in 1..MaxRotations + 1
        BY <1>13, <2>1 DEF ReferencesAreFrozen, CredentialTypeOK
  <2> QED BY <1>1, <1>8, <1>9, <2>1 DEF TaskWorkIsFounded, Doing, Releasing, Frozen, SourcesOf
<1>17. OneReleaseAtATime'
      BY <1>1 DEF OneReleaseAtATime, Releasing, RowOf
<1>18. SecretsAreAvailable'
  <2>1. ASSUME NEW d \in Connection, Existing(d)', ~connections'[d].revoked
        PROVE  <<d, connections'[d].secret>> \in stored'
        BY <1>7, <1>8, <1>9, <2>1, CurrentSecrets, CredentialAssumption
  <2>2. ASSUME NEW t \in CredentialTask, authority[t].state = "active",
               authority[t].source \in {"registered", "failed"}
        PROVE  <<authority[t].connection, authority[t].frozen>> \in stored'
    <3>1. <<authority[t].connection, authority[t].frozen>> \in stored
          BY <2>2 DEF SecretsFollowTheirUses, SecretsAreAvailable
    <3>2. authority[t].connection \in Connection /\ authority[t].frozen \in 1..MaxRotations + 1
          BY <3>1 DEF CredentialTypeOK, Secret
    <3>3. authority[t].connection \notin gone
          BY <1>1, <2>2, CredentialAssumption DEF ReferencesAreFrozen, Frozen, Revocable, Unbound
    <3> QED BY <1>9, <3>1, <3>2, <3>3
  <2> QED BY <1>1, <2>1, <2>2 DEF SecretsAreAvailable
<1>19. SecretsAreReleased'
  <2> SUFFICES ASSUME NEW d \in Connection, NEW n \in 1..MaxRotations + 1,
                      <<d, n>> \in stored', connections'[d].state # "deleted"
               PROVE  /\ ~connections'[d].revoked
                      /\ \/ connections'[d].secret = n
                         \/ \E t \in SourcesOf(d)' : authority'[t].frozen = n
      BY DEF SecretsAreReleased
  <2>1. CASE d = c
        BY <1>1, <1>7, <1>9, <2>1 DEF ConnectionsAreFormed
  <2>2. CASE d # c
        BY <1>1, <1>8, <1>9, <2>2 DEF SecretsFollowTheirUses, SecretsAreReleased, SourcesOf
  <2> QED BY <2>1, <2>2
<1>20. BoundMeansRunning'
  <2> SUFFICES ASSUME NEW d \in Ephemeral, Revocable(d)'
               PROVE  (~Unbound(d) => authority[connections[d].task].state = "active")' /\ conversation
      BY <1>1 DEF BoundMeansRunning
  <2>1. CASE d = c
        BY <1>1, <1>7, <2>1 DEF ConnectionsAreFormed, Unbound
  <2>2. CASE d # c
        BY <1>1, <1>8, <2>2, CredentialAssumption
        DEF SecretsFollowTheirUses, BoundMeansRunning, Revocable, Unbound
  <2> QED BY <2>1, <2>2
<1> QED BY <1>10, <1>11, <1>12, <1>14, <1>15, <1>16, <1>17, <1>18, <1>19, <1>20
        DEF SecretsFollowTheirUses

LEMMA RotationCommits ==
    ASSUME CredentialInv, NEW c \in Connection, CommitRotation(c)
    PROVE  CredentialInv'
<1> USE DEF CredentialInv, Structure
<1> DEFINE old == connections[c].secret
           next == [connections[c] EXCEPT !.secret = old + 1, !.state = "pending"]
<1>1. /\ work[c].pc \in {"kept", "dropped"}
      /\ connections' = [connections EXCEPT ![c] = next]
      /\ stored' = (stored \ IF Doing(c, "dropped") THEN {<<c, work[c].secret>>} ELSE {})
                     \cup {<<c, old + 1>>}
      /\ work' = [work EXCEPT ![c] = Quiet]
      /\ UNCHANGED <<authority, conversation, expiring>>
      BY DEF CommitRotation, Remaining, EndWork
<1>2. /\ Existing(c) /\ ~connections[c].revoked
      /\ work[c].secret = old
      /\ old \in 1..MaxRotations /\ old + 1 \in 1..MaxRotations + 1
      /\ <<c, old>> \in stored
  <2>1. Existing(c) /\ ~connections[c].revoked /\ work[c].secret = old /\ old <= MaxRotations
        BY <1>1 DEF ConnectionWorkIsFounded
  <2> QED BY <2>1, CurrentSecrets, CredentialAssumption
<1>3. /\ Doing(c, "kept") => \E t \in SourcesOf(c) : authority[t].frozen = old
      /\ Doing(c, "dropped") => \A t \in SourcesOf(c) : authority[t].frozen # old
      BY DEF ConnectionWorkIsFounded
<1>4. connections[c] \in ConnectionRow /\ next \in ConnectionRow
  <2>1. connections[c] \in ConnectionRow /\ old + 1 \in 0..MaxRotations + 1
        BY <1>2, ConnectionTypes
  <2> QED BY <2>1 DEF ConnectionRow
<1>5. connections' \in [Connection -> ConnectionRow]
      BY <1>1, <1>4, ConnectionTypes
<1>6. /\ connections'[c].secret = old + 1
      /\ connections'[c].state = "pending"
      /\ connections'[c].task = connections[c].task
      /\ connections'[c].revoked = connections[c].revoked
  <2>1. connections'[c] = next
        BY <1>1 DEF CredentialTypeOK
  <2> QED BY <1>4, <2>1 DEF ConnectionRow
<1>7. \A d \in Connection \ {c} : connections'[d] = connections[d]
      BY <1>1 DEF CredentialTypeOK
<1> HIDE DEF next
<1>8. \A d \in Connection : (Existing(d)' <=> Existing(d)) /\ (Revocable(d)' <=> Revocable(d))
      BY <1>2, <1>6, <1>7 DEF Existing, Revocable
<1>9. /\ \A d \in Connection \ {c}, n \in 1..MaxRotations + 1 : <<d, n>> \in stored' <=> <<d, n>> \in stored
      /\ \A n \in (1..MaxRotations + 1) \ {old, old + 1} : <<c, n>> \in stored' <=> <<c, n>> \in stored
      /\ <<c, old + 1>> \in stored'
      /\ <<c, old>> \in stored' <=> Doing(c, "kept")
      BY <1>1, <1>2 DEF Doing
<1>10. work' \in [Row -> [pc : Steps, secret : 0..MaxRotations + 1]]
       /\ \A r \in Row : work'[r] = IF r = c THEN Quiet ELSE work[r]
      BY <1>1, CredentialAssumption DEF CredentialTypeOK, Row, Quiet, Steps
<1>11. CredentialTypeOK'
  <2>1. stored' \subseteq Secret
        BY <1>1, <1>2 DEF CredentialTypeOK, Secret
  <2> QED BY <1>1, <1>5, <1>10, <2>1 DEF CredentialTypeOK, ConnectionRow
<1>12. ConnectionsAreFormed'
      BY <1>2, <1>6, <1>7 DEF ConnectionsAreFormed, Existing
<1>13. StoredAreIssued'
      BY <1>2, <1>6, <1>7, <1>9 DEF StoredAreIssued
<1>14. ReferencesAreFrozen'
  <2>1. \A d \in Connection : connections'[d].task = connections[d].task
        BY <1>6, <1>7
  <2>2. \A d \in Connection : \A n \in 1..connections[d].secret : n \in 1..connections'[d].secret
        BY <1>2, <1>6, <1>7
  <2> QED BY <1>1, <1>8, <2>1, <2>2, CredentialAssumption DEF ReferencesAreFrozen, Frozen, CredentialTypeOK
<1>15. ConnectionWorkIsFounded'
      BY <1>1, <1>7, <1>8, <1>10, CredentialAssumption
      DEF ConnectionWorkIsFounded, Doing, Unbound, SourcesOf, Quiet, Row
<1>16. TaskWorkIsFounded'
  <2> SUFFICES ASSUME NEW t \in CredentialTask
               PROVE  /\ work'[t].pc \in {"none", "capturing", "deleting", "kept", "dropped"}
                      /\ work'[t].pc # "none" => Frozen(t)'
                      /\ Doing(t, "capturing")' => authority'[t].source \in {"registered", "failed"}
                      /\ Releasing(t)' => work'[t].secret = authority'[t].frozen
                      /\ Doing(t, "kept")' =>
                           \/ <<authority'[t].connection, authority'[t].frozen>> \notin stored'
                           \/ connections'[authority'[t].connection].secret = authority'[t].frozen
                           \/ \E u \in SourcesOf(authority[t].connection)' \ {t} :
                                 authority'[u].frozen = authority'[t].frozen
                      /\ Doing(t, "dropped")' =>
                           /\ connections'[authority'[t].connection].secret # authority'[t].frozen
                           /\ \A u \in SourcesOf(authority[t].connection)' \ {t} :
                                 authority'[u].frozen # authority'[t].frozen
      BY <1>1 DEF TaskWorkIsFounded
  <2>1. work'[t] = work[t] /\ t \in Row /\ c \in Row /\ t # c /\ c \notin CredentialTask
        BY <1>10, CredentialAssumption DEF Row
  <2>2. Releasing(t) => /\ authority[t].connection \in Connection
                        /\ authority[t].frozen \in 1..connections[authority[t].connection].secret
                        /\ authority[t].frozen \in 1..MaxRotations + 1
    <3>1. Releasing(t) => Frozen(t)
          BY DEF TaskWorkIsFounded, Releasing
    <3>2. Frozen(t) => /\ authority[t].connection \in Connection
                       /\ authority[t].frozen \in 1..connections[authority[t].connection].secret
          BY DEF ReferencesAreFrozen
    <3>3. \A d \in Connection : connections[d].secret \in 0..MaxRotations + 1
          BY DEF CredentialTypeOK
    <3> QED BY <3>1, <3>2, <3>3, CredentialAssumption
  <2>3. Releasing(t) /\ authority[t].connection = c => authority[t].frozen # old
    <3>1. Releasing(c) /\ RowOf(c) = c /\ RowOf(t) = authority[t].connection
          BY <1>1, CredentialAssumption DEF Releasing, RowOf
    <3>2. Releasing(t) => work[t].secret = authority[t].frozen
          BY DEF TaskWorkIsFounded
    <3> QED BY <1>2, <2>1, <3>1, <3>2 DEF OneReleaseAtATime
  <2>4. CASE Releasing(t) /\ authority[t].connection = c
    <3>1. authority[t].frozen \in (1..MaxRotations + 1) \ {old, old + 1} /\ authority[t].frozen < old
          BY <1>2, <2>2, <2>3, <2>4
    <3> QED BY <1>1, <1>6, <1>9, <2>1, <2>4, <3>1, <1>2
            DEF TaskWorkIsFounded, Doing, Releasing, Frozen, SourcesOf
  <2>5. CASE Releasing(t) /\ authority[t].connection # c
        BY <1>1, <1>7, <1>9, <2>1, <2>2, <2>5 DEF TaskWorkIsFounded, Doing, Releasing, Frozen, SourcesOf
  <2>6. CASE ~Releasing(t)
        BY <1>1, <2>1, <2>6 DEF TaskWorkIsFounded, Doing, Releasing, Frozen
  <2> QED BY <2>4, <2>5, <2>6
<1>17. OneReleaseAtATime'
      BY <1>1, <1>10 DEF OneReleaseAtATime, Releasing, RowOf, Quiet
<1>18. SecretsAreAvailable'
  <2>1. ASSUME NEW d \in Connection, Existing(d)', ~connections'[d].revoked
        PROVE  <<d, connections'[d].secret>> \in stored'
        BY <1>6, <1>7, <1>8, <1>9, <2>1, CurrentSecrets
  <2>2. ASSUME NEW t \in CredentialTask, authority[t].state = "active",
               authority[t].source \in {"registered", "failed"}
        PROVE  <<authority[t].connection, authority[t].frozen>> \in stored'
    <3>1. <<authority[t].connection, authority[t].frozen>> \in stored
          BY <2>2 DEF SecretsFollowTheirUses, SecretsAreAvailable
    <3>2. authority[t].connection \in Connection /\ authority[t].frozen \in 1..MaxRotations + 1
          BY <3>1 DEF CredentialTypeOK, Secret
    <3>3. authority[t].connection = c => t \in SourcesOf(c)
          BY <2>2 DEF SourcesOf
    <3> QED BY <1>1, <1>3, <1>9, <3>1, <3>2, <3>3 DEF Doing
  <2> QED BY <1>1, <2>1, <2>2 DEF SecretsAreAvailable
<1>19. SecretsAreReleased'
  <2> SUFFICES ASSUME NEW d \in Connection, NEW n \in 1..MaxRotations + 1,
                      <<d, n>> \in stored', connections'[d].state # "deleted"
               PROVE  /\ ~connections'[d].revoked
                      /\ \/ connections'[d].secret = n
                         \/ \E t \in SourcesOf(d)' : authority'[t].frozen = n
      BY DEF SecretsAreReleased
  <2>0. SourcesOf(d)' = SourcesOf(d) /\ authority' = authority
        BY <1>1 DEF SourcesOf
  <2>1. CASE d # c
        BY <1>7, <1>9, <2>0, <2>1 DEF SecretsFollowTheirUses, SecretsAreReleased
  <2>2. CASE d = c /\ n = old + 1
        BY <1>2, <1>6, <2>2
  <2>3. CASE d = c /\ n = old
        BY <1>2, <1>3, <1>6, <1>9, <2>0, <2>3
  <2>4. CASE d = c /\ n \notin {old, old + 1}
    <3>1. <<c, n>> \in stored /\ connections[c].state # "deleted"
          BY <1>2, <1>9, <2>4 DEF Existing
    <3> QED BY <1>2, <1>6, <2>0, <2>4, <3>1 DEF SecretsFollowTheirUses, SecretsAreReleased
  <2> QED BY <2>1, <2>2, <2>3, <2>4
<1>20. BoundMeansRunning'
      BY <1>1, <1>6, <1>7, <1>8, CredentialAssumption
      DEF SecretsFollowTheirUses, BoundMeansRunning, Unbound
<1> QED BY <1>11, <1>12, <1>13, <1>14, <1>15, <1>16, <1>17, <1>18, <1>19, <1>20
        DEF SecretsFollowTheirUses

LEMMA RemovalCommits ==
    ASSUME CredentialInv, NEW c \in Connection, CommitRemoval(c)
    PROVE  CredentialInv'
<1> USE DEF CredentialInv, Structure
<1> DEFINE gone == [connections[c] EXCEPT !.state = "deleted"]
<1>1. /\ Doing(c, "removing")
      /\ work' = [work EXCEPT ![c] = Quiet]
      /\ UNCHANGED <<authority, conversation, expiring>>
      BY DEF CommitRemoval, EndWork
<1>2. work' \in [Row -> [pc : Steps, secret : 0..MaxRotations + 1]]
      /\ \A r \in Row : work'[r] = IF r = c THEN Quiet ELSE work[r]
      BY <1>1, CredentialAssumption DEF CredentialTypeOK, Row, Quiet, Steps
<1>3. OneReleaseAtATime'
      BY <1>1, <1>2 DEF OneReleaseAtATime, Releasing, RowOf, Quiet
<1>4. \A t \in CredentialTask : work'[t] = work[t]
      BY <1>2, CredentialAssumption DEF Row
<1>5. CASE SourcesOf(c) # {}
  <2>1. UNCHANGED <<connections, stored>>
        BY <1>5 DEF CommitRemoval
  <2>2. ConnectionsAreFormed' /\ StoredAreIssued' /\ ReferencesAreFrozen' /\ SecretsFollowTheirUses'
        BY <1>1, <2>1, OnlyWorkChanges
  <2>3. CredentialTypeOK'
        BY <1>1, <1>2, <2>1 DEF CredentialTypeOK
  <2>4. ConnectionWorkIsFounded'
        BY <1>1, <1>2, <2>1 DEF ConnectionWorkIsFounded, Existing, Doing, Unbound, SourcesOf, Quiet, Row
  <2>5. TaskWorkIsFounded'
        BY <1>1, <1>4, <2>1 DEF TaskWorkIsFounded, Doing, Releasing, Frozen, SourcesOf
  <2> QED BY <1>3, <2>2, <2>3, <2>4, <2>5
<1>6. CASE SourcesOf(c) = {}
  <2>1. /\ connections' = [connections EXCEPT ![c] = gone]
        /\ stored' = stored \ {<<c, work[c].secret>>}
        BY <1>6 DEF CommitRemoval
  <2>2. connections[c] \in ConnectionRow /\ gone \in ConnectionRow
    <3>1. connections[c] \in ConnectionRow
          BY ConnectionTypes
    <3> QED BY <3>1 DEF ConnectionRow
  <2>3. connections' \in [Connection -> ConnectionRow]
        BY <2>1, <2>2, ConnectionTypes
  <2>4. /\ connections'[c].state = "deleted"
        /\ connections'[c].secret = connections[c].secret
        /\ connections'[c].task = connections[c].task
    <3>1. connections'[c] = gone
          BY <2>1 DEF CredentialTypeOK
    <3> QED BY <2>2, <3>1 DEF ConnectionRow
  <2>5. \A d \in Connection \ {c} : connections'[d] = connections[d]
        BY <2>1 DEF CredentialTypeOK
  <2> HIDE DEF gone
  <2>6. /\ stored' \subseteq stored
        /\ \A d \in Connection \ {c}, n \in 1..MaxRotations + 1 : <<d, n>> \in stored => <<d, n>> \in stored'
        BY <2>1
  <2>7. \A t \in CredentialTask : Frozen(t) => authority[t].connection # c
        BY <1>6 DEF SourcesOf, Frozen
  <2>8. \A t \in CredentialTask : Frozen(t) =>
            /\ authority[t].connection \in Connection \ {c}
            /\ authority[t].frozen \in 1..MaxRotations + 1
    <3>1. \A d \in Connection : connections[d].secret \in 0..MaxRotations + 1
          BY DEF CredentialTypeOK
    <3> QED BY <2>7, <3>1, CredentialAssumption DEF ReferencesAreFrozen
  <2>9. CredentialTypeOK'
        BY <1>1, <1>2, <2>3, <2>6 DEF CredentialTypeOK, ConnectionRow
  <2>10. connections[c].task = "none"
        BY <2>7 DEF ReferencesAreFrozen, CredentialTypeOK
  <2>11. connections[c].secret \in Nat
        BY DEF CredentialTypeOK
  <2>12. ConnectionsAreFormed' /\ StoredAreIssued'
    <3>1. StoredAreIssued'
          BY <2>4, <2>5, <2>6 DEF StoredAreIssued
    <3>2. connections[c].state # "absent"
          BY <1>1 DEF ConnectionWorkIsFounded
    <3> QED BY <3>1, <3>2, <2>4, <2>5, <2>10 DEF ConnectionsAreFormed
  <2>13. ReferencesAreFrozen'
    <3>1. \A d \in Connection : connections'[d].task = connections[d].task
          BY <2>4, <2>5
    <3>2. \A t \in CredentialTask : Frozen(t) =>
              connections'[authority[t].connection] = connections[authority[t].connection]
          BY <2>5, <2>8
    <3> QED BY <1>1, <3>1, <3>2 DEF ReferencesAreFrozen, Frozen, Existing
  <2>14. ConnectionWorkIsFounded'
        BY <1>1, <1>2, <2>5 DEF ConnectionWorkIsFounded, Existing, Doing, Unbound, SourcesOf, Quiet, Row
  <2>15. TaskWorkIsFounded'
        BY <1>1, <1>4, <2>5, <2>6, <2>8 DEF TaskWorkIsFounded, Doing, Releasing, Frozen, SourcesOf
  <2>16. SecretsAreAvailable'
    <3>1. ASSUME NEW d \in Connection, Existing(d)', ~connections'[d].revoked
          PROVE  <<d, connections'[d].secret>> \in stored'
          BY <2>4, <2>5, <2>6, <3>1, CurrentSecrets DEF Existing
    <3>2. ASSUME NEW t \in CredentialTask, authority[t].state = "active",
                 authority[t].source \in {"registered", "failed"}
          PROVE  <<authority[t].connection, authority[t].frozen>> \in stored'
          BY <2>6, <2>8, <3>2 DEF SecretsFollowTheirUses, SecretsAreAvailable, Frozen
    <3> QED BY <1>1, <3>1, <3>2 DEF SecretsAreAvailable
  <2>17. SecretsAreReleased'
        BY <1>1, <2>4, <2>5, <2>6 DEF SecretsFollowTheirUses, SecretsAreReleased, SourcesOf
  <2>18. BoundMeansRunning'
        BY <1>1, <2>4, <2>5, CredentialAssumption
        DEF SecretsFollowTheirUses, BoundMeansRunning, Revocable, Existing, Unbound
  <2> QED BY <1>3, <2>9, <2>12, <2>13, <2>14, <2>15, <2>16, <2>17, <2>18 DEF SecretsFollowTheirUses
<1> QED BY <1>5, <1>6

LEMMA BindingCommits ==
    ASSUME CredentialInv, NEW c \in Connection, NEW t \in CredentialTask, CommitBinding(c, t)
    PROVE  CredentialInv'
<1> USE DEF CredentialInv, Structure
<1> DEFINE n == connections[c].secret
<1>1. /\ Doing(c, "binding") /\ authority[t].state = "absent"
      /\ work' = [work EXCEPT ![c] = Quiet]
      /\ UNCHANGED <<stored, conversation, expiring>>
      BY DEF CommitBinding, EndWork
<1>2. /\ Existing(c) /\ ~connections[c].revoked /\ Unbound(c)
      /\ work[c].secret = n /\ conversation
      /\ n \in 1..MaxRotations + 1 /\ <<c, n>> \in stored
      BY <1>1, CurrentSecrets DEF ConnectionWorkIsFounded
<1>3. authority' = [authority EXCEPT ![t] =
          [state |-> "active", connection |-> c, frozen |-> n, source |-> "registered"]]
      BY <1>2 DEF CommitBinding
<1>4. authority' \in [CredentialTask -> AuthorityRow]
      BY <1>2, <1>3, CredentialAssumption DEF CredentialTypeOK, AuthorityRow
<1>5. /\ authority'[t] = [state |-> "active", connection |-> c, frozen |-> n, source |-> "registered"]
      /\ \A u \in CredentialTask \ {t} : authority'[u] = authority[u]
      BY <1>3 DEF CredentialTypeOK
<1>6. work' \in [Row -> [pc : Steps, secret : 0..MaxRotations + 1]]
      /\ \A r \in Row : work'[r] = IF r = c THEN Quiet ELSE work[r]
      BY <1>1, CredentialAssumption DEF CredentialTypeOK, Row, Quiet, Steps
<1>7. \A u \in CredentialTask : work'[u] = work[u]
      BY <1>6, CredentialAssumption DEF Row
<1>8. ~Frozen(t) /\ work[t].pc = "none"
      BY <1>1 DEF ReferencesAreFrozen, TaskWorkIsFounded
<1>9. /\ connections' \in [Connection -> ConnectionRow]
      /\ \A d \in Connection :
           /\ connections'[d].state = connections[d].state
           /\ connections'[d].secret = connections[d].secret
           /\ connections'[d].revoked = connections[d].revoked
           /\ connections'[d].task = IF d = c /\ c \in Ephemeral THEN t ELSE connections[d].task
  <2>1. CASE c \notin Ephemeral
        BY <2>1, ConnectionTypes DEF CommitBinding
  <2>2. CASE c \in Ephemeral
    <3> DEFINE bound == [connections[c] EXCEPT !.task = t]
    <3>1. connections' = [connections EXCEPT ![c] = bound]
          BY <2>2 DEF CommitBinding
    <3>2. connections[c] \in ConnectionRow /\ bound \in ConnectionRow
      <4>1. connections[c] \in ConnectionRow
            BY ConnectionTypes
      <4> QED BY <4>1 DEF ConnectionRow
    <3>3. /\ bound.state = connections[c].state /\ bound.secret = connections[c].secret
          /\ bound.revoked = connections[c].revoked /\ bound.task = t
          BY <3>2 DEF ConnectionRow
    <3> HIDE DEF bound
    <3>4. \A d \in Connection : connections'[d] = IF d = c THEN bound ELSE connections[d]
          BY <3>1 DEF CredentialTypeOK
    <3>5. connections' \in [Connection -> ConnectionRow]
          BY <3>1, <3>2, ConnectionTypes
    <3> QED BY <2>2, <3>3, <3>4, <3>5
  <2> QED BY <2>1, <2>2
<1>10. \A d \in Connection : (Existing(d)' <=> Existing(d)) /\ (Revocable(d)' <=> Revocable(d))
      BY <1>9 DEF Existing, Revocable
<1>11. \A d \in Connection : SourcesOf(d)' = IF d = c THEN SourcesOf(c) \cup {t} ELSE SourcesOf(d)
  <2>1. \A u \in CredentialTask : Frozen(u)' <=> (u = t \/ Frozen(u))
        BY <1>5 DEF Frozen
  <2> QED BY <1>5, <1>8, <2>1 DEF SourcesOf, Frozen
<1>12. CredentialTypeOK'
      BY <1>1, <1>4, <1>6, <1>9 DEF CredentialTypeOK, ConnectionRow, AuthorityRow
<1>13. ConnectionsAreFormed' /\ StoredAreIssued'
      BY <1>1, <1>2, <1>9 DEF ConnectionsAreFormed, StoredAreIssued, Existing
<1>14. ReferencesAreFrozen'
  <2>1. \A d \in Connection : connections[d].task # t
        BY <1>8, CredentialAssumption DEF ReferencesAreFrozen
  <2>2. \A u \in CredentialTask \ {t} : Frozen(u) /\ c \in Ephemeral => authority[u].connection # c
        BY <1>2, CredentialAssumption DEF ReferencesAreFrozen, Unbound
  <2>3. t # "none"
        BY CredentialAssumption
  <2>4. ASSUME NEW u \in CredentialTask
        PROVE  /\ Frozen(u)' <=> authority'[u].state \in {"active", "ended"}
               /\ Frozen(u)' =>
                     /\ authority'[u].connection \in Connection
                     /\ connections'[authority'[u].connection].state \in {"pending", "active", "disabled"}
                     /\ authority'[u].frozen \in 1..connections'[authority'[u].connection].secret
                     /\ authority'[u].connection \in Ephemeral =>
                           connections'[authority'[u].connection].task = u
    <3>1. CASE u = t
          BY <1>2, <1>5, <1>9, <3>1 DEF Frozen, Existing
    <3>2. CASE u # t
          BY <1>5, <1>9, <2>2, <3>2 DEF ReferencesAreFrozen, Frozen, Existing
    <3> QED BY <3>1, <3>2
  <2>5. ASSUME NEW d \in Connection, connections'[d].task # "none"
        PROVE  /\ authority'[connections'[d].task].source # "none"
               /\ authority'[connections'[d].task].connection = d
    <3>1. CASE d = c /\ c \in Ephemeral
          BY <1>5, <1>9, <3>1
    <3>2. CASE ~(d = c /\ c \in Ephemeral)
          BY <1>5, <1>9, <2>1, <2>5, <3>2 DEF ReferencesAreFrozen, Frozen, CredentialTypeOK
    <3> QED BY <3>1, <3>2
  <2> QED BY <2>4, <2>5 DEF ReferencesAreFrozen, Frozen, Existing
<1>15. ConnectionWorkIsFounded'
  <2>1. ASSUME NEW d \in Connection \ {c}
        PROVE  work'[d] = work[d] /\ SourcesOf(d)' = SourcesOf(d)
               /\ (\A u \in SourcesOf(d) : authority'[u].frozen = authority[u].frozen)
        BY <1>5, <1>6, <1>8, <1>11 DEF Row, SourcesOf, Frozen
  <2>2. work'[c] = Quiet
        BY <1>6 DEF Row
  <2> QED BY <1>1, <1>9, <1>10, <2>1, <2>2 DEF ConnectionWorkIsFounded, Doing, Unbound, Quiet
<1>16. TaskWorkIsFounded'
  <2> SUFFICES ASSUME NEW u \in CredentialTask
               PROVE  /\ work'[u].pc \in {"none", "capturing", "deleting", "kept", "dropped"}
                      /\ work'[u].pc # "none" => Frozen(u)'
                      /\ Doing(u, "capturing")' => authority'[u].source \in {"registered", "failed"}
                      /\ Releasing(u)' => work'[u].secret = authority'[u].frozen
                      /\ Doing(u, "kept")' =>
                           \/ <<authority'[u].connection, authority'[u].frozen>> \notin stored'
                           \/ connections'[authority'[u].connection].secret = authority'[u].frozen
                           \/ \E v \in (SourcesOf(authority[u].connection) \ {u})' :
                                 authority'[v].frozen = authority'[u].frozen
                      /\ Doing(u, "dropped")' =>
                           /\ connections'[authority'[u].connection].secret # authority'[u].frozen
                           /\ \A v \in (SourcesOf(authority[u].connection) \ {u})' :
                                 authority'[v].frozen # authority'[u].frozen
      BY DEF TaskWorkIsFounded
  <2>1. CASE u = t
        BY <1>7, <1>8, <2>1 DEF Doing, Releasing
  <2>2. CASE u # t /\ ~Releasing(u)
        BY <1>5, <1>7, <2>2 DEF TaskWorkIsFounded, Doing, Releasing, Frozen
  <2>3. CASE u # t /\ Releasing(u)
    <3>1. /\ authority'[u] = authority[u] /\ work'[u] = work[u]
          /\ Frozen(u) /\ authority[u].connection \in Connection
          BY <1>5, <1>7, <2>3 DEF TaskWorkIsFounded, ReferencesAreFrozen, Releasing
    <3>2. connections'[authority[u].connection].secret = connections[authority[u].connection].secret
          BY <1>9, <3>1
    <3>3. ASSUME NEW v \in SourcesOf(authority[u].connection) \ {u}
          PROVE  v \in (SourcesOf(authority[u].connection) \ {u})' /\ authority'[v].frozen = authority[v].frozen
      <4>1. v # t /\ v \in CredentialTask
            BY <1>8 DEF SourcesOf, Frozen
      <4> QED BY <1>5, <3>1, <4>1 DEF SourcesOf
    <3>4. ASSUME NEW v \in (SourcesOf(authority[u].connection) \ {u})'
          PROVE  \/ v \in SourcesOf(authority[u].connection) \ {u} /\ authority'[v].frozen = authority[v].frozen
                 \/ authority'[v].frozen = connections[authority[u].connection].secret
      <4>1. CASE v = t
            BY <1>5, <3>1, <4>1 DEF SourcesOf
      <4>2. CASE v # t
            BY <1>5, <3>1, <4>2 DEF SourcesOf
      <4> QED BY <4>1, <4>2
    <3>5. /\ Releasing(u) => work[u].secret = authority[u].frozen
          /\ Doing(u, "kept") =>
                \/ <<authority[u].connection, authority[u].frozen>> \notin stored
                \/ connections[authority[u].connection].secret = authority[u].frozen
                \/ \E v \in SourcesOf(authority[u].connection) \ {u} :
                      authority[v].frozen = authority[u].frozen
          /\ Doing(u, "dropped") =>
                /\ connections[authority[u].connection].secret # authority[u].frozen
                /\ \A v \in SourcesOf(authority[u].connection) \ {u} :
                      authority[v].frozen # authority[u].frozen
          BY DEF TaskWorkIsFounded
    <3> QED BY <1>1, <2>3, <3>1, <3>2, <3>3, <3>4, <3>5 DEF Doing, Releasing, Frozen
  <2> QED BY <2>1, <2>2, <2>3
<1>17. OneReleaseAtATime'
      BY <1>5, <1>6, <1>8, CredentialAssumption DEF OneReleaseAtATime, Releasing, RowOf, Quiet, Row
<1>18. SecretsAreAvailable'
  <2>1. \A d \in Connection : Existing(d)' /\ ~connections'[d].revoked =>
            <<d, connections'[d].secret>> \in stored'
        BY <1>1, <1>9, <1>10 DEF SecretsFollowTheirUses, SecretsAreAvailable
  <2>2. \A u \in CredentialTask :
            authority'[u].state = "active" /\ authority'[u].source \in {"registered", "failed"} =>
                <<authority'[u].connection, authority'[u].frozen>> \in stored'
        BY <1>1, <1>2, <1>5 DEF SecretsFollowTheirUses, SecretsAreAvailable
  <2> QED BY <2>1, <2>2 DEF SecretsAreAvailable
<1>19. SecretsAreReleased'
  <2>1. ASSUME NEW d \in Connection, NEW u \in SourcesOf(d)
        PROVE  u \in SourcesOf(d)' /\ authority'[u].frozen = authority[u].frozen
        BY <1>5, <1>8, <1>11 DEF SourcesOf, Frozen
  <2> QED BY <1>1, <1>9, <2>1 DEF SecretsFollowTheirUses, SecretsAreReleased
<1>20. BoundMeansRunning'
      BY <1>1, <1>2, <1>5, <1>9, <1>10, CredentialAssumption
      DEF SecretsFollowTheirUses, BoundMeansRunning, Unbound, CredentialTypeOK
<1> QED BY <1>12, <1>13, <1>14, <1>15, <1>16, <1>17, <1>18, <1>19, <1>20
        DEF SecretsFollowTheirUses

LEMMA DeletionAborts ==
    ASSUME CredentialInv, NEW t \in CredentialTask, work' = [work EXCEPT ![t] = Quiet],
           UNCHANGED <<connections, stored, authority, conversation, expiring>>
    PROVE  CredentialInv'
<1> USE DEF CredentialInv, Structure
<1>1. work' \in [Row -> [pc : Steps, secret : 0..MaxRotations + 1]]
      /\ \A r \in Row : work'[r] = IF r = t THEN Quiet ELSE work[r]
      BY CredentialAssumption DEF CredentialTypeOK, Row, Quiet, Steps
<1>2. CredentialTypeOK'
      BY <1>1 DEF CredentialTypeOK
<1>3. ConnectionsAreFormed' /\ StoredAreIssued' /\ ReferencesAreFrozen' /\ SecretsFollowTheirUses'
      BY OnlyWorkChanges
<1>4. ConnectionWorkIsFounded'
      BY <1>1, CredentialAssumption
      DEF ConnectionWorkIsFounded, Existing, Doing, SourcesOf, Unbound, Row
<1>5. TaskWorkIsFounded'
      BY <1>1 DEF TaskWorkIsFounded, Doing, SourcesOf, Releasing, Frozen, Quiet, Row
<1>6. OneReleaseAtATime'
      BY <1>1 DEF OneReleaseAtATime, Releasing, RowOf, Quiet
<1> QED BY <1>2, <1>3, <1>4, <1>5, <1>6

LEMMA DeletionCommits ==
    ASSUME CredentialInv, NEW t \in CredentialTask, CommitDeletion(t)
    PROVE  CredentialInv'
<1> USE DEF CredentialInv, Structure
<1> DEFINE c == authority[t].connection
           n == authority[t].frozen
           unbound == BoundTo(t)
           left == [authority[t] EXCEPT !.state = "deleted", !.source = "none"]
<1>1. /\ work[t].pc \in {"kept", "dropped"}
      /\ work' = [work EXCEPT ![t] = Quiet]
      /\ UNCHANGED <<conversation, expiring>>
      BY DEF CommitDeletion, EndWork
<1>2. CASE UNCHANGED <<connections, stored, authority>>
      BY <1>1, <1>2, DeletionAborts
<1>3. CASE /\ authority' = [authority EXCEPT ![t] = left]
           /\ connections' = [d \in Connection |->
                  IF d \in unbound THEN [connections[d] EXCEPT !.task = "none"] ELSE connections[d]]
           /\ stored' = Remaining(t, c)
  <2>1. /\ Frozen(t) /\ c \in Connection /\ Existing(c)
        /\ n \in 1..MaxRotations + 1 /\ n <= connections[c].secret
        /\ work[t].secret = n
    <3>1. Frozen(t) /\ work[t].secret = n
          BY <1>1 DEF TaskWorkIsFounded, Releasing
    <3>2. c \in Connection /\ Existing(c) /\ n \in 1..connections[c].secret
          BY <3>1 DEF ReferencesAreFrozen
    <3>3. connections[c].secret \in 0..MaxRotations + 1
          BY <3>2 DEF CredentialTypeOK
    <3> QED BY <3>1, <3>2, <3>3, CredentialAssumption
  <2>2. /\ stored' \subseteq stored
        /\ \A d \in Connection, m \in 1..MaxRotations + 1 :
              <<d, m>> \in stored => <<d, m>> \in stored' \/ (Doing(t, "dropped") /\ d = c /\ m = n)
        /\ Doing(t, "dropped") => <<c, n>> \notin stored'
        BY <1>3, <2>1 DEF Remaining
  <2>3. /\ Doing(t, "dropped") =>
              /\ connections[c].secret # n
              /\ \A u \in SourcesOf(c) \ {t} : authority[u].frozen # n
        /\ Doing(t, "kept") =>
              \/ <<c, n>> \notin stored
              \/ connections[c].secret = n
              \/ \E u \in SourcesOf(c) \ {t} : authority[u].frozen = n
        BY DEF TaskWorkIsFounded
  <2>4. authority[t] \in AuthorityRow /\ left \in AuthorityRow
    <3>1. authority[t] \in AuthorityRow
          BY DEF CredentialTypeOK, AuthorityRow
    <3> QED BY <3>1 DEF AuthorityRow
  <2>5. /\ authority' \in [CredentialTask -> AuthorityRow]
        /\ authority'[t] = left
        /\ \A u \in CredentialTask \ {t} : authority'[u] = authority[u]
        BY <1>3, <2>4 DEF CredentialTypeOK, AuthorityRow
  <2>6. left.state = "deleted" /\ left.source = "none" /\ left.connection = c /\ left.frozen = n
        BY <2>4 DEF AuthorityRow
  <2> HIDE DEF left
  <2>7. \A d \in Connection : connections[d].task = t <=> d \in unbound
    <3>1. t # "none"
          BY CredentialAssumption
    <3> QED BY <3>1, CredentialAssumption
            DEF BoundTo, ReferencesAreFrozen, ConnectionsAreFormed
  <2>8. unbound \subseteq {c} /\ unbound \subseteq Ephemeral
    <3>1. t # "none" /\ Ephemeral \subseteq Connection
          BY CredentialAssumption
    <3> QED BY <3>1 DEF BoundTo, ReferencesAreFrozen
  <2> HIDE DEF unbound
  <2>9. /\ connections' \in [Connection -> ConnectionRow]
        /\ \A d \in Connection :
             /\ connections'[d].state = connections[d].state
             /\ connections'[d].secret = connections[d].secret
             /\ connections'[d].revoked = connections[d].revoked
             /\ connections'[d].task = IF d \in unbound THEN "none" ELSE connections[d].task
    <3>1. \A d \in Connection : connections[d] \in ConnectionRow
          BY ConnectionTypes
    <3>2. ASSUME NEW row \in ConnectionRow
          PROVE  /\ [row EXCEPT !.task = "none"] \in ConnectionRow
                 /\ [row EXCEPT !.task = "none"].state = row.state
                 /\ [row EXCEPT !.task = "none"].secret = row.secret
                 /\ [row EXCEPT !.task = "none"].revoked = row.revoked
                 /\ [row EXCEPT !.task = "none"].task = "none"
          BY DEF ConnectionRow
    <3>3. \A d \in Connection :
              connections'[d] = IF d \in unbound THEN [connections[d] EXCEPT !.task = "none"]
                                ELSE connections[d]
          BY <1>3
    <3>4. connections' \in [Connection -> ConnectionRow]
          BY <1>3, <3>1, <3>2
    <3>5. ASSUME NEW d \in Connection
          PROVE  /\ connections'[d].state = connections[d].state
                 /\ connections'[d].secret = connections[d].secret
                 /\ connections'[d].revoked = connections[d].revoked
                 /\ connections'[d].task = IF d \in unbound THEN "none" ELSE connections[d].task
      <4>1. CASE d \in unbound
            BY <3>1, <3>2, <3>3, <4>1
      <4>2. CASE d \notin unbound
            BY <3>3, <4>2
      <4> QED BY <4>1, <4>2
    <3> QED BY <3>4, <3>5
  <2>10. \A d \in Connection : (Existing(d)' <=> Existing(d)) /\ (Revocable(d)' <=> Revocable(d))
        BY <2>9 DEF Existing, Revocable
  <2>11. \A d \in Connection :
            /\ SourcesOf(d)' = SourcesOf(d) \ {t}
            /\ \A u \in SourcesOf(d) \ {t} : authority'[u].frozen = authority[u].frozen
        BY <2>5, <2>6 DEF SourcesOf
  <2>12. work' \in [Row -> [pc : Steps, secret : 0..MaxRotations + 1]]
        /\ (\A u \in CredentialTask \ {t} : work'[u] = work[u])
        /\ (\A d \in Connection : work'[d] = work[d])
        /\ work'[t] = Quiet
        BY <1>1, CredentialAssumption DEF CredentialTypeOK, Row, Quiet, Steps
  <2>13. \A d \in Connection : Releasing(d) /\ d = c => connections[c].secret # n
    <3> SUFFICES ASSUME Releasing(c) PROVE connections[c].secret # n
        OBVIOUS
    <3>1. Releasing(t) /\ RowOf(t) = c /\ RowOf(c) = c /\ t # c /\ t \in Row /\ c \in Row
          BY <1>1, <2>1, CredentialAssumption DEF Releasing, RowOf, Row
    <3>2. work[c].secret = connections[c].secret
          BY <2>1 DEF ConnectionWorkIsFounded, Releasing
    <3> QED BY <2>1, <3>1, <3>2 DEF OneReleaseAtATime
  <2>14. CredentialTypeOK'
        BY <1>1, <2>2, <2>5, <2>9, <2>12 DEF CredentialTypeOK, ConnectionRow, AuthorityRow
  <2>15. ConnectionsAreFormed' /\ StoredAreIssued'
        BY <2>2, <2>9 DEF ConnectionsAreFormed, StoredAreIssued
  <2>16. ReferencesAreFrozen'
    <3>1. ASSUME NEW u \in CredentialTask
          PROVE  /\ Frozen(u)' <=> authority'[u].state \in {"active", "ended"}
                 /\ Frozen(u)' =>
                       /\ authority'[u].connection \in Connection
                       /\ connections'[authority'[u].connection].state \in {"pending", "active", "disabled"}
                       /\ authority'[u].frozen \in 1..connections'[authority'[u].connection].secret
                       /\ authority'[u].connection \in Ephemeral =>
                             connections'[authority'[u].connection].task = u
      <4>1. CASE u = t
            BY <2>5, <2>6, <4>1 DEF Frozen
      <4>2. CASE u # t
            BY <2>5, <2>7, <2>9, <4>2 DEF ReferencesAreFrozen, Frozen, Existing
      <4> QED BY <4>1, <4>2
    <3>2. ASSUME NEW d \in Connection, connections'[d].task # "none"
          PROVE  /\ authority'[connections'[d].task].source # "none"
                 /\ authority'[connections'[d].task].connection = d
          BY <2>5, <2>7, <2>9, <3>2 DEF ReferencesAreFrozen, Frozen, CredentialTypeOK
    <3> QED BY <3>1, <3>2 DEF ReferencesAreFrozen, Frozen, Existing
  <2>17. ConnectionWorkIsFounded'
    <3> SUFFICES ASSUME NEW d \in Connection
                 PROVE  /\ work'[d].pc \in {"none", "rotating", "binding", "removing", "kept", "dropped"}
                        /\ work'[d].pc \in {"rotating", "kept", "dropped"} =>
                              /\ Existing(d)' /\ ~connections'[d].revoked
                              /\ work'[d].secret = connections'[d].secret
                              /\ connections'[d].secret <= MaxRotations
                        /\ Doing(d, "binding")' =>
                              /\ Existing(d)' /\ ~connections'[d].revoked /\ Unbound(d)'
                              /\ work'[d].secret = connections'[d].secret
                              /\ conversation'
                        /\ Doing(d, "removing")' => connections'[d].state # "absent"
                        /\ Doing(d, "kept")' =>
                              \E u \in SourcesOf(d)' : authority'[u].frozen = connections'[d].secret
                        /\ Doing(d, "dropped")' =>
                              \A u \in SourcesOf(d)' : authority'[u].frozen # connections'[d].secret
        BY DEF ConnectionWorkIsFounded
    <3>1. t \in SourcesOf(d) => d = c
          BY DEF SourcesOf
    <3> QED BY <1>1, <2>9, <2>10, <2>11, <2>12, <2>13, <3>1
            DEF ConnectionWorkIsFounded, Doing, Unbound, Releasing
  <2>18. TaskWorkIsFounded'
    <3> SUFFICES ASSUME NEW u \in CredentialTask
                 PROVE  /\ work'[u].pc \in {"none", "capturing", "deleting", "kept", "dropped"}
                        /\ work'[u].pc # "none" => Frozen(u)'
                        /\ Doing(u, "capturing")' => authority'[u].source \in {"registered", "failed"}
                        /\ Releasing(u)' => work'[u].secret = authority'[u].frozen
                        /\ Doing(u, "kept")' =>
                             \/ <<authority'[u].connection, authority'[u].frozen>> \notin stored'
                             \/ connections'[authority'[u].connection].secret = authority'[u].frozen
                             \/ \E v \in (SourcesOf(authority[u].connection) \ {u})' :
                                   authority'[v].frozen = authority'[u].frozen
                        /\ Doing(u, "dropped")' =>
                             /\ connections'[authority'[u].connection].secret # authority'[u].frozen
                             /\ \A v \in (SourcesOf(authority[u].connection) \ {u})' :
                                   authority'[v].frozen # authority'[u].frozen
        BY DEF TaskWorkIsFounded
    <3>1. CASE u = t
          BY <2>12, <3>1 DEF Doing, Releasing, Quiet
    <3>2. CASE u # t /\ ~Releasing(u)
          BY <2>5, <2>12, <3>2 DEF TaskWorkIsFounded, Doing, Releasing, Frozen
    <3>3. CASE u # t /\ Releasing(u)
      <4>1. /\ authority'[u] = authority[u] /\ work'[u] = work[u]
            /\ Frozen(u) /\ authority[u].connection \in Connection
            /\ work[u].secret = authority[u].frozen
            BY <2>5, <2>12, <3>3 DEF TaskWorkIsFounded, ReferencesAreFrozen, Releasing
      <4>2. authority[u].connection = c => authority[u].frozen # n
        <5>1. Releasing(t) /\ RowOf(t) = c /\ RowOf(u) = authority[u].connection /\ t \in Row /\ u \in Row
              BY <1>1, CredentialAssumption DEF Releasing, RowOf, Row
        <5> QED BY <2>1, <3>3, <4>1, <5>1 DEF OneReleaseAtATime
      <4>3. ASSUME NEW v \in SourcesOf(authority[u].connection) \ {u}, authority[v].frozen = authority[u].frozen
            PROVE  v \in (SourcesOf(authority[u].connection) \ {u})' /\ authority'[v].frozen = authority[v].frozen
        <5>1. v # t /\ v \in CredentialTask
              BY <4>2, <4>3 DEF SourcesOf
        <5> QED BY <2>5, <4>1, <5>1 DEF SourcesOf
      <4>4. ASSUME NEW v \in (SourcesOf(authority[u].connection) \ {u})'
            PROVE  v \in SourcesOf(authority[u].connection) \ {u} /\ authority'[v].frozen = authority[v].frozen
        <5>1. v # t /\ v \in CredentialTask
              BY <2>5, <2>6 DEF SourcesOf
        <5> QED BY <2>5, <4>1, <5>1 DEF SourcesOf
      <4>5. /\ Doing(u, "kept") =>
                  \/ <<authority[u].connection, authority[u].frozen>> \notin stored
                  \/ connections[authority[u].connection].secret = authority[u].frozen
                  \/ \E v \in SourcesOf(authority[u].connection) \ {u} :
                        authority[v].frozen = authority[u].frozen
            /\ Doing(u, "dropped") =>
                  /\ connections[authority[u].connection].secret # authority[u].frozen
                  /\ \A v \in SourcesOf(authority[u].connection) \ {u} :
                        authority[v].frozen # authority[u].frozen
            BY DEF TaskWorkIsFounded
      <4>6. connections'[authority[u].connection].secret = connections[authority[u].connection].secret
            BY <2>9, <4>1
      <4> QED BY <2>2, <3>3, <4>1, <4>3, <4>4, <4>5, <4>6 DEF Doing, Releasing, Frozen
    <3> QED BY <3>1, <3>2, <3>3
  <2>19. OneReleaseAtATime'
        BY <2>5, <2>12, CredentialAssumption DEF OneReleaseAtATime, Releasing, RowOf, Quiet, Row
  <2>20. SecretsAreAvailable'
    <3>1. ASSUME NEW d \in Connection, Existing(d)', ~connections'[d].revoked
          PROVE  <<d, connections'[d].secret>> \in stored'
          BY <2>2, <2>3, <2>9, <2>10, <3>1, CurrentSecrets
    <3>2. ASSUME NEW u \in CredentialTask, authority'[u].state = "active",
                 authority'[u].source \in {"registered", "failed"}
          PROVE  <<authority'[u].connection, authority'[u].frozen>> \in stored'
      <4>1. u # t /\ authority'[u] = authority[u]
            BY <2>5, <2>6, <3>2
      <4>2. <<authority[u].connection, authority[u].frozen>> \in stored
            BY <3>2, <4>1 DEF SecretsFollowTheirUses, SecretsAreAvailable
      <4>3. authority[u].connection \in Connection /\ authority[u].frozen \in 1..MaxRotations + 1
            BY <4>2 DEF CredentialTypeOK, Secret
      <4>4. authority[u].connection = c => u \in SourcesOf(c) \ {t}
            BY <3>2, <4>1 DEF SourcesOf
      <4> QED BY <2>2, <2>3, <4>1, <4>2, <4>3, <4>4
    <3> QED BY <3>1, <3>2 DEF SecretsAreAvailable
  <2>21. SecretsAreReleased'
    <3> SUFFICES ASSUME NEW d \in Connection, NEW m \in 1..MaxRotations + 1,
                        <<d, m>> \in stored', connections'[d].state # "deleted"
                 PROVE  /\ ~connections'[d].revoked
                        /\ \/ connections'[d].secret = m
                           \/ \E u \in SourcesOf(d)' : authority'[u].frozen = m
        BY DEF SecretsAreReleased
    <3>1. /\ ~connections[d].revoked
          /\ \/ connections[d].secret = m
             \/ \E u \in SourcesOf(d) : authority[u].frozen = m
          BY <2>2, <2>9 DEF SecretsFollowTheirUses, SecretsAreReleased
    <3>2. CASE d = c /\ m = n
          BY <1>1, <2>2, <2>3, <2>9, <2>11, <3>1, <3>2 DEF Doing
    <3>3. CASE ~(d = c /\ m = n)
      <4>1. \A u \in SourcesOf(d) : authority[u].frozen = m => u # t
            BY <3>3 DEF SourcesOf
      <4> QED BY <2>9, <2>11, <3>1, <4>1
    <3> QED BY <3>2, <3>3
  <2>22. BoundMeansRunning'
        BY <1>1, <2>5, <2>7, <2>9, <2>10, CredentialAssumption
        DEF SecretsFollowTheirUses, BoundMeansRunning, Unbound, CredentialTypeOK
  <2> QED BY <2>14, <2>15, <2>16, <2>17, <2>18, <2>19, <2>20, <2>21, <2>22
          DEF SecretsFollowTheirUses
<1> QED BY <1>2, <1>3 DEF CommitDeletion

-----------------------------------------------------------------------------
(* The specification *)

LEMMA CredentialsStart == CredentialInit => CredentialInv
<1> SUFFICES ASSUME CredentialInit PROVE CredentialInv
    OBVIOUS
<1>1. CredentialTypeOK
      BY CredentialAssumption DEF CredentialInit, CredentialTypeOK, Quiet, Steps, Row
<1>2. ConnectionsAreFormed /\ StoredAreIssued /\ ReferencesAreFrozen
      BY DEF CredentialInit, ConnectionsAreFormed, StoredAreIssued, ReferencesAreFrozen, Frozen
<1>3. ConnectionWorkIsFounded /\ TaskWorkIsFounded /\ OneReleaseAtATime
      BY DEF CredentialInit, ConnectionWorkIsFounded, TaskWorkIsFounded, OneReleaseAtATime,
         Doing, Releasing, Row, Quiet
<1>4. SecretsFollowTheirUses
      BY CredentialAssumption DEF CredentialInit, SecretsFollowTheirUses, SecretsAreAvailable, SecretsAreReleased,
         BoundMeansRunning, Revocable, Existing
<1> QED BY <1>1, <1>2, <1>3, <1>4 DEF CredentialInv, Structure

LEMMA CredentialStepsKeep == CredentialInv /\ [CredentialNext]_credentialVars => CredentialInv'
<1> SUFFICES ASSUME CredentialInv, [CredentialNext]_credentialVars PROVE CredentialInv'
    OBVIOUS
<1>1. ASSUME NEW c \in Connection,
             Create(c) \/ TestConnection(c) \/ BeginRotation(c) \/ ReleaseRotated(c)
             \/ CommitRotation(c) \/ BeginRemoval(c) \/ CommitRemoval(c) \/ Age(c)
             \/ RevokeExpired(c) \/ BeginBinding(c)
      PROVE  CredentialInv'
      BY <1>1, CreationKeeps, TestKeeps, RotationBegins, RotationReleases, RotationCommits,
         RemovalBegins, RemovalCommits, AgeKeeps, ExpiryKeeps, BindingBegins
<1>2. ASSUME NEW c \in Connection, NEW t \in CredentialTask, CommitBinding(c, t)
      PROVE  CredentialInv'
      BY <1>2, BindingCommits
<1>3. ASSUME NEW t \in CredentialTask,
             BeginCapture(t) \/ FailCapture(t) \/ FinishCapture(t) \/ EndTask(t)
             \/ BeginDeletion(t) \/ ReleaseDeleted(t) \/ CommitDeletion(t)
      PROVE  CredentialInv'
      BY <1>3, CaptureBegins, CaptureFailureKeeps, CaptureKeeps, TaskEndKeeps, DeletionBegins,
         DeletionReleases, DeletionCommits
<1>4. CASE UNCHANGED credentialVars
  <2>1. CredentialTypeOK'
        BY <1>4 DEF CredentialInv, Structure, CredentialTypeOK, credentialVars
  <2> QED BY <1>4, <2>1, OnlyStatesChange DEF credentialVars, Existing
<1> QED BY <1>1, <1>2, <1>3, <1>4, ScanKeeps, ResetKeeps DEF CredentialNext

LEMMA CredentialInvariance == CredentialSpec => []CredentialInv
BY CredentialsStart, CredentialStepsKeep, PTL DEF CredentialSpec

\* A secret is there as long as a connection that was not revoked or a running
\* task may still read it, and goes with the last reference to it or with the
\* revocation, and an unrevoked ephemeral connection is bound to a running task
\* or to nothing: whatever rotations, deletions, captures, expiry, resets and
\* starts overlap (api_connectors/secrets.py, service.py, materializer.py).
THEOREM Credentials_SecretsFollowTheirUses == CredentialSpec => []SecretsFollowTheirUses
<1>1. CredentialInv => SecretsFollowTheirUses
      BY DEF CredentialInv
<1> QED BY <1>1, CredentialInvariance, PTL

\* The rows keep their types: no rotation passes the bound, no reference names
\* a connection that is not one.
THEOREM Credentials_TypeOK == CredentialSpec => []CredentialTypeOK
<1>1. CredentialInv => CredentialTypeOK
      BY DEF CredentialInv, Structure
<1> QED BY <1>1, CredentialInvariance, PTL

-----------------------------------------------------------------------------
(* Ingestion: what the variables hold. *)
SourceKind == {"csv", "local", "remote", "api", "database"}
Phase == {"inspection", "mapping", "normalization"}
Verdicts == {"recognized", "problem", "mappable", "unmapped", "resolved", "unresolved", "stored"}
Node == {"none", "materialize_sources", "inspect_sources", "normalize_input_batches",
         "validate_input_contract", "build_identity_index", "report_abnormal_input"}
ActKind == {"none", "materialize", "inspect", "normalize_ready_sources", "map", "normalize",
            "validate_normalized_input", "build_identity_index", "report_abnormal_input"}
Acts == [kind : ActKind, role : Role \cup {"pair"}, page : 0..2]
SourceRows == [kind : SourceKind \cup {"none"},
               form : {"recognized", "mappable", "broken", "empty"},
               version : Nat, file : Nat, state : {"registered", "ready", "failed"},
               snapshot : BOOLEAN]
Runs == [contract : 0..3, node : Node, cursor : Nat, frozen : Acts, done : SUBSET Acts,
         owner : SUBSET Ingester, ended : {"active", "failed", "blocked"}]
Works == [step : {"idle", "begun", "captured", "failing", "done"}, act : Acts, cursor : Nat,
          before : [Role -> Nat], read : SUBSET (Page \X Nat), fresh : BOOLEAN]
Disturbances == [edits : Nat, faults : Nat, crashes : Nat, takeovers : Nat]

CheckpointOK(row) ==
  /\ row.verdict \in Verdicts /\ row.hash \in Nat /\ row.version \in Nat

RowsOK ==
  /\ DOMAIN rows.checkpoints \subseteq Phase \X Role
  /\ \A k \in DOMAIN rows.checkpoints : CheckpointOK(rows.checkpoints[k])
  /\ rows.inputs \in [Role -> SUBSET (Page \X Nat)]
  /\ rows.version \in Nat

IngestTypes ==
  /\ sources \in [Role -> SourceRows]
  /\ ingestion \in Runs
  /\ RowsOK
  /\ ingesting \in [Ingester -> Works]
  /\ disturbed \in Disturbances

\* What a run was created with, and what is left of the bounds.
SourcesMatch ==
  /\ ingestion.node = "none" <=> ingestion.contract = 0
  /\ ingestion.node = "none" => /\ \A w \in Ingester : ingesting[w] = Unoccupied
                                /\ ingestion.ended = "active" /\ ingestion.owner = {}
                                /\ rows.checkpoints = <<>> /\ rows.version = 0
                                /\ \A r \in Role : rows.inputs[r] = {} /\ sources[r] = UnboundSource
                                /\ ingestion.frozen = NoAct /\ ingestion.done = {}
  /\ sources["target"].kind \notin Fetched
  /\ ingestion.contract = 1 => \A r \in Role : sources[r].kind \in {"csv", "local"}
  /\ \A r \in Role : sources[r].kind = "none" <=> ingestion.node = "none"
  /\ ingestion.node = "materialize_sources" => sources["authoritative"].kind \in Fetched
  /\ sources["authoritative"].kind = "api" /\ sources["authoritative"].file # 0 =>
        sources["authoritative"].snapshot
  /\ ingestion.ended # "active" => ingestion.owner = {}

BoundsHold ==
  /\ disturbed.edits + disturbed.faults + disturbed.crashes + disturbed.takeovers
       <= MaxDisturbances
  /\ \A r \in Role : sources[r].version \in 1..(disturbed.edits + 1)

\* A role's inputs, its checkpoint and, of the target, the first target version
\* come together.
NormalizationIsFounded(r) ==
  /\ sources[r].form = "empty" => rows.inputs[r] = {}
  /\ ingestion.contract > 1 /\ rows.inputs[r] # {} => Normalized(r)
  /\ Normalized(r) =>
       LET n == rows.checkpoints[<<"normalization", r>>] IN
       /\ n.verdict = "stored"
       /\ n.hash = n.version
       /\ sources[r].form = "empty" \/ {x[1] : x \in rows.inputs[r]} = Page
       /\ sources[r].kind # "database" => n.version = 0
       /\ sources[r].kind = "database" => Mapped(r)
       /\ r = "target" => rows.version = n.version
  /\ r = "target" /\ rows.version # 0 => Normalized(r)

\* What is offered next, whether it is frozen or a worker is at it, is legal
\* and remains what it was offered for.
PageStored(a) == \E x \in rows.inputs[a.role] : x[1] = a.page
PagesDone ==
  \A r \in Role : \A i \in DOMAIN Pages(r) : Pages(r)[i] \in ingestion.done
CompleteInputs ==
  /\ \A r \in Role : sources[r].form = "empty" \/ {x[1] : x \in rows.inputs[r]} = Page
  /\ ingestion.contract > 1 =>
       \A r \in Role : /\ Verdict("normalization", r) = "stored"
                       /\ Verdict("mapping", r) = "resolved"
  /\ ingestion.contract = 3 => sources["authoritative"].form # "empty"

ActIsFounded(a) ==
  /\ a.kind = "materialize" => a.role = "authoritative" /\ sources["authoritative"].kind \in Fetched
  /\ a.kind \in {"inspect", "normalize"} => a.role \in Role
  /\ a.kind = "normalize" /\ ingestion.contract > 1 => \A r \in Role : Mapped(r)
  /\ a.kind = "map" => \/ ingestion.contract = 2 /\ a.role = "pair"
                       \/ ingestion.contract = 3 /\ a.role \in Role
  /\ a.kind = "normalize" /\ ingestion.contract = 1 => a.page \in Page
  /\ a.kind = "validate_normalized_input" /\ ingestion.contract = 1 => PagesDone
  /\ a.kind = "build_identity_index" => CompleteInputs

RunIsFounded ==
  /\ ingestion.frozen # NoAct => ActIsFounded(ingestion.frozen)
  /\ \A a \in ingestion.done :
       a.kind = "normalize" /\ ingestion.contract = 1 => a.role \in Role /\ PageStored(a)
  /\ ingestion.contract = 1 /\ ingestion.node = "validate_input_contract" => PagesDone
  /\ ingestion.contract = 2 => (Mapped("authoritative") <=> Mapped("target"))
  /\ ingestion.node = "build_identity_index" => CompleteInputs

\* What a worker read is not older than what it compared with, nor newer than
\* what is there.
WorkIsFounded(w) ==
  ingesting[w] # Unoccupied =>
    LET a == ingesting[w].act IN
    /\ ingesting[w].step # "idle"
    /\ a # NoAct
    /\ ActIsFounded(a)
    /\ \A r \in Role : ingesting[w].before[r] \in 1..sources[r].version
    /\ ingesting[w].step \in {"captured", "failing"} => a.kind = "materialize"
    /\ ingesting[w].step = "captured" /\ sources["authoritative"].kind = "remote" =>
         sources["authoritative"].file # 0
    /\ ingesting[w].read # {} =>
         /\ a.kind = "normalize" /\ sources[a.role].form # "empty"
         /\ \A x \in ingesting[w].read :
              ingesting[w].before[a.role] <= x[2] /\ x[2] <= sources[a.role].version
    /\ ingesting[w].step = "done" /\ a.kind = "normalize" /\ ingestion.contract = 1 =>
         PageStored(a)

\* While nobody disturbs a run one worker is at it, and all it reads is the
\* first version.
Undisturbed == disturbed.edits = 0 /\ disturbed.faults = 0 /\ disturbed.takeovers = 0

UndisturbedRunIsAlone ==
  Undisturbed =>
    /\ \A r \in Role : /\ sources[r].state # "failed"
                       /\ sources[r].kind \in Fetched /\ sources[r].snapshot =>
                            sources[r].file = 1 /\ sources[r].state = "ready"
                       /\ sources[r].file \in {0, 1}
                       /\ \A x \in rows.inputs[r] : x[2] = 1
    /\ \A w \in Ingester : ingesting[w] # Unoccupied =>
         /\ OwnsRun(w)
         /\ ingesting[w].step # "failing"
         /\ ingesting[w].step \in {"begun", "captured"} /\ ingesting[w].fresh =>
              ~Stored(ingesting[w].act)

IngestionInv ==
  /\ IngestTypes
  /\ SourcesMatch
  /\ BoundsHold
  /\ \A r \in Role : NormalizationIsFounded(r)
  /\ IngestedFromOneVersion
  /\ RunIsFounded
  /\ \A w \in Ingester : WorkIsFounded(w)
  /\ UndisturbedRunIsAlone
  /\ CrashesFailNothing

-----------------------------------------------------------------------------
(* The steps of one worker *)

\* The worker drops what it does; its run may be freed, and ended with it.
Quits(w) ==
  /\ ingesting' = [ingesting EXCEPT ![w] = Unoccupied]
  /\ \/ ingestion' = ingestion
     \/ \E e \in {ingestion.ended, "failed", "blocked"} :
          OwnsRun(w) /\ ingestion' = [ingestion EXCEPT !.ended = e, !.owner = {}]

LEMMA QuitsFacts ==
  ASSUME IngestTypes, NEW w \in Ingester
  PROVE  /\ Fail(w) => Quits(w)
         /\ GiveBack(w) => Quits(w) /\ ingestion'.ended = ingestion.ended
         /\ BlockRun(w) => Quits(w) /\ (ingestion'.ended = "failed" => ingestion.ended = "failed")
         /\ CrashIngester(w) => Quits(w) /\ ingestion' = ingestion
<1>1. ingestion \in Runs
      BY DEF IngestTypes
<1>2. [ingestion EXCEPT !.owner = {}] = [ingestion EXCEPT !.ended = ingestion.ended, !.owner = {}]
      BY <1>1 DEF Runs
<1>3. Fail(w) => Quits(w)
      BY DEF Fail, Quits
<1>4. ASSUME GiveBack(w) PROVE Quits(w) /\ ingestion'.ended = ingestion.ended
      BY <1>1, <1>2, <1>4 DEF GiveBack, Quits, Runs
<1>5. ASSUME BlockRun(w) PROVE Quits(w) /\ (ingestion'.ended = "failed" => ingestion.ended = "failed")
      BY <1>1, <1>5 DEF BlockRun, Quits, Runs
<1>6. ASSUME CrashIngester(w) PROVE Quits(w) /\ ingestion' = ingestion
      BY <1>6 DEF CrashIngester, Quits
<1> QED BY <1>3, <1>4, <1>5, <1>6

LEMMA UnoccupiedType == Unoccupied \in Works
BY DEF Unoccupied, Works, Acts, ActKind, NoAct, Do

LEMMA QuitsTypes ==
  ASSUME IngestTypes, NEW w \in Ingester, Quits(w)
  PROVE  /\ ingesting' \in [Ingester -> Works]
         /\ ingestion' \in Runs
<1>1. ingesting' \in [Ingester -> Works]
      BY UnoccupiedType DEF IngestTypes, Quits
<1>2. ingestion' \in Runs
      BY DEF IngestTypes, Quits, Runs
<1> QED BY <1>1, <1>2

\* What storing does, if it stores.
Saves(w, found, input, recorded) ==
  /\ Did(w) /\ ingestion' = ingestion
  /\ \A r \in Role : \A x \in input[r], y \in rows.inputs[r] : x[1] = y[1] => x = y
  /\ \A k \in DOMAIN found \cap DOMAIN rows.checkpoints :
       rows.checkpoints[k].hash = found[k].hash
  /\ rows'.checkpoints = [k \in DOMAIN found \cup DOMAIN rows.checkpoints |->
                            IF k \in DOMAIN rows.checkpoints THEN rows.checkpoints[k] ELSE found[k]]
  /\ rows'.inputs = InputsWith(input)
  /\ rows'.version = IF rows.version # 0 THEN rows.version
                     ELSE IF <<"normalization", "target">> \in DOMAIN found
                     THEN found[<<"normalization", "target">>].version ELSE 0

Mixes(input) ==
  \E r \in Role : \E x \in input[r], y \in rows.inputs[r] : x[1] = y[1] /\ x # y

LEMMA StoreCases ==
  ASSUME NEW w \in Ingester, NEW found, NEW input, NEW recorded,
         Store(w, found, input, recorded)
  PROVE  \/ Fail(w) /\ rows' = rows /\ Mixes(input)
         \/ GiveBack(w) /\ rows' = rows
         \/ Saves(w, found, input, recorded)
<1>1. CASE Mixes(input)
      BY <1>1 DEF Store, Mixes
<1>2. CASE ~Mixes(input)
  <2>1. (GiveBack(w) /\ rows' = rows) \/ (Did(w) /\ ingestion' = ingestion)
        BY <1>2 DEF Store, Mixes
  <2>2. CASE ~(GiveBack(w) /\ rows' = rows)
    <3>1. /\ Did(w) /\ ingestion' = ingestion
          /\ \A k \in DOMAIN found \cap DOMAIN rows.checkpoints :
               rows.checkpoints[k].hash = found[k].hash
          BY <1>2, <2>2 DEF Store, Mixes
    <3>2. rows'.checkpoints = [k \in DOMAIN found \cup DOMAIN rows.checkpoints |->
                            IF k \in DOMAIN rows.checkpoints THEN rows.checkpoints[k] ELSE found[k]]
          BY <1>2, <2>2 DEF Store, Mixes
    <3>3. rows'.inputs = InputsWith(input)
          BY <1>2, <2>2 DEF Store, Mixes
    <3>4. rows'.version = IF rows.version # 0 THEN rows.version
                     ELSE IF <<"normalization", "target">> \in DOMAIN found
                     THEN found[<<"normalization", "target">>].version ELSE 0
          BY <1>2, <2>2 DEF Store, Mixes
    <3> QED BY <1>2, <3>1, <3>2, <3>3, <3>4 DEF Saves, Mixes
  <2> QED BY <2>2
<1> QED BY <1>1, <1>2

-----------------------------------------------------------------------------
(* What every step but the creation of the task leaves as it is *)

CheckpointsKept ==
  \A k \in DOMAIN rows.checkpoints :
    k \in DOMAIN rows'.checkpoints /\ rows'.checkpoints[k] = rows.checkpoints[k]

SourcesKept ==
  \A r \in Role : /\ sources'[r].kind = sources[r].kind
                  /\ sources'[r].form = sources[r].form
                  /\ sources[r].version <= sources'[r].version
                  /\ sources[r].snapshot => sources'[r].snapshot

Grows ==
  /\ CheckpointsKept /\ SourcesKept
  /\ \A r \in Role : rows.inputs[r] \subseteq rows'.inputs[r]
  /\ ingestion'.contract = ingestion.contract
  /\ ingestion.done \subseteq ingestion'.done

LEMMA VerdictsStay ==
  ASSUME CheckpointsKept, NEW kind, NEW r, Verdict(kind, r) # "missing"
  PROVE  Verdict(kind, r)' = Verdict(kind, r)
BY DEF CheckpointsKept, Verdict

LEMMA MappedStays ==
  ASSUME CheckpointsKept, NEW r
  PROVE  /\ Mapped(r) => Mapped(r)'
         /\ Normalized(r) => Normalized(r)'
BY VerdictsStay DEF Mapped, Normalized

LEMMA PagesStay ==
  ASSUME Grows
  PROVE  /\ PagesDone => PagesDone'
         /\ \A a : a.role \in Role /\ PageStored(a) => PageStored(a)'
<1>1. \A r \in Role : Pages(r)' = Pages(r)
      BY DEF Grows, SourcesKept, Pages
<1>2. PagesDone => PagesDone'
      BY <1>1 DEF PagesDone, Grows
<1>3. \A a : a.role \in Role /\ PageStored(a) => PageStored(a)'
      BY DEF PageStored, Grows
<1> QED BY <1>2, <1>3

LEMMA CompleteStays ==
  ASSUME IngestTypes, IngestTypes', Grows, CompleteInputs
  PROVE  CompleteInputs'
<1>1. ASSUME NEW r \in Role
      PROVE  sources'[r].form = "empty" \/ {x[1] : x \in rows'.inputs[r]} = Page
  <2>1. CASE sources[r].form = "empty"
        BY <2>1 DEF Grows, SourcesKept
  <2>2. CASE {x[1] : x \in rows.inputs[r]} = Page
    <3>1. rows.inputs[r] \subseteq rows'.inputs[r] /\ rows'.inputs[r] \subseteq Page \X Nat
          BY DEF Grows, IngestTypes, RowsOK
    <3>2. \A x \in rows'.inputs[r] : x[1] \in Page
          BY <3>1
    <3> QED BY <2>2, <3>1, <3>2
  <2> QED BY <2>1, <2>2 DEF CompleteInputs
<1>2. ingestion'.contract > 1 =>
       \A r \in Role : /\ Verdict("normalization", r)' = "stored"
                       /\ Verdict("mapping", r)' = "resolved"
      BY VerdictsStay DEF CompleteInputs, Grows
<1>3. ingestion'.contract = 3 => sources'["authoritative"].form # "empty"
      BY DEF CompleteInputs, Grows, SourcesKept, Role
<1> QED BY <1>1, <1>2, <1>3 DEF CompleteInputs

LEMMA ActStays ==
  ASSUME IngestTypes, IngestTypes', Grows, NEW a \in Acts, ActIsFounded(a)
  PROVE  ActIsFounded(a)'
<1>1. sources'["authoritative"].kind = sources["authoritative"].kind
      BY DEF Grows, SourcesKept, Role
<1>2. a.kind = "normalize" /\ ingestion'.contract > 1 => \A r \in Role : Mapped(r)'
      BY MappedStays DEF ActIsFounded, Grows
<1>3. a.kind = "validate_normalized_input" /\ ingestion'.contract = 1 => PagesDone'
      BY PagesStay DEF ActIsFounded, Grows
<1>4. a.kind = "build_identity_index" => CompleteInputs'
      BY CompleteStays DEF ActIsFounded
<1> QED BY <1>1, <1>2, <1>3, <1>4 DEF ActIsFounded, Grows

\* A worker that the step does not concern.
LEMMA OthersStayFounded ==
  ASSUME IngestTypes, IngestTypes', Grows, NEW v \in Ingester, WorkIsFounded(v),
         ingesting'[v] = ingesting[v],
         sources["authoritative"].kind = "remote" /\ sources["authoritative"].file # 0 =>
            sources'["authoritative"].file # 0
  PROVE  WorkIsFounded(v)'
<1> DEFINE a == ingesting[v].act
<1> SUFFICES ASSUME ingesting[v] # Unoccupied
             PROVE  WorkIsFounded(v)'
    BY DEF WorkIsFounded
<1>1. a \in Acts /\ ActIsFounded(a)' /\ ingesting[v] \in Works
      BY ActStays DEF WorkIsFounded, IngestTypes, Works
<1>2. \A r \in Role : ingesting[v].before[r] \in 1..sources'[r].version
      BY <1>1 DEF WorkIsFounded, Grows, SourcesKept, IngestTypes, SourceRows
<1>3. ASSUME ingesting[v].read # {}
      PROVE  /\ a.kind = "normalize" /\ sources'[a.role].form # "empty"
             /\ \A x \in ingesting[v].read :
                  ingesting[v].before[a.role] <= x[2] /\ x[2] <= sources'[a.role].version
  <2>1. a.role \in Role
        BY <1>3 DEF WorkIsFounded, ActIsFounded
  <2>2. sources[a.role].version \in Nat /\ sources'[a.role].version \in Nat
        BY <2>1 DEF IngestTypes, SourceRows
  <2>3. \A x \in ingesting[v].read : x[2] \in Nat
        BY <1>1 DEF Works
  <2> QED BY <1>3, <2>1, <2>2, <2>3 DEF WorkIsFounded, Grows, SourcesKept
<1>4. ingesting[v].step = "done" /\ a.kind = "normalize" /\ ingestion'.contract = 1 =>
         PageStored(a)'
      BY PagesStay DEF WorkIsFounded, ActIsFounded, Grows
<1>5. sources'["authoritative"].kind = sources["authoritative"].kind
      BY DEF Grows, SourcesKept, Role
<1> QED BY <1>1, <1>2, <1>3, <1>4, <1>5 DEF WorkIsFounded

-----------------------------------------------------------------------------
(* What an action stores *)

\* The version of all that a source that is read as a whole delivers.
WholeVersion(r) ==
  IF sources[r].kind \in Fetched THEN sources[r].file ELSE sources[r].version

\* Checkpoints and input rows that NormalizationIsFounded allows to be stored.
FoundedFor(r, found, rowsOf) ==
  /\ rowsOf \subseteq Page \X Nat
  /\ sources[r].form = "empty" => rowsOf = {}
  /\ ingestion.contract > 1 /\ rowsOf # {} => <<"normalization", r>> \in DOMAIN found
  /\ sources[r].kind \in Fetched => \A x \in rowsOf : x[2] = WholeVersion(r)
  /\ Undisturbed => \A x \in rowsOf : x[2] = 1
  /\ <<"normalization", r>> \in DOMAIN found =>
       LET n == found[<<"normalization", r>>] IN
       /\ ingestion.contract > 1
       /\ n.verdict = "stored" /\ n.hash = n.version
       /\ sources[r].form = "empty" \/ {x[1] : x \in rowsOf} = Page
       /\ sources[r].kind # "database" => n.version = 0
       /\ sources[r].kind = "database" =>
            /\ Mapped(r) /\ MappedVersion(r) = n.version
            /\ \A x \in rowsOf : x[2] = n.version

LegallyFound(w, found, input) ==
  /\ DOMAIN found \subseteq Phase \X Role
  /\ \A k \in DOMAIN found : CheckpointOK(found[k])
  /\ \A r \in Role : FoundedFor(r, found, input[r])
  /\ ingesting[w].act.kind = "normalize" /\ ingestion.contract = 1 =>
       \E x \in input[ingesting[w].act.role] : x[1] = ingesting[w].act.page
  /\ ingestion.contract = 2 =>
       (<<"mapping", "authoritative">> \in DOMAIN found <=> <<"mapping", "target">> \in DOMAIN found)

LEMMA ContentFacts ==
  ASSUME IngestionInv, NEW r \in Role
  PROVE  /\ Content(r) \subseteq Page \X Nat
         /\ sources[r].form = "empty" => Content(r) = {}
         /\ sources[r].form # "empty" => {x[1] : x \in Content(r)} = Page
         /\ \A x \in Content(r) : x[2] = WholeVersion(r)
         /\ Undisturbed /\ sources[r].snapshot => WholeVersion(r) = 1
<1>1. WholeVersion(r) \in Nat
      BY DEF IngestionInv, IngestTypes, SourceRows, WholeVersion
<1>2. Content(r) = IF sources[r].form = "empty" THEN {} ELSE {<<p, WholeVersion(r)>> : p \in Page}
      BY DEF Content, WholeVersion
<1>3. ASSUME sources[r].form # "empty" PROVE {x[1] : x \in Content(r)} = Page
  <2>1. \A p \in Page : <<p, WholeVersion(r)>> \in Content(r) /\ <<p, WholeVersion(r)>>[1] = p
        BY <1>2, <1>3
  <2>2. \A x \in Content(r) : x[1] \in Page
        BY <1>2, <1>3
  <2> QED BY <2>1, <2>2
<1>4. ASSUME Undisturbed, sources[r].snapshot PROVE WholeVersion(r) = 1
  <2>1. CASE sources[r].kind \in Fetched
        BY <1>4, <2>1 DEF WholeVersion, IngestionInv, UndisturbedRunIsAlone
  <2>2. CASE sources[r].kind \notin Fetched
    <3>1. sources[r].version \in 1..(disturbed.edits + 1) /\ disturbed.edits = 0
          BY <1>4 DEF IngestionInv, BoundsHold, Undisturbed
    <3> QED BY <2>2, <3>1 DEF WholeVersion
  <2> QED BY <2>1, <2>2
<1> QED BY <1>1, <1>2, <1>3, <1>4

\* Nothing but checkpoints of other phases.
LEMMA NoInputIsLegal ==
  ASSUME IngestionInv, NEW w \in Ingester, NEW found,
         DOMAIN found \subseteq Phase \X Role,
         \A k \in DOMAIN found : CheckpointOK(found[k]) /\ k[1] # "normalization",
         ingesting[w].act.kind = "normalize" => ingestion.contract # 1,
         ingestion.contract = 2 => (<<"mapping", "authoritative">> \in DOMAIN found
                                      <=> <<"mapping", "target">> \in DOMAIN found)
  PROVE  LegallyFound(w, found, NoInput)
<1>1. \A r \in Role : <<"normalization", r>> \notin DOMAIN found /\ NoInput[r] = {}
      BY DEF NoInput
<1>2. \A r \in Role : FoundedFor(r, found, NoInput[r])
      BY <1>1 DEF FoundedFor
<1> QED BY <1>2 DEF LegallyFound

LEMMA InspectionIsLegal ==
  ASSUME IngestionInv, NEW w \in Ingester, NEW verdict \in Verdicts,
         ingesting[w].act.kind = "inspect", ingesting[w].act.role \in Role
  PROVE  LET r == ingesting[w].act.role IN
         LegallyFound(w, One("inspection", r,
                             CheckpointRow(verdict, VersionOf(w, r), VersionOf(w, r), 0)), NoInput)
<1> DEFINE r == ingesting[w].act.role
           found == One("inspection", r,
                        CheckpointRow(verdict, VersionOf(w, r), VersionOf(w, r), 0))
<1>1. VersionOf(w, r) \in Nat
      BY DEF VersionOf, IngestionInv, IngestTypes, Works
<1>2. DOMAIN found = {<<"inspection", r>>} /\ DOMAIN found \subseteq Phase \X Role
      BY DEF One, Phase
<1>3. \A k \in DOMAIN found : CheckpointOK(found[k]) /\ k[1] # "normalization"
      BY <1>1 DEF One, CheckpointOK, CheckpointRow
<1> HIDE DEF found
<1>4. LegallyFound(w, found, NoInput)
      BY <1>2, <1>3, NoInputIsLegal
<1> QED BY <1>4 DEF found

LEMMA MappingIsLegal ==
  ASSUME IngestionInv, NEW w \in Ingester, NEW verdict \in Verdicts,
         ingesting[w].act.kind = "map", ActIsFounded(ingesting[w].act)
  PROVE  LegallyFound(w, [k \in {<<"mapping", r>> : r \in Roles(ingesting[w].act)} |->
                            CheckpointRow(verdict, 0, VersionOf(w, k[2]), 0)], NoInput)
<1> DEFINE found == [k \in {<<"mapping", r>> : r \in Roles(ingesting[w].act)} |->
                       CheckpointRow(verdict, 0, VersionOf(w, k[2]), 0)]
<1>0. ingestion.contract = 2 => Roles(ingesting[w].act) = Role
      BY DEF Roles, ActIsFounded
<1>1. Roles(ingesting[w].act) \subseteq Role
      BY DEF Roles
<1>2. \A r \in Role : VersionOf(w, r) \in Nat
      BY DEF VersionOf, IngestionInv, IngestTypes, Works
<1>3. DOMAIN found \subseteq Phase \X Role
      BY <1>1 DEF Phase
<1>4. \A k \in DOMAIN found : k[1] = "mapping" /\ k[2] \in Role
      BY <1>1
<1>5. \A k \in DOMAIN found : CheckpointOK(found[k]) /\ k[1] # "normalization"
      BY <1>2, <1>4 DEF CheckpointOK, CheckpointRow
<1>6. ingestion.contract = 2 => (<<"mapping", "authoritative">> \in DOMAIN found
                                   <=> <<"mapping", "target">> \in DOMAIN found)
      BY <1>0 DEF Role
<1> HIDE DEF found
<1>7. LegallyFound(w, found, NoInput)
      BY <1>3, <1>5, <1>6, NoInputIsLegal
<1> QED BY <1>7 DEF found

\* A source read as a whole, from version 2 of the contract on.
LEMMA WholeIsLegal ==
  ASSUME IngestionInv, NEW w \in Ingester, ingestion.contract > 1,
         ingesting[w].act.role \in Role,
         sources[ingesting[w].act.role].kind # "database",
         sources[ingesting[w].act.role].snapshot
  PROVE  LET r == ingesting[w].act.role IN
         LegallyFound(w, One("normalization", r,
                             CheckpointRow("stored", 0, 0, Cardinality(Content(r)))),
                      [NoInput EXCEPT ![r] = Content(r)])
<1> DEFINE r == ingesting[w].act.role
           found == One("normalization", r, CheckpointRow("stored", 0, 0, Cardinality(Content(r))))
           input == [NoInput EXCEPT ![r] = Content(r)]
<1>1. DOMAIN found = {<<"normalization", r>>} /\ DOMAIN found \subseteq Phase \X Role
      BY DEF One, Phase
<1>2. /\ \A k \in DOMAIN found : CheckpointOK(found[k])
      /\ found[<<"normalization", r>>].verdict = "stored"
      /\ found[<<"normalization", r>>].hash = 0 /\ found[<<"normalization", r>>].version = 0
      BY DEF One, CheckpointOK, CheckpointRow, Verdicts
<1>3. input[r] = Content(r) /\ \A q \in Role : q # r => input[q] = {}
      BY DEF NoInput
<1> HIDE DEF found, input
<1>4. \A q \in Role : q # r => FoundedFor(q, found, input[q])
      BY <1>1, <1>3 DEF FoundedFor
<1>5. FoundedFor(r, found, Content(r))
      BY <1>1, <1>2, ContentFacts DEF FoundedFor
<1>6. LegallyFound(w, found, input)
      BY <1>1, <1>2, <1>3, <1>4, <1>5 DEF LegallyFound
<1> QED BY <1>6 DEF found, input

LEMMA ContractOf ==
  ASSUME IngestionInv, NEW r \in Role, sources[r].kind = "database"
  PROVE  ingestion.contract \in {2, 3}
<1>1. ingestion.contract \in 0..3
      BY DEF IngestionInv, IngestTypes, Runs
<1>2. ingestion.contract # 0 /\ ingestion.contract # 1
      BY DEF IngestionInv, SourcesMatch
<1> QED BY <1>1, <1>2

\* Rows of a database of which no version was read but the one that was mapped.
LEMMA ExtractionIsLegal ==
  ASSUME IngestionInv, NEW w \in Ingester, Begun(w, "normalize"),
         sources[ingesting[w].act.role].kind = "database",
         VersionHeld(w, ingesting[w].act.role), Extracted(w, ingesting[w].act.role)
  PROVE  LET r == ingesting[w].act.role
             v == ingesting[w].before[r] IN
         LegallyFound(w, One("normalization", r,
                             CheckpointRow("stored", v, v, Cardinality(ingesting[w].read))),
                      [NoInput EXCEPT ![r] = ingesting[w].read])
<1> DEFINE r == ingesting[w].act.role
           v == ingesting[w].before[r]
           found == One("normalization", r,
                        CheckpointRow("stored", v, v, Cardinality(ingesting[w].read)))
           input == [NoInput EXCEPT ![r] = ingesting[w].read]
<1>1. WorkIsFounded(w) /\ ingesting[w] # Unoccupied /\ ingesting[w] \in Works
      BY DEF IngestionInv, IngestTypes, Begun, Unoccupied
<1>2. r \in Role
      BY <1>1 DEF Begun, WorkIsFounded, ActIsFounded
<1>3. v \in Nat /\ v >= 1 /\ sources[r].version = v /\ MappedVersion(r) = v
      BY <1>1, <1>2 DEF VersionHeld, WorkIsFounded, Works
<1>4. ingestion.contract > 1
      BY <1>2, ContractOf
<1>5. Mapped(r)
      BY <1>1, <1>2, <1>4 DEF WorkIsFounded, ActIsFounded, Begun
<1>6. \A x \in ingesting[w].read : x[2] = v
  <2>1. \A x \in ingesting[w].read : x[2] \in Nat
        BY <1>1 DEF Works
  <2> QED BY <1>1, <1>3, <2>1 DEF WorkIsFounded
<1>7. Undisturbed => v = 1
      BY <1>2, <1>3 DEF IngestionInv, BoundsHold, Undisturbed
<1>8. sources[r].form = "empty" => ingesting[w].read = {}
      BY <1>1 DEF WorkIsFounded
<1>9. ingesting[w].read \subseteq Page \X Nat
      BY <1>1 DEF Works
<1>10. DOMAIN found = {<<"normalization", r>>} /\ DOMAIN found \subseteq Phase \X Role
      BY <1>2 DEF One, Phase
<1>11. /\ \A k \in DOMAIN found : CheckpointOK(found[k])
       /\ found[<<"normalization", r>>].verdict = "stored"
       /\ found[<<"normalization", r>>].hash = v /\ found[<<"normalization", r>>].version = v
      BY <1>3 DEF One, CheckpointOK, CheckpointRow, Verdicts
<1>12. input[r] = ingesting[w].read /\ \A q \in Role : q # r => input[q] = {}
      BY <1>2 DEF NoInput
<1> HIDE DEF found, input
<1>13. \A q \in Role : q # r => FoundedFor(q, found, input[q])
      BY <1>10, <1>12 DEF FoundedFor
<1>14. FoundedFor(r, found, ingesting[w].read)
      BY <1>3, <1>4, <1>5, <1>6, <1>7, <1>8, <1>9, <1>10, <1>11
      DEF FoundedFor, Extracted, Fetched
<1>15. LegallyFound(w, found, input)
      BY <1>2, <1>4, <1>10, <1>11, <1>12, <1>13, <1>14 DEF LegallyFound
<1> QED BY <1>15 DEF found, input

\* One page, under version 1 of the contract.
LEMMA PageIsLegal ==
  ASSUME IngestionInv, NEW w \in Ingester, Begun(w, "normalize"), Readable(w),
         ingestion.contract = 1, Content(ingesting[w].act.role) # {},
         NEW rowsOf,
         LET a == ingesting[w].act
             answered == {x \in rows.inputs[a.role] : x[1] = a.page}
         IN  rowsOf = IF answered # {} THEN answered
                      ELSE {x \in Content(a.role) : x[1] = a.page},
         ingesting[w].act.page \in Page
  PROVE  LegallyFound(w, <<>>, [NoInput EXCEPT ![ingesting[w].act.role] = rowsOf])
<1> DEFINE r == ingesting[w].act.role
           input == [NoInput EXCEPT ![r] = rowsOf]
<1>1. WorkIsFounded(w) /\ ingesting[w] # Unoccupied /\ ingesting[w] \in Works
      BY DEF IngestionInv, IngestTypes, Begun, Unoccupied
<1>2. r \in Role
      BY <1>1 DEF Begun, WorkIsFounded, ActIsFounded
<1>3. sources[r].kind \notin Fetched
      BY <1>2 DEF IngestionInv, SourcesMatch, Fetched
<1>4. sources[r].snapshot
      BY <1>2 DEF Readable, Unreadable, Roles
<1>5. sources[r].form # "empty"
      BY <1>2, ContentFacts
<1>6. rowsOf \subseteq Page \X Nat
      BY <1>2, ContentFacts DEF IngestionInv, IngestTypes, RowsOK
<1>7. Undisturbed => \A x \in rowsOf : x[2] = 1
      BY <1>2, <1>4, ContentFacts DEF IngestionInv, UndisturbedRunIsAlone
<1>8. \E x \in rowsOf : x[1] = ingesting[w].act.page
      BY <1>2, <1>5, ContentFacts
<1>9. input[r] = rowsOf /\ \A q \in Role : q # r => input[q] = {}
      BY <1>2 DEF NoInput
<1>10. DOMAIN <<>> = {}
      OBVIOUS
<1> HIDE DEF input
<1>11. \A q \in Role : q # r => FoundedFor(q, <<>>, input[q])
      BY <1>9, <1>10 DEF FoundedFor
<1>12. FoundedFor(r, <<>>, rowsOf)
      BY <1>3, <1>5, <1>6, <1>7, <1>10 DEF FoundedFor
<1>13. LegallyFound(w, <<>>, input)
      BY <1>2, <1>8, <1>9, <1>10, <1>11, <1>12 DEF LegallyFound
<1> QED BY <1>13 DEF input

-----------------------------------------------------------------------------
(* The kinds of a worker's steps *)

Reasons ==
  \/ disturbed.edits > 0 \/ disturbed.faults > 0 \/ disturbed.takeovers > 0
  \/ \E r \in Role : \/ ~sources[r].snapshot
                      \/ (ingestion.contract = 1 /\ sources[r].form = "empty")

QuitStep(w) ==
  /\ Quits(w) /\ ingesting[w].step # "idle" /\ sources' = sources /\ rows' = rows
  /\ \/ disturbed' = disturbed
     \/ MayDisturb /\ disturbed' = [disturbed EXCEPT !.crashes = disturbed.crashes + 1]
  /\ ingestion'.ended = "failed" => ingestion.ended = "failed" \/ Reasons

SaveStep(w) ==
  /\ sources' = sources /\ disturbed' = disturbed /\ ingesting[w].step = "begun"
  /\ \E found, input, recorded : Saves(w, found, input, recorded) /\ LegallyFound(w, found, input)

LEMMA DisturbedHasReason ==
  ASSUME IngestionInv, ~Undisturbed
  PROVE  Reasons
BY DEF IngestionInv, IngestTypes, Disturbances, Undisturbed, Reasons

LEMMA StoreIsSafe ==
  ASSUME IngestionInv, NEW w \in Ingester, ingesting[w].step = "begun",
         NEW found, NEW input, NEW recorded,
         LegallyFound(w, found, input), Store(w, found, input, recorded),
         sources' = sources, disturbed' = disturbed
  PROVE  QuitStep(w) \/ SaveStep(w)
<1>0. IngestTypes
      BY DEF IngestionInv
<1>1. ASSUME Fail(w), rows' = rows, Mixes(input) PROVE QuitStep(w)
  <2>0. PICK r \in Role : \E x \in input[r], y \in rows.inputs[r] : x[1] = y[1] /\ x # y
        BY <1>1 DEF Mixes
  <2>1. PICK x \in input[r], y \in rows.inputs[r] : x[1] = y[1] /\ x # y
        BY <2>0
  <2>2. x \in Page \X Nat /\ y \in Page \X Nat
        BY DEF LegallyFound, FoundedFor, IngestionInv, IngestTypes, RowsOK
  <2>3. Undisturbed => x[2] = 1
        BY <2>1 DEF LegallyFound, FoundedFor
  <2>4. Undisturbed => y[2] = 1
        BY <2>1 DEF IngestionInv, UndisturbedRunIsAlone
  <2>5. ~Undisturbed
        BY <2>1, <2>2, <2>3, <2>4
  <2> QED BY <1>0, <1>1, <2>5, QuitsFacts, DisturbedHasReason DEF QuitStep
<1>2. ASSUME GiveBack(w), rows' = rows PROVE QuitStep(w)
      BY <1>0, <1>2, QuitsFacts DEF QuitStep
<1>3. ASSUME Saves(w, found, input, recorded) PROVE SaveStep(w)
      BY <1>3 DEF SaveStep
<1> QED BY <1>1, <1>2, <1>3, StoreCases

LEMMA InspectionsAreSafe ==
  ASSUME IngestionInv, NEW w \in Ingester,
         InspectDatabase(w) \/ InspectCsv(w) \/ InspectApi(w) \/ InspectByModel(w)
  PROVE  QuitStep(w) \/ SaveStep(w)
<1> DEFINE r == ingesting[w].act.role
<1>1. ingesting[w].step = "begun" /\ ingesting[w].act.kind = "inspect"
      BY DEF InspectDatabase, InspectCsv, InspectApi, InspectByModel, Begun
<1>2. WorkIsFounded(w) /\ r \in Role
      BY <1>1 DEF IngestionInv, Unoccupied, WorkIsFounded, ActIsFounded
<1>3. Seen(r) \in Verdicts
  <2>1. sources[r].form \in {"recognized", "mappable", "broken", "empty"}
        BY <1>2 DEF IngestionInv, IngestTypes, SourceRows
  <2> QED BY <2>1 DEF Seen, Verdicts
<1>4. Verdict("inspection", r) # "missing" => Verdict("inspection", r) \in Verdicts
      BY DEF Verdict, IngestionInv, IngestTypes, RowsOK, CheckpointOK
<1>5. \E verdict \in Verdicts, recorded \in BOOLEAN : SaveInspection(w, verdict, recorded)
  <2>1. CASE InspectDatabase(w)
        BY <1>3, <2>1 DEF InspectDatabase
  <2>2. CASE InspectCsv(w)
        BY <1>3, <2>2 DEF InspectCsv
  <2>3. CASE InspectApi(w)
        BY <2>3 DEF InspectApi, Verdicts
  <2>4. CASE InspectByModel(w)
        BY <1>4, <2>4 DEF InspectByModel, Verdicts
  <2> QED BY <2>1, <2>2, <2>3, <2>4
<1>6. PICK verdict \in Verdicts, recorded \in BOOLEAN : SaveInspection(w, verdict, recorded)
      BY <1>5
<1> DEFINE found == One("inspection", r,
                        CheckpointRow(verdict, VersionOf(w, r), VersionOf(w, r), 0))
<1>7. Store(w, found, NoInput, recorded) /\ sources' = sources /\ disturbed' = disturbed
      BY <1>6 DEF SaveInspection
<1>8. LegallyFound(w, found, NoInput)
      BY <1>1, <1>2, InspectionIsLegal
<1> HIDE DEF found
<1> QED BY <1>1, <1>7, <1>8, StoreIsSafe

LEMMA MappingsAreSafe ==
  ASSUME IngestionInv, NEW w \in Ingester,
         MapDatabasePair(w) \/ MapCsvPair(w) \/ MapDatabase(w) \/ MapCsv(w) \/ MapApi(w)
  PROVE  QuitStep(w) \/ SaveStep(w)
<1>1. ingesting[w].step = "begun" /\ ingesting[w].act.kind = "map"
      BY DEF MapDatabasePair, MapCsvPair, MapDatabase, MapCsv, MapApi, Begun
<1>2. \A r : Verdict("mapping", r) # "missing" => Verdict("mapping", r) \in Verdicts
      BY DEF Verdict, IngestionInv, IngestTypes, RowsOK, CheckpointOK
<1>3. ActIsFounded(ingesting[w].act)
      BY <1>1 DEF IngestionInv, Unoccupied, WorkIsFounded
<1>4. Mappings(w) \subseteq Verdicts
  <2>1. \/ Roles(ingesting[w].act) = Role /\ ingestion.contract = 2
        \/ Roles(ingesting[w].act) = {ingesting[w].act.role}
        BY <1>1, <1>3 DEF ActIsFounded, Roles, Role
  <2>2. ingestion.contract = 2 =>
          (Verdict("mapping", "authoritative") = "missing" <=> Verdict("mapping", "target") = "missing")
        BY DEF IngestionInv, RunIsFounded, Mapped
  <2> DEFINE known == {Verdict("mapping", r) : r \in Roles(ingesting[w].act)}
  <2>3. known # {"missing"} => known \subseteq Verdicts
        BY <1>2, <2>1, <2>2 DEF Role
  <2> QED BY <2>3 DEF Mappings, Verdicts
<1>5. \E verdict \in Verdicts, recorded \in BOOLEAN : SaveMapping(w, verdict, recorded)
  <2>2. CASE MapDatabasePair(w)
        BY <1>4, <2>2 DEF MapDatabasePair
  <2>3. CASE MapCsvPair(w)
        BY <1>4, <2>3 DEF MapCsvPair
  <2>4. CASE MapDatabase(w)
        BY <1>4, <2>4 DEF MapDatabase
  <2>5. CASE MapCsv(w)
        BY <1>4, <2>5 DEF MapCsv
  <2>6. CASE MapApi(w)
        BY <2>6 DEF MapApi, Verdicts
  <2> QED BY <2>2, <2>3, <2>4, <2>5, <2>6
<1>6. PICK verdict \in Verdicts, recorded \in BOOLEAN : SaveMapping(w, verdict, recorded)
      BY <1>5
<1> DEFINE found == [k \in {<<"mapping", r>> : r \in Roles(ingesting[w].act)} |->
                       CheckpointRow(verdict, 0, VersionOf(w, k[2]), 0)]
<1>7. Store(w, found, NoInput, recorded) /\ sources' = sources /\ disturbed' = disturbed
      BY <1>6 DEF SaveMapping
<1>8. LegallyFound(w, found, NoInput)
      BY <1>1, <1>3, MappingIsLegal
<1> HIDE DEF found
<1> QED BY <1>1, <1>7, <1>8, StoreIsSafe

LEMMA NormalizationsAreSafe ==
  ASSUME IngestionInv, NEW w \in Ingester,
         NormalizeDatabase(w) \/ NormalizeCsv(w) \/ NormalizeApi(w) \/ NormalizePage(w)
  PROVE  QuitStep(w) \/ SaveStep(w)
<1> DEFINE r == ingesting[w].act.role
<1>0. IngestTypes
      BY DEF IngestionInv
<1>1. Begun(w, "normalize") /\ ingesting[w].step = "begun"
      BY DEF NormalizeDatabase, NormalizeCsv, NormalizeApi, NormalizePage, Begun
<1>2. WorkIsFounded(w) /\ ActIsFounded(ingesting[w].act) /\ r \in Role
      BY <1>1 DEF IngestionInv, Unoccupied, WorkIsFounded, ActIsFounded, Begun
<1>3. CASE NormalizeDatabase(w)
  <2>1. CASE VersionHeld(w, r)
    <3> DEFINE v == ingesting[w].before[r]
               found == One("normalization", r,
                            CheckpointRow("stored", v, v, Cardinality(ingesting[w].read)))
               input == [NoInput EXCEPT ![r] = ingesting[w].read]
    <3>1. Store(w, found, input, TRUE) /\ sources' = sources /\ disturbed' = disturbed
          BY <1>3, <2>1 DEF NormalizeDatabase
    <3>2. Extracted(w, r) /\ sources[r].kind = "database"
          BY <1>3, <2>1 DEF NormalizeDatabase, VersionHeld
    <3>3. LegallyFound(w, found, input)
          BY <1>1, <2>1, <3>2, ExtractionIsLegal
    <3> HIDE DEF found, input
    <3> QED BY <1>1, <3>1, <3>3, StoreIsSafe
  <2>2. CASE ~VersionHeld(w, r)
    <3>1. GiveBack(w) /\ rows' = rows /\ sources' = sources /\ disturbed' = disturbed
          BY <1>3, <2>2 DEF NormalizeDatabase
    <3> QED BY <1>0, <1>1, <3>1, QuitsFacts DEF QuitStep
  <2> QED BY <2>1, <2>2
<1>4. CASE NormalizeCsv(w) \/ NormalizeApi(w)
  <2>1. Readable(w) /\ NormalizeWhole(w)
        BY <1>4 DEF NormalizeCsv, NormalizeApi
  <2>2. r \in Roles(ingesting[w].act)
        BY <1>2 DEF Roles
  <2>3. sources[r].kind \in KindsRead(w)
        BY <2>2 DEF KindsRead
  <2>4. ingestion.contract > 1 /\ sources[r].kind # "database"
    <3>1. CASE NormalizeCsv(w)
          BY <2>3, <3>1 DEF NormalizeCsv, Tabular
    <3>2. CASE NormalizeApi(w)
      <4>1. sources[r].kind = "api"
            BY <2>3, <3>2 DEF NormalizeApi
      <4>2. ingestion.contract # 1 /\ ingestion.contract # 0 /\ ingestion.contract \in 0..3
            BY <1>2, <4>1 DEF IngestionInv, SourcesMatch, IngestTypes, Runs
      <4> QED BY <4>1, <4>2
    <3> QED BY <1>4, <3>1, <3>2
  <2>5. sources[r].snapshot
        BY <2>1, <2>2 DEF Readable, Unreadable
  <2> DEFINE found == One("normalization", r, CheckpointRow("stored", 0, 0, Cardinality(Content(r))))
             input == [NoInput EXCEPT ![r] = Content(r)]
  <2>6. Store(w, found, input, TRUE) /\ sources' = sources /\ disturbed' = disturbed
        BY <2>1 DEF NormalizeWhole
  <2>7. LegallyFound(w, found, input)
        BY <1>2, <2>4, <2>5, WholeIsLegal
  <2> HIDE DEF found, input
  <2> QED BY <1>1, <2>6, <2>7, StoreIsSafe
<1>5. CASE NormalizePage(w)
  <2>1. ingestion.contract = 1 /\ Readable(w)
        BY <1>5 DEF NormalizePage
  <2>2. CASE Content(r) = {}
    <3>1. Fail(w) /\ rows' = rows /\ sources' = sources /\ disturbed' = disturbed
          BY <1>5, <2>2 DEF NormalizePage
    <3>2. sources[r].form = "empty"
          BY <1>2, <2>2, ContentFacts DEF Page
    <3> QED BY <1>0, <1>1, <1>2, <2>1, <3>1, <3>2, QuitsFacts DEF QuitStep, Reasons
  <2>3. CASE Content(r) # {}
    <3> DEFINE answered == {x \in rows.inputs[r] : x[1] = ingesting[w].act.page}
               rowsOf == IF answered # {} THEN answered
                         ELSE {x \in Content(r) : x[1] = ingesting[w].act.page}
               input == [NoInput EXCEPT ![r] = rowsOf]
    <3>1. Store(w, <<>>, input, TRUE) /\ sources' = sources /\ disturbed' = disturbed
          BY <1>5, <2>3 DEF NormalizePage
    <3>2. ingesting[w].act.page \in Page
          BY <1>1, <1>2, <2>1 DEF ActIsFounded, Begun
    <3>3. LegallyFound(w, <<>>, input)
          BY <1>1, <2>1, <2>3, <3>2, PageIsLegal
    <3> HIDE DEF input
    <3> QED BY <1>1, <3>1, <3>3, StoreIsSafe
  <2> QED BY <2>2, <2>3
<1> QED BY <1>3, <1>4, <1>5

LEMMA GuardIsSafe ==
  ASSUME IngestionInv, NEW w \in Ingester, Guard(w)
  PROVE  QuitStep(w) \/ SaveStep(w)
<1>1. /\ ingesting[w].step = "begun" /\ ingesting[w].act.kind # "normalize"
      /\ Store(w, <<>>, NoInput, TRUE) /\ sources' = sources /\ disturbed' = disturbed
      BY DEF Guard
<1>2. DOMAIN <<>> = {}
      OBVIOUS
<1>3. LegallyFound(w, <<>>, NoInput)
      BY <1>1, <1>2, NoInputIsLegal
<1> QED BY <1>1, <1>3, StoreIsSafe

LEMMA QuitsAreFounded ==
  ASSUME IngestionInv, NEW w \in Ingester,
         Collide(w) \/ CannotRead(w) \/ BlockRun(w) \/ CrashIngester(w)
  PROVE  QuitStep(w)
<1>0. IngestTypes
      BY DEF IngestionInv
<1>1. CASE Collide(w)
  <2>1. ingesting[w] # Unoccupied
        BY <1>1 DEF Collide, Unoccupied
  <2>2. ~Undisturbed
        BY <1>1, <2>1 DEF Collide, IngestionInv, UndisturbedRunIsAlone
  <2> QED BY <1>0, <1>1, <2>2, QuitsFacts, DisturbedHasReason DEF QuitStep, Collide
<1>2. CASE CannotRead(w)
  <2>1. PICK r \in Role : Unreadable(r)
        BY <1>2 DEF CannotRead, Readable, Roles
  <2>2. Reasons
    <3>1. CASE ~sources[r].snapshot
          BY <2>1, <3>1 DEF Reasons
    <3>2. CASE sources[r].snapshot
      <4>1. ~Undisturbed
            BY <2>1, <3>2 DEF Unreadable, IngestionInv, UndisturbedRunIsAlone, Fetched
      <4> QED BY <4>1, DisturbedHasReason
    <3> QED BY <3>1, <3>2
  <2> QED BY <1>0, <1>2, <2>2, QuitsFacts DEF QuitStep, CannotRead
<1>3. CASE BlockRun(w)
      BY <1>0, <1>3, QuitsFacts DEF QuitStep, BlockRun
<1>4. CASE CrashIngester(w)
  <2>1. ingesting[w].step # "idle"
        BY <1>4 DEF CrashIngester, IngestionInv, WorkIsFounded
  <2> QED BY <1>0, <1>4, <2>1, QuitsFacts DEF QuitStep, CrashIngester
<1> QED BY <1>1, <1>2, <1>3, <1>4

\* A worker that publishes what it captured, or finds it published.
PublishStep(w) ==
  /\ Did(w) /\ ingesting[w].step = "captured"
  /\ ingestion' = ingestion /\ rows' = rows /\ disturbed' = disturbed
  /\ \/ sources' = sources
     \/ /\ ~sources["authoritative"].snapshot
        /\ sources' = [sources EXCEPT !["authoritative"] =
             [sources["authoritative"] EXCEPT
                !.state = "ready", !.snapshot = TRUE,
                !.file = IF sources["authoritative"].kind = "api"
                         THEN ingesting[w].before["authoritative"]
                         ELSE sources["authoritative"].file]]

LEMMA PublishKinds ==
  ASSUME IngestionInv, NEW w \in Ingester, Publish(w)
  PROVE  QuitStep(w) \/ PublishStep(w)
<1> DEFINE s == sources["authoritative"]
<1>0. IngestTypes
      BY DEF IngestionInv
<1>1. ingesting[w].step = "captured" /\ rows' = rows /\ disturbed' = disturbed
      BY DEF Publish
<1>2. s.kind \in Fetched
      BY <1>1 DEF IngestionInv, Unoccupied, WorkIsFounded, ActIsFounded
<1>3. CASE s.state = "ready"
  <2>1. \/ Did(w) /\ sources' = sources /\ ingestion' = ingestion
        \/ GiveBack(w) /\ sources' = sources
        BY <1>3 DEF Publish
  <2> QED BY <1>0, <1>1, <2>1, QuitsFacts DEF QuitStep, PublishStep
<1>4. CASE s.state # "ready" /\ s.snapshot
  <2>1. Fail(w) /\ sources' = sources
        BY <1>4 DEF Publish
  <2>2. ~Undisturbed
        BY <1>2, <1>4 DEF IngestionInv, UndisturbedRunIsAlone, Role
  <2> QED BY <1>0, <1>1, <2>1, <2>2, QuitsFacts, DisturbedHasReason DEF QuitStep
<1>5. CASE s.state # "ready" /\ ~s.snapshot
  <2>1. /\ Did(w) /\ ingestion' = ingestion
        /\ sources' = [sources EXCEPT
                     !.authoritative.state = "ready", !.authoritative.snapshot = TRUE,
                     !.authoritative.file = IF s.kind = "api"
                                            THEN ingesting[w].before["authoritative"]
                                            ELSE s.file]
        BY <1>5 DEF Publish
  <2>2. sources \in [Role -> SourceRows]
        BY <1>0 DEF IngestTypes
  <2>3. sources' = [sources EXCEPT !["authoritative"] =
             [s EXCEPT !.state = "ready", !.snapshot = TRUE,
                       !.file = IF s.kind = "api" THEN ingesting[w].before["authoritative"]
                                ELSE s.file]]
        BY <2>1, <2>2 DEF Role, SourceRows
  <2> QED BY <1>1, <1>5, <2>1, <2>3 DEF PublishStep
<1> QED BY <1>3, <1>4, <1>5

\* The source is marked failed.
MarkStep(w) ==
  /\ Quits(w) /\ ingesting[w].step # "idle" /\ ~Undisturbed
  /\ rows' = rows /\ disturbed' = disturbed
  /\ sources' = [sources EXCEPT !["authoritative"] =
       [sources["authoritative"] EXCEPT
          !.state = "failed",
          !.file = IF sources["authoritative"].kind = "api" THEN 0
                   ELSE sources["authoritative"].file]]

LEMMA MarkKinds ==
  ASSUME IngestionInv, NEW w \in Ingester, MarkFailed(w)
  PROVE  MarkStep(w)
<1>0. IngestTypes
      BY DEF IngestionInv
<1>1. ingesting[w].step = "failing" /\ ingesting[w] # Unoccupied /\ rows' = rows /\ disturbed' = disturbed
      BY DEF MarkFailed, Unoccupied
<1>2. ~Undisturbed
      BY <1>1 DEF IngestionInv, UndisturbedRunIsAlone
<1>3. Quits(w)
      BY <1>0, QuitsFacts DEF MarkFailed
<1>4. sources \in [Role -> SourceRows]
      BY <1>0 DEF IngestTypes
<1>5. sources' = [sources EXCEPT !["authoritative"] =
       [sources["authoritative"] EXCEPT
          !.state = "failed",
          !.file = IF sources["authoritative"].kind = "api" THEN 0
                   ELSE sources["authoritative"].file]]
      BY <1>4 DEF MarkFailed, Role, SourceRows
<1> QED BY <1>1, <1>2, <1>3, <1>5 DEF MarkStep

LEMMA AdvanceKinds ==
  ASSUME IngestionInv, NEW w \in Ingester, AdvanceRun(w)
  PROVE  \/ QuitStep(w)
         \/ /\ OwnsRun(w) /\ ingesting[w].step = "done"
            /\ ingesting' = [ingesting EXCEPT ![w] = Unoccupied]
            /\ ingestion' = [ingestion EXCEPT !.done = ingestion.done \cup {ingesting[w].act},
                                  !.cursor = ingestion.cursor + 1, !.frozen = NoAct,
                                  !.node = NodeAfter(ingesting[w].act), !.owner = {}]
            /\ sources' = sources /\ rows' = rows /\ disturbed' = disturbed
BY DEF AdvanceRun, QuitStep, Quits

LEMMA StepKinds ==
  ASSUME IngestionInv, IngestionNext
  PROVE  \/ \E a \in Tabular \cup {"api", "database"}, t \in {"csv", "local", "database"},
              v2, v3 \in BOOLEAN : CreateTask(a, t, v2, v3)
         \/ \E w \in Ingester :
              \/ QuitStep(w) \/ SaveStep(w) \/ BeginAct(w)
              \/ (AdvanceRun(w) /\ ~QuitStep(w))
              \/ Capture(w) \/ PublishStep(w) \/ CaptureFails(w) \/ MarkStep(w) \/ ReadPage(w)
         \/ \E r \in Role : EditSource(r)
BY InspectionsAreSafe, MappingsAreSafe, NormalizationsAreSafe, GuardIsSafe, QuitsAreFounded,
   PublishKinds, MarkKinds DEF IngestionNext

-----------------------------------------------------------------------------
(* What is offered next *)

LEMMA LeastOf ==
  ASSUME NEW T \in SUBSET Nat, T # {}
  PROVE  \E x \in T : \A y \in T : x <= y
<1>1. PICK x \in T : \A y \in T : ~(<<y, x>> \in OpToRel(<, Nat))
      BY WFMin, NatLessThanWellFounded
<1>2. \A y \in T : ~(y < x)
      BY <1>1 DEF OpToRel
<1> QED BY <1>2

LEMMA FirstOpenIs ==
  ASSUME NEW plan, DOMAIN plan \subseteq Nat, NEW closed, NEW last
  PROVE  \/ /\ FirstOpen(plan, closed, last) = last
            /\ \A i \in DOMAIN plan : plan[i] \in closed
         \/ \E i \in DOMAIN plan :
              /\ FirstOpen(plan, closed, last) = plan[i]
              /\ \A j \in DOMAIN plan : j < i => plan[j] \in closed
<1> DEFINE open == {i \in DOMAIN plan : plan[i] \notin closed}
<1>1. CASE open = {}
      BY <1>1 DEF FirstOpen
<1>2. CASE open # {}
  <2> DEFINE first == CHOOSE i \in open : \A j \in open : i <= j
  <2>1. first \in open /\ \A j \in open : first <= j
        BY <1>2, LeastOf
  <2>2. FirstOpen(plan, closed, last) = plan[first]
        BY <1>2 DEF FirstOpen
  <2> HIDE DEF first
  <2>3. \A j \in DOMAIN plan : j < first => plan[j] \in closed
        BY <2>1
  <2> QED BY <2>1, <2>2, <2>3
<1> QED BY <1>1, <1>2

Offers(a) == a \in Acts /\ a # NoAct /\ ActIsFounded(a)

LEMMA InspectionIsOffered ==
  ASSUME IngestionInv
  PROVE  Offers(InspectionAction)
<1> DEFINE plan == <<Do("inspect", "authoritative", 0), Do("inspect", "target", 0)>>
           last == Do("normalize_ready_sources", "pair", 0)
<1>1. DOMAIN plan = 1..2
      OBVIOUS
<1>2. \A i \in 1..2 : plan[i].kind = "inspect" /\ plan[i].role \in Role /\ plan[i] \in Acts
      BY DEF Do, Role, Acts, ActKind
<1>3. last.kind = "normalize_ready_sources" /\ last \in Acts
      BY DEF Do, Acts, ActKind
<1>4. InspectionAction = FirstOpen(plan, ingestion.done, last)
      BY DEF InspectionAction
<1> HIDE DEF plan, last
<1>5. InspectionAction = last \/ \E i \in 1..2 : InspectionAction = plan[i]
      BY <1>1, <1>4, FirstOpenIs
<1> QED BY <1>2, <1>3, <1>5 DEF Offers, ActIsFounded, NoAct, Do

LEMMA RolesAreOffered ==
  ASSUME IngestionInv, ingestion.contract = 3
  PROVE  Offers(NormalizeRoles)
<1> DEFINE plan == <<Do("map", "authoritative", 0), Do("map", "target", 0),
                     Do("normalize", "authoritative", 0), Do("normalize", "target", 0)>>
<1>1. DOMAIN plan = 1..4 /\ Validate \in Acts
      BY DEF Validate, Do, Acts, ActKind
<1>2. \A i \in 1..4 : plan[i] \in Acts /\ plan[i] # NoAct
      BY DEF Do, Role, Acts, ActKind, NoAct
<1>3. CASE NormalizeRoles = Validate
      BY <1>1, <1>3 DEF Offers, ActIsFounded, NoAct, Do, Validate
<1>4. CASE NormalizeRoles # Validate
  <2>1. NormalizeRoles = FirstOpen(plan, RolesDone, Validate)
        BY <1>4 DEF NormalizeRoles
  <2>2. PICK i \in 1..4 : NormalizeRoles = plan[i] /\ \A j \in 1..4 : j < i => plan[j] \in RolesDone
    <3> HIDE DEF plan
    <3> QED BY <1>1, <1>4, <2>1, FirstOpenIs
  <2>3. CASE i \in {1, 2}
    <3>1. plan[i].kind = "map" /\ plan[i].role \in Role
          BY <2>3 DEF Do, Role
    <3> QED BY <1>2, <2>2, <3>1 DEF Offers, ActIsFounded
  <2>4. CASE i \in {3, 4}
    <3>1. plan[i].kind = "normalize" /\ plan[i].role \in Role
          BY <2>4 DEF Do, Role
    <3>2. Do("map", "authoritative", 0) \in RolesDone /\ Do("map", "target", 0) \in RolesDone
      <4>1. plan[1] \in RolesDone /\ plan[2] \in RolesDone
            BY <2>2, <2>4
      <4> QED BY <4>1
    <3>3. \A r \in Role : Do("map", r, 0) \in RolesDone => Mapped(r)
          BY DEF RolesDone, Do
    <3>4. \A r \in Role : Mapped(r)
          BY <3>2, <3>3 DEF Role
    <3> HIDE DEF plan
    <3> QED BY <1>2, <2>2, <3>1, <3>4 DEF Offers, ActIsFounded
  <2> QED BY <2>3, <2>4
<1> QED BY <1>3, <1>4

LEMMA PairIsOffered ==
  ASSUME IngestionInv, ingestion.contract = 2
  PROVE  Offers(NormalizePair)
<1> DEFINE plan == <<Do("normalize", "authoritative", 0), Do("normalize", "target", 0)>>
<1>1. DOMAIN plan = 1..2 /\ Validate \in Acts
      BY DEF Validate, Do, Acts, ActKind
<1>2. \A i \in 1..2 : /\ plan[i] \in Acts /\ plan[i] # NoAct
                      /\ plan[i].kind = "normalize" /\ plan[i].role \in Role
      BY DEF Do, Role, Acts, ActKind, NoAct
<1>3. CASE NormalizePair = Validate
      BY <1>1, <1>3 DEF Offers, ActIsFounded, NoAct, Do, Validate
<1>4. CASE NormalizePair = Do("map", "pair", 0)
  <2>1. Do("map", "pair", 0) \in Acts
        BY DEF Do, Acts, ActKind
  <2> QED BY <1>4, <2>1 DEF Offers, ActIsFounded, NoAct, Do
<1>5. CASE NormalizePair # Validate /\ NormalizePair # Do("map", "pair", 0)
  <2>1. /\ NormalizePair = FirstOpen(plan, ingestion.done, Validate)
        /\ \A r \in Role : Mapped(r)
        BY <1>5 DEF NormalizePair
  <2> HIDE DEF plan
  <2>2. PICK i \in 1..2 : NormalizePair = plan[i]
        BY <1>1, <1>5, <2>1, FirstOpenIs
  <2> QED BY <1>2, <2>1, <2>2 DEF Offers, ActIsFounded
<1> QED BY <1>3, <1>4, <1>5

LEMMA PagesAreOffered ==
  ASSUME IngestionInv, ingestion.contract = 1
  PROVE  Offers(NormalizePages)
<1>1. ASSUME NEW r \in Role
      PROVE  /\ DOMAIN Pages(r) \subseteq Nat
             /\ \A i \in DOMAIN Pages(r) :
                  /\ Pages(r)[i] \in Acts /\ Pages(r)[i].kind = "normalize"
                  /\ Pages(r)[i].role = r /\ Pages(r)[i].page \in Page
  <2>1. CASE sources[r].form = "empty"
    <3>1. Pages(r) = <<Do("normalize", r, 1)>>
          BY <2>1 DEF Pages
    <3>2. DOMAIN Pages(r) = {1} /\ Pages(r)[1] = Do("normalize", r, 1)
          BY <3>1
    <3> QED BY <3>2 DEF Do, Acts, ActKind, Page
  <2>2. CASE sources[r].form # "empty"
    <3>1. Pages(r) = <<Do("normalize", r, 1), Do("normalize", r, 2)>>
          BY <2>2 DEF Pages
    <3>2. /\ DOMAIN Pages(r) = {1, 2}
          /\ Pages(r)[1] = Do("normalize", r, 1) /\ Pages(r)[2] = Do("normalize", r, 2)
          BY <3>1
    <3> QED BY <3>2 DEF Do, Acts, ActKind, Page
  <2> QED BY <2>1, <2>2
<1>2. \A r \in Role : \A i \in DOMAIN Pages(r) : Offers(Pages(r)[i])
      BY <1>1 DEF Offers, ActIsFounded, NoAct, Do
<1> DEFINE rest == FirstOpen(Pages("target"), ingestion.done, Validate)
<1>3. "authoritative" \in Role /\ "target" \in Role
      BY DEF Role
<1>4. \/ rest = Validate /\ \A i \in DOMAIN Pages("target") : Pages("target")[i] \in ingestion.done
      \/ \E i \in DOMAIN Pages("target") : rest = Pages("target")[i]
      BY <1>1, <1>3, FirstOpenIs
<1>5. \/ /\ NormalizePages = rest
         /\ \A i \in DOMAIN Pages("authoritative") : Pages("authoritative")[i] \in ingestion.done
      \/ \E i \in DOMAIN Pages("authoritative") : NormalizePages = Pages("authoritative")[i]
      BY <1>1, <1>3, FirstOpenIs DEF NormalizePages
<1>6. ASSUME PagesDone PROVE Offers(Validate)
      BY <1>6 DEF Offers, ActIsFounded, Validate, Do, Acts, ActKind, NoAct
<1> HIDE DEF rest
<1>7. ASSUME NormalizePages = Validate,
             \A i \in DOMAIN Pages("authoritative") : Pages("authoritative")[i] \in ingestion.done,
             \A i \in DOMAIN Pages("target") : Pages("target")[i] \in ingestion.done
      PROVE  PagesDone
      BY <1>7 DEF PagesDone, Role
<1> QED BY <1>2, <1>3, <1>4, <1>5, <1>6, <1>7

LEMMA StoredPagesComplete ==
  ASSUME IngestionInv, ingestion.contract = 1, PagesDone, NEW r \in Role
  PROVE  sources[r].form = "empty" \/ {x[1] : x \in rows.inputs[r]} = Page
<1> SUFFICES ASSUME sources[r].form # "empty"
             PROVE  {x[1] : x \in rows.inputs[r]} = Page
    OBVIOUS
<1>1. Pages(r) = <<Do("normalize", r, 1), Do("normalize", r, 2)>>
      BY DEF Pages
<1>2. DOMAIN Pages(r) = {1, 2} /\ Pages(r)[1] = Do("normalize", r, 1) /\ Pages(r)[2] = Do("normalize", r, 2)
      BY <1>1
<1>3. Do("normalize", r, 1) \in ingestion.done /\ Do("normalize", r, 2) \in ingestion.done
      BY <1>2 DEF PagesDone
<1>4. PageStored(Do("normalize", r, 1)) /\ PageStored(Do("normalize", r, 2))
      BY <1>3 DEF IngestionInv, RunIsFounded, Do
<1>5. \A p \in Page : \E x \in rows.inputs[r] : x[1] = p
      BY <1>4 DEF PageStored, Do, Page
<1>6. \A x \in rows.inputs[r] : x[1] \in Page
      BY DEF IngestionInv, IngestTypes, RowsOK
<1> QED BY <1>5, <1>6

LEMMA ValidationIsOffered ==
  ASSUME IngestionInv, ingestion.node = "validate_input_contract"
  PROVE  Offers(ValidationAction)
<1>1. ingestion.contract \in 1..3
      BY DEF IngestionInv, IngestTypes, SourcesMatch, Runs
<1>2. ASSUME \A r \in Role : Sound(r) PROVE CompleteInputs
  <2>1. CASE ingestion.contract = 1
    <3>1. PagesDone
          BY <2>1 DEF IngestionInv, RunIsFounded
    <3> QED BY <2>1, <3>1, StoredPagesComplete DEF CompleteInputs
  <2>2. CASE ingestion.contract \in {2, 3}
    <3>1. \A r \in Role : Verdict("mapping", r) = "resolved" /\ Verdict("normalization", r) = "stored"
      <4>1. CASE ingestion.contract = 2
            BY <1>2, <4>1 DEF Sound
      <4>2. CASE ingestion.contract = 3
        <5> SUFFICES ASSUME NEW r \in Role
                     PROVE  Verdict("mapping", r) = "resolved" /\ Verdict("normalization", r) = "stored"
            OBVIOUS
        <5>1. Sound(r)
              BY <1>2
        <5>2. Sound(r) => Verdict("mapping", r) = "resolved" /\ Verdict("normalization", r) = "stored"
              BY <4>2 DEF Sound
        <5> QED BY <5>1, <5>2
      <4> QED BY <2>2, <4>1, <4>2
    <3>2. \A r \in Role : sources[r].form = "empty" \/ {x[1] : x \in rows.inputs[r]} = Page
          BY <3>1 DEF IngestionInv, NormalizationIsFounded, Normalized
    <3>3. ingestion.contract = 3 => sources["authoritative"].form # "empty"
          BY <1>2 DEF Sound, IngestionInv, NormalizationIsFounded, Role
    <3> QED BY <2>2, <3>1, <3>2, <3>3 DEF CompleteInputs
  <2> QED BY <1>1, <2>1, <2>2
<1>3. \/ ValidationAction = Do("build_identity_index", "pair", 0) /\ CompleteInputs
      \/ ValidationAction = Do("report_abnormal_input", "pair", 0)
      BY <1>2 DEF ValidationAction
<1> QED BY <1>3 DEF Offers, ActIsFounded, Do, Acts, ActKind, NoAct

LEMMA CandidateIsOffered ==
  ASSUME IngestionInv, ingestion.node \notin {"none", "build_identity_index", "report_abnormal_input"}
  PROVE  Offers(Candidate)
<1>1. ingestion.contract \in 1..3 /\ ingestion.node \in Node
      BY DEF IngestionInv, IngestTypes, SourcesMatch, Runs
<1>2. CASE ingestion.node = "materialize_sources"
  <2>1. Candidate = Do("materialize", "authoritative", 0)
        BY <1>2 DEF Candidate
  <2>2. sources["authoritative"].kind \in Fetched
        BY <1>2 DEF IngestionInv, SourcesMatch
  <2> QED BY <2>1, <2>2 DEF Offers, ActIsFounded, Do, Acts, ActKind, NoAct, Role
<1>3. CASE ingestion.node = "inspect_sources"
      BY <1>3, InspectionIsOffered DEF Candidate
<1>4. CASE ingestion.node = "normalize_input_batches"
      BY <1>1, <1>4, RolesAreOffered, PairIsOffered, PagesAreOffered DEF Candidate, NormalizationAction
<1>5. CASE ingestion.node = "validate_input_contract"
      BY <1>5, ValidationIsOffered DEF Candidate
<1> QED BY <1>1, <1>2, <1>3, <1>4, <1>5 DEF Node

-----------------------------------------------------------------------------
(* Types, and what grows *)

KeepsTypes == IngestTypes' /\ Grows

LEMMA NothingChangesGrows ==
  ASSUME IngestTypes, sources' = sources, rows' = rows, ingestion'.contract = ingestion.contract,
         ingestion.done \subseteq ingestion'.done
  PROVE  Grows /\ RowsOK' /\ sources' \in [Role -> SourceRows]
BY DEF Grows, CheckpointsKept, SourcesKept, IngestTypes, RowsOK, SourceRows, CheckpointOK

LEMMA MayDisturbOnce ==
  ASSUME IngestionInv
  PROVE  /\ [disturbed EXCEPT !.crashes = disturbed.crashes + 1] \in Disturbances
         /\ [disturbed EXCEPT !.edits = disturbed.edits + 1] \in Disturbances
         /\ [disturbed EXCEPT !.faults = disturbed.faults + 1] \in Disturbances
         /\ [disturbed EXCEPT !.takeovers = disturbed.takeovers + 1] \in Disturbances
BY DEF IngestionInv, IngestTypes, Disturbances

LEMMA QuitKeepsTypes ==
  ASSUME IngestionInv, NEW w \in Ingester, QuitStep(w)
  PROVE  KeepsTypes
<1>1. IngestTypes /\ disturbed \in Disturbances /\ ingestion \in Runs
      BY DEF IngestionInv, IngestTypes
<1>2. ingesting' \in [Ingester -> Works] /\ ingestion' \in Runs
      BY <1>1, QuitsTypes DEF QuitStep
<1>3. ingestion'.contract = ingestion.contract /\ ingestion'.done = ingestion.done
      BY <1>1 DEF QuitStep, Quits, Runs
<1>4. disturbed' \in Disturbances
      BY <1>1, MayDisturbOnce DEF QuitStep
<1>5. Grows /\ RowsOK' /\ sources' \in [Role -> SourceRows]
      BY <1>1, <1>3, NothingChangesGrows DEF QuitStep
<1> QED BY <1>2, <1>4, <1>5 DEF KeepsTypes, IngestTypes

LEMMA SaveKeepsTypes ==
  ASSUME IngestionInv, NEW w \in Ingester, SaveStep(w)
  PROVE  KeepsTypes
<1>1. IngestTypes /\ sources' = sources /\ disturbed' = disturbed
      BY DEF IngestionInv, SaveStep
<1>2. PICK found, input, recorded : Saves(w, found, input, recorded) /\ LegallyFound(w, found, input)
      BY DEF SaveStep
<1>3. ingestion' = ingestion /\ Did(w)
      BY <1>2 DEF Saves
<1>4. ingesting' \in [Ingester -> Works]
      BY <1>1, <1>3 DEF Did, IngestTypes, Works
<1>5. /\ DOMAIN rows'.checkpoints = DOMAIN found \cup DOMAIN rows.checkpoints
      /\ \A k \in DOMAIN rows'.checkpoints :
           rows'.checkpoints[k] = IF k \in DOMAIN rows.checkpoints THEN rows.checkpoints[k] ELSE found[k]
      BY <1>2 DEF Saves
<1>6. /\ DOMAIN rows'.checkpoints \subseteq Phase \X Role
      /\ \A k \in DOMAIN rows'.checkpoints : CheckpointOK(rows'.checkpoints[k])
      BY <1>1, <1>2, <1>5 DEF IngestTypes, RowsOK, LegallyFound
<1>7. \A r \in Role : input[r] \subseteq Page \X Nat
      BY <1>2 DEF LegallyFound, FoundedFor
<1>8. rows'.inputs \in [Role -> SUBSET (Page \X Nat)] /\ \A r \in Role : rows'.inputs[r] = rows.inputs[r] \cup input[r]
      BY <1>1, <1>2, <1>7 DEF Saves, InputsWith, IngestTypes, RowsOK
<1>9. rows'.version \in Nat
      BY <1>1, <1>2 DEF Saves, IngestTypes, RowsOK, LegallyFound, CheckpointOK
<1>10. RowsOK'
      BY <1>6, <1>8, <1>9 DEF RowsOK, CheckpointOK
<1>11. Grows
      BY <1>1, <1>3, <1>5, <1>8 DEF Grows, CheckpointsKept, SourcesKept, IngestTypes, SourceRows
<1> QED BY <1>1, <1>3, <1>4, <1>10, <1>11 DEF KeepsTypes, IngestTypes

\* The action with which a worker begins.
ActOf == IF ingestion.frozen = NoAct THEN Candidate ELSE ingestion.frozen
Busy == {v \in ingestion.owner : ingesting[v] # Unoccupied}

LEMMA BeginFacts ==
  ASSUME IngestionInv, NEW w \in Ingester, BeginAct(w)
  PROVE  /\ Offers(ActOf)
         /\ ingesting[w] = Unoccupied /\ ingestion.ended = "active"
         /\ ingestion.node \notin {"none", "build_identity_index", "report_abnormal_input"}
         /\ ingestion' = [ingestion EXCEPT !.owner = {w}, !.frozen = ActOf]
         /\ ingesting' = [ingesting EXCEPT ![w] =
              [Unoccupied EXCEPT !.step = "begun", !.act = ActOf, !.cursor = ingestion.cursor,
                                 !.before = [r \in Role |-> sources[r].version],
                                 !.fresh = ~Stored(ActOf)]]
         /\ Busy # {} => MayDisturb
         /\ disturbed' = IF Busy = {} THEN disturbed
                         ELSE [disturbed EXCEPT !.takeovers = disturbed.takeovers + 1]
         /\ sources' = sources /\ rows' = rows
<1>1. /\ ingesting[w] = Unoccupied /\ ingestion.ended = "active"
      /\ ingestion.node \notin {"none", "build_identity_index", "report_abnormal_input"}
      /\ sources' = sources /\ rows' = rows
      BY DEF BeginAct
<1>2. Offers(ActOf)
      BY <1>1, CandidateIsOffered DEF ActOf, Offers, IngestionInv, IngestTypes, RunIsFounded, Runs
<1>3. /\ ingestion' = [ingestion EXCEPT !.owner = {w}, !.frozen = ActOf]
      /\ Busy # {} => MayDisturb
      BY DEF BeginAct, ActOf, Busy
<1>4. ingesting' = [ingesting EXCEPT ![w] =
              [Unoccupied EXCEPT !.step = "begun", !.act = ActOf, !.cursor = ingestion.cursor,
                                 !.before = [r \in Role |-> sources[r].version],
                                 !.fresh = ~Stored(ActOf)]]
      BY DEF BeginAct, ActOf
<1>5. disturbed' = [disturbed EXCEPT !.takeovers =
                      IF Busy = {} THEN disturbed.takeovers ELSE disturbed.takeovers + 1]
      BY DEF BeginAct, Busy
<1>6. disturbed \in Disturbances
      BY DEF IngestionInv, IngestTypes
<1>7. disturbed' = IF Busy = {} THEN disturbed
                   ELSE [disturbed EXCEPT !.takeovers = disturbed.takeovers + 1]
      BY <1>5, <1>6 DEF Disturbances
<1> QED BY <1>1, <1>2, <1>3, <1>4, <1>7

LEMMA BeginKeepsTypes ==
  ASSUME IngestionInv, NEW w \in Ingester, BeginAct(w)
  PROVE  KeepsTypes
<1>1. IngestTypes /\ disturbed \in Disturbances /\ ingestion \in Runs
      BY DEF IngestionInv, IngestTypes
<1>2. ingestion' \in Runs /\ ingestion'.contract = ingestion.contract /\ ingestion'.done = ingestion.done
  <2>1. ActOf \in Acts /\ {w} \in SUBSET Ingester
        BY BeginFacts DEF Offers
  <2>2. ingestion' = [ingestion EXCEPT !.owner = {w}, !.frozen = ActOf]
        BY BeginFacts
  <2> QED BY <1>1, <2>1, <2>2 DEF Runs
<1>3. [r \in Role |-> sources[r].version] \in [Role -> Nat]
      BY <1>1 DEF IngestTypes, SourceRows
<1>4. (~Stored(ActOf)) \in BOOLEAN
      OBVIOUS
<1>5. [Unoccupied EXCEPT !.step = "begun", !.act = ActOf, !.cursor = ingestion.cursor,
                         !.before = [r \in Role |-> sources[r].version],
                         !.fresh = ~Stored(ActOf)] \in Works
      BY <1>1, <1>3, <1>4, BeginFacts, UnoccupiedType DEF Works, Runs, Offers
<1>6. ingesting' \in [Ingester -> Works]
      BY <1>1, <1>5, BeginFacts DEF IngestTypes
<1>7. disturbed' \in Disturbances
      BY <1>1, BeginFacts, MayDisturbOnce
<1>8. Grows /\ RowsOK' /\ sources' \in [Role -> SourceRows]
      BY <1>1, <1>2, BeginFacts, NothingChangesGrows
<1> QED BY <1>2, <1>6, <1>7, <1>8 DEF KeepsTypes, IngestTypes

\* A transition.
MoveStep(w) ==
  /\ OwnsRun(w) /\ ingesting[w].step = "done"
  /\ ingesting' = [ingesting EXCEPT ![w] = Unoccupied]
  /\ ingestion' = [ingestion EXCEPT !.done = ingestion.done \cup {ingesting[w].act},
                        !.cursor = ingestion.cursor + 1, !.frozen = NoAct,
                        !.node = NodeAfter(ingesting[w].act), !.owner = {}]
  /\ sources' = sources /\ rows' = rows /\ disturbed' = disturbed

LEMMA MoveKeepsTypes ==
  ASSUME IngestionInv, NEW w \in Ingester, MoveStep(w)
  PROVE  KeepsTypes
<1>1. IngestTypes /\ disturbed \in Disturbances /\ ingestion \in Runs /\ ingesting[w] \in Works
      BY DEF IngestionInv, IngestTypes
<1>2. ingesting[w].act \in Acts /\ NoAct \in Acts
      BY <1>1 DEF Works, Acts, NoAct, Do, ActKind
<1>3. NodeAfter(ingesting[w].act) \in Node
      BY <1>1, <1>2 DEF NodeAfter, Node, Runs
<1>4. ingestion' \in Runs /\ ingestion'.contract = ingestion.contract
      /\ ingestion'.done = ingestion.done \cup {ingesting[w].act}
  <2>1. ingestion' = [ingestion EXCEPT !.done = ingestion.done \cup {ingesting[w].act},
                        !.cursor = ingestion.cursor + 1, !.frozen = NoAct,
                        !.node = NodeAfter(ingesting[w].act), !.owner = {}]
        BY DEF MoveStep
  <2>2. (ingestion.done \cup {ingesting[w].act}) \in SUBSET Acts /\ ingestion.cursor + 1 \in Nat
        BY <1>1, <1>2 DEF Runs
  <2> QED BY <1>1, <1>2, <1>3, <2>1, <2>2 DEF Runs
<1>5. ingesting' \in [Ingester -> Works]
      BY <1>1, UnoccupiedType DEF MoveStep, IngestTypes
<1>6. Grows /\ RowsOK' /\ sources' \in [Role -> SourceRows]
      BY <1>1, <1>4, NothingChangesGrows DEF MoveStep
<1> QED BY <1>1, <1>4, <1>5, <1>6 DEF KeepsTypes, IngestTypes, MoveStep

LEMMA SourceGrows ==
  ASSUME IngestTypes, NEW r \in Role, NEW s \in SourceRows,
         sources' = [sources EXCEPT ![r] = s],
         s.kind = sources[r].kind, s.form = sources[r].form,
         sources[r].version <= s.version, sources[r].snapshot => s.snapshot,
         rows' = rows, ingestion'.contract = ingestion.contract,
         ingestion.done \subseteq ingestion'.done
  PROVE  Grows /\ RowsOK' /\ sources' \in [Role -> SourceRows]
<1>1. sources' \in [Role -> SourceRows]
      BY DEF IngestTypes
<1>2. SourcesKept
  <2> SUFFICES ASSUME NEW q \in Role
               PROVE  /\ sources'[q].kind = sources[q].kind
                      /\ sources'[q].form = sources[q].form
                      /\ sources[q].version <= sources'[q].version
                      /\ sources[q].snapshot => sources'[q].snapshot
      BY DEF SourcesKept
  <2>1. sources'[q] = IF q = r THEN s ELSE sources[q]
        BY DEF IngestTypes
  <2>2. sources[q] \in SourceRows
        BY DEF IngestTypes
  <2> QED BY <2>1, <2>2 DEF SourceRows
<1>3. CheckpointsKept /\ RowsOK' /\ \A q \in Role : rows.inputs[q] \subseteq rows'.inputs[q]
      BY DEF CheckpointsKept, IngestTypes, RowsOK, CheckpointOK
<1> QED BY <1>1, <1>2, <1>3 DEF Grows

LEMMA AuthoritativeRow ==
  ASSUME IngestTypes
  PROVE  "authoritative" \in Role /\ sources["authoritative"] \in SourceRows
BY DEF Role, IngestTypes

\* What a capture fetches of a remote file.
CaptureStep(w) ==
  /\ ingesting[w].step = "begun" /\ ingesting[w].act.kind = "materialize"
  /\ ingesting' = [ingesting EXCEPT ![w] =
       [ingesting[w] EXCEPT !.step = "captured", !.before = [r \in Role |-> sources[r].version]]]
  /\ ingestion' = ingestion /\ rows' = rows /\ disturbed' = disturbed
  /\ sources' = IF sources["authoritative"].kind = "remote" /\ sources["authoritative"].file = 0
                THEN [sources EXCEPT !["authoritative"] =
                        [sources["authoritative"] EXCEPT !.file = sources["authoritative"].version]]
                ELSE sources

LEMMA CaptureKinds ==
  ASSUME IngestionInv, NEW w \in Ingester, Capture(w)
  PROVE  CaptureStep(w)
<1>1. sources \in [Role -> SourceRows] /\ ingesting \in [Ingester -> Works]
      BY DEF IngestionInv, IngestTypes
<1>2. ingesting' = [ingesting EXCEPT ![w] =
       [ingesting[w] EXCEPT !.step = "captured", !.before = [r \in Role |-> sources[r].version]]]
      BY <1>1 DEF Capture
<1>3. sources' = IF sources["authoritative"].kind = "remote" /\ sources["authoritative"].file = 0
                THEN [sources EXCEPT !["authoritative"] =
                        [sources["authoritative"] EXCEPT !.file = sources["authoritative"].version]]
                ELSE sources
      BY <1>1 DEF Capture, Role
<1> QED BY <1>2, <1>3 DEF Capture, CaptureStep

LEMMA CaptureKeepsTypes ==
  ASSUME IngestionInv, NEW w \in Ingester, CaptureStep(w)
  PROVE  KeepsTypes
<1>1. IngestTypes /\ ingesting[w] \in Works
      BY DEF IngestionInv, IngestTypes
<1>2. [r \in Role |-> sources[r].version] \in [Role -> Nat]
      BY <1>1 DEF IngestTypes, SourceRows
<1>3. ingesting' \in [Ingester -> Works]
      BY <1>1, <1>2 DEF CaptureStep, IngestTypes, Works
<1>4. Grows /\ RowsOK' /\ sources' \in [Role -> SourceRows]
  <2>1. CASE sources' = sources
        BY <1>1, <2>1, NothingChangesGrows DEF CaptureStep
  <2>2. CASE sources' # sources
    <3> DEFINE s == [sources["authoritative"] EXCEPT !.file = sources["authoritative"].version]
    <3>1. sources' = [sources EXCEPT !["authoritative"] = s]
          BY <2>2 DEF CaptureStep
    <3>2. /\ s \in SourceRows
          /\ s.kind = sources["authoritative"].kind /\ s.form = sources["authoritative"].form
          /\ s.version = sources["authoritative"].version
          /\ s.snapshot = sources["authoritative"].snapshot
          /\ s.version \in Nat
          BY <1>1, AuthoritativeRow DEF SourceRows
    <3> HIDE DEF s
    <3>3. s.version <= s.version
          BY <3>2
    <3> QED BY <1>1, <3>1, <3>2, <3>3, AuthoritativeRow, SourceGrows DEF CaptureStep
  <2> QED BY <2>1, <2>2
<1> QED BY <1>1, <1>3, <1>4 DEF KeepsTypes, IngestTypes, CaptureStep

LEMMA PublishKeepsTypes ==
  ASSUME IngestionInv, NEW w \in Ingester, PublishStep(w)
  PROVE  KeepsTypes
<1>1. IngestTypes /\ ingesting[w] \in Works
      BY DEF IngestionInv, IngestTypes
<1>2. ingesting' \in [Ingester -> Works]
      BY <1>1 DEF PublishStep, Did, IngestTypes, Works
<1>3. Grows /\ RowsOK' /\ sources' \in [Role -> SourceRows]
  <2>1. CASE sources' = sources
        BY <1>1, <2>1, NothingChangesGrows DEF PublishStep
  <2>2. CASE sources' # sources
    <3> DEFINE file == IF sources["authoritative"].kind = "api"
                       THEN ingesting[w].before["authoritative"]
                       ELSE sources["authoritative"].file
               s == [sources["authoritative"] EXCEPT !.state = "ready", !.snapshot = TRUE,
                                                     !.file = file]
    <3>1. sources' = [sources EXCEPT !["authoritative"] = s]
          BY <2>2 DEF PublishStep
    <3>2. file \in Nat
          BY <1>1, AuthoritativeRow DEF SourceRows, Works
    <3> HIDE DEF file
    <3>3. /\ s \in SourceRows
          /\ s.kind = sources["authoritative"].kind /\ s.form = sources["authoritative"].form
          /\ s.version = sources["authoritative"].version /\ s.version \in Nat
          /\ s.snapshot = TRUE
          BY <3>2, <1>1, AuthoritativeRow DEF SourceRows
    <3> HIDE DEF s
    <3>4. s.version <= s.version
          BY <3>3
    <3> QED BY <1>1, <3>1, <3>3, <3>4, AuthoritativeRow, SourceGrows DEF PublishStep
  <2> QED BY <2>1, <2>2
<1> QED BY <1>1, <1>2, <1>3 DEF KeepsTypes, IngestTypes, PublishStep

LEMMA CaptureFailsKeepsTypes ==
  ASSUME IngestionInv, NEW w \in Ingester, CaptureFails(w)
  PROVE  KeepsTypes
<1>1. IngestTypes /\ ingesting[w] \in Works
      BY DEF IngestionInv, IngestTypes
<1>2. ingesting' \in [Ingester -> Works]
      BY <1>1 DEF CaptureFails, IngestTypes, Works
<1>3. disturbed' \in Disturbances
      BY MayDisturbOnce DEF CaptureFails
<1>4. Grows /\ RowsOK' /\ sources' \in [Role -> SourceRows]
      BY <1>1, NothingChangesGrows DEF CaptureFails
<1> QED BY <1>1, <1>2, <1>3, <1>4 DEF KeepsTypes, IngestTypes, CaptureFails

LEMMA MarkKeepsTypes ==
  ASSUME IngestionInv, NEW w \in Ingester, MarkStep(w)
  PROVE  KeepsTypes
<1>1. IngestTypes /\ ingestion \in Runs
      BY DEF IngestionInv, IngestTypes
<1>2. ingesting' \in [Ingester -> Works] /\ ingestion' \in Runs
      BY <1>1, QuitsTypes DEF MarkStep
<1>3. ingestion'.contract = ingestion.contract /\ ingestion'.done = ingestion.done
      BY <1>1 DEF MarkStep, Quits, Runs
<1> DEFINE file == IF sources["authoritative"].kind = "api" THEN 0 ELSE sources["authoritative"].file
           s == [sources["authoritative"] EXCEPT !.state = "failed", !.file = file]
<1>4. sources' = [sources EXCEPT !["authoritative"] = s]
      BY DEF MarkStep
<1>5. file \in Nat
      BY <1>1, AuthoritativeRow DEF SourceRows
<1> HIDE DEF file
<1>6. /\ s \in SourceRows
      /\ s.kind = sources["authoritative"].kind /\ s.form = sources["authoritative"].form
      /\ s.version = sources["authoritative"].version /\ s.version \in Nat
      /\ s.snapshot = sources["authoritative"].snapshot
      BY <1>1, <1>5, AuthoritativeRow DEF SourceRows
<1> HIDE DEF s
<1>7. s.version <= s.version
      BY <1>6
<1>8. Grows /\ RowsOK' /\ sources' \in [Role -> SourceRows]
  <2>1. rows' = rows /\ sources["authoritative"].version <= s.version
        BY <1>6, <1>7 DEF MarkStep
  <2> QED BY <1>1, <1>3, <1>4, <1>6, <2>1, AuthoritativeRow, SourceGrows
<1> QED BY <1>1, <1>2, <1>8 DEF KeepsTypes, IngestTypes, MarkStep

\* A page of a database is read.
ReadStep(w) ==
  LET r == ingesting[w].act.role IN
  /\ Begun(w, "normalize") /\ sources[r].kind = "database" /\ sources[r].form # "empty"
  /\ \E p \in Page :
       ingesting' = [ingesting EXCEPT ![w] =
         [ingesting[w] EXCEPT !.read = ingesting[w].read \cup {<<p, sources[r].version>>}]]
  /\ sources' = sources /\ ingestion' = ingestion /\ rows' = rows /\ disturbed' = disturbed

LEMMA ReadKinds ==
  ASSUME IngestionInv, NEW w \in Ingester, ReadPage(w)
  PROVE  ReadStep(w)
<1>1. ingesting \in [Ingester -> Works]
      BY DEF IngestionInv, IngestTypes
<1> DEFINE p == Cardinality(ingesting[w].read) + 1
           r == ingesting[w].act.role
<1>2. p \in Page /\ ingesting' = [ingesting EXCEPT ![w].read = ingesting[w].read \cup {<<p, sources[r].version>>}]
      BY DEF ReadPage
<1> HIDE DEF p
<1>3. ingesting' = [ingesting EXCEPT ![w] =
         [ingesting[w] EXCEPT !.read = ingesting[w].read \cup {<<p, sources[r].version>>}]]
      BY <1>1, <1>2
<1> QED BY <1>2, <1>3 DEF ReadPage, ReadStep

LEMMA ReadKeepsTypes ==
  ASSUME IngestionInv, NEW w \in Ingester, ReadStep(w)
  PROVE  KeepsTypes
<1> DEFINE r == ingesting[w].act.role
<1>1. IngestTypes /\ ingesting[w] \in Works /\ WorkIsFounded(w) /\ ingesting[w] # Unoccupied
      BY DEF IngestionInv, IngestTypes, ReadStep, Begun, Unoccupied
<1>2. r \in Role /\ sources[r].version \in Nat
      BY <1>1 DEF WorkIsFounded, ActIsFounded, ReadStep, Begun, IngestTypes, SourceRows
<1>3. PICK p \in Page : ingesting' = [ingesting EXCEPT ![w] =
         [ingesting[w] EXCEPT !.read = ingesting[w].read \cup {<<p, sources[r].version>>}]]
      BY DEF ReadStep
<1>4. (ingesting[w].read \cup {<<p, sources[r].version>>}) \in SUBSET (Page \X Nat)
      BY <1>1, <1>2 DEF Works
<1>5. ingesting' \in [Ingester -> Works]
      BY <1>1, <1>3, <1>4 DEF IngestTypes, Works
<1>6. Grows /\ RowsOK' /\ sources' \in [Role -> SourceRows]
      BY <1>1, NothingChangesGrows DEF ReadStep
<1> QED BY <1>1, <1>5, <1>6 DEF KeepsTypes, IngestTypes, ReadStep

\* An owner's edit.
EditStep(r) ==
  /\ sources[r].kind \notin Managed \cup {"none"} /\ ingestion.ended = "active" /\ MayDisturb
  /\ sources' = [sources EXCEPT ![r] = [sources[r] EXCEPT !.version = sources[r].version + 1]]
  /\ disturbed' = [disturbed EXCEPT !.edits = disturbed.edits + 1]
  /\ ingestion' = ingestion /\ rows' = rows /\ ingesting' = ingesting

LEMMA EditKinds ==
  ASSUME IngestionInv, NEW r \in Role, EditSource(r)
  PROVE  EditStep(r)
<1>1. sources \in [Role -> SourceRows]
      BY DEF IngestionInv, IngestTypes
<1>2. sources' = [sources EXCEPT ![r] = [sources[r] EXCEPT !.version = sources[r].version + 1]]
      BY <1>1 DEF EditSource
<1> QED BY <1>2 DEF EditSource, EditStep

LEMMA EditKeepsTypes ==
  ASSUME IngestionInv, NEW r \in Role, EditStep(r)
  PROVE  KeepsTypes
<1>1. IngestTypes /\ sources[r] \in SourceRows
      BY DEF IngestionInv, IngestTypes
<1> DEFINE s == [sources[r] EXCEPT !.version = sources[r].version + 1]
<1>2. /\ s \in SourceRows /\ s.kind = sources[r].kind /\ s.form = sources[r].form
      /\ s.version = sources[r].version + 1 /\ sources[r].version \in Nat
      /\ s.snapshot = sources[r].snapshot
      BY <1>1 DEF SourceRows
<1>3. sources' = [sources EXCEPT ![r] = s]
      BY DEF EditStep
<1> HIDE DEF s
<1>4. sources[r].version <= s.version
      BY <1>2
<1>5. Grows /\ RowsOK' /\ sources' \in [Role -> SourceRows]
      BY <1>1, <1>2, <1>3, <1>4, SourceGrows DEF EditStep
<1>6. disturbed' \in Disturbances
      BY MayDisturbOnce DEF EditStep
<1> QED BY <1>1, <1>5, <1>6 DEF KeepsTypes, IngestTypes, EditStep

-----------------------------------------------------------------------------
(* What the parts of the invariant ask of a step *)

LEMMA MatchStays ==
  ASSUME IngestionInv, KeepsTypes, ingestion.node # "none", ingestion'.node # "none",
         ingestion'.node = "materialize_sources" => ingestion.node = "materialize_sources",
         sources'["authoritative"].kind = "api" /\ sources'["authoritative"].file # 0 =>
            sources'["authoritative"].snapshot,
         ingestion'.ended # "active" => ingestion'.owner = {}
  PROVE  SourcesMatch'
<1>1. /\ ingestion'.contract = ingestion.contract
      /\ \A r \in Role : sources'[r].kind = sources[r].kind
      BY DEF KeepsTypes, Grows, SourcesKept
<1>2. "authoritative" \in Role /\ "target" \in Role
      BY DEF Role
<1> QED BY <1>1, <1>2 DEF SourcesMatch, IngestionInv

LEMMA BoundsStay ==
  ASSUME IngestionInv, KeepsTypes,
         \/ disturbed' = disturbed
         \/ /\ MayDisturb
            /\ \/ disturbed' = [disturbed EXCEPT !.crashes = disturbed.crashes + 1]
               \/ disturbed' = [disturbed EXCEPT !.faults = disturbed.faults + 1]
               \/ disturbed' = [disturbed EXCEPT !.takeovers = disturbed.takeovers + 1],
         \A r \in Role : sources'[r].version = sources[r].version
  PROVE  BoundsHold'
<1>1. disturbed \in Disturbances /\ MaxDisturbances \in Nat
      BY IngestionAssumption DEF IngestionInv, IngestTypes
<1>2. disturbed'.edits = disturbed.edits
      BY <1>1 DEF Disturbances
<1>3. disturbed'.edits + disturbed'.faults + disturbed'.crashes + disturbed'.takeovers
        <= MaxDisturbances
      BY <1>1 DEF IngestionInv, BoundsHold, MayDisturb, Disturbances
<1> QED BY <1>2, <1>3 DEF IngestionInv, BoundsHold

LEMMA RowsStay ==
  ASSUME IngestionInv, KeepsTypes, rows' = rows
  PROVE  (\A r \in Role : NormalizationIsFounded(r)') /\ IngestedFromOneVersion'
<1>1. /\ ingestion'.contract = ingestion.contract
      /\ \A r \in Role : sources'[r].kind = sources[r].kind /\ sources'[r].form = sources[r].form
      BY DEF KeepsTypes, Grows, SourcesKept
<1>2. \A kind, r : Verdict(kind, r)' = Verdict(kind, r)
      BY DEF Verdict
<1>3. \A r : (Mapped(r)' <=> Mapped(r)) /\ (Normalized(r)' <=> Normalized(r))
      BY <1>2 DEF Mapped, Normalized
<1>4. \A r : MappedVersion(r)' = MappedVersion(r)
      BY DEF MappedVersion
<1>5. ASSUME NEW r \in Role PROVE NormalizationIsFounded(r)'
      BY <1>1, <1>3 DEF IngestionInv, NormalizationIsFounded
<1>6. IngestedFromOneVersion'
      BY <1>1, <1>2, <1>4 DEF IngestionInv, IngestedFromOneVersion
<1> QED BY <1>5, <1>6

LEMMA RunStays ==
  ASSUME IngestionInv, KeepsTypes,
         ingestion'.frozen # NoAct =>
            ingestion'.frozen = ingestion.frozen \/ ActIsFounded(ingestion'.frozen),
         \A a \in ingestion'.done \ ingestion.done :
            a.kind = "normalize" /\ ingestion.contract = 1 => a.role \in Role /\ PageStored(a),
         ingestion'.node = "validate_input_contract" /\ ingestion.contract = 1 => PagesDone,
         ingestion'.node = "build_identity_index" => CompleteInputs,
         ingestion.contract = 2 => (Mapped("authoritative")' <=> Mapped("target")')
  PROVE  RunIsFounded'
<1>1. IngestTypes /\ IngestTypes' /\ Grows /\ RunIsFounded /\ ingestion'.contract = ingestion.contract
      BY DEF IngestionInv, KeepsTypes, Grows
<1>2. ASSUME ingestion'.frozen # NoAct PROVE ActIsFounded(ingestion.frozen)'
  <2>1. \A a \in Acts : ActIsFounded(a) => ActIsFounded(a)'
    <3> SUFFICES ASSUME NEW a \in Acts, ActIsFounded(a) PROVE ActIsFounded(a)'
        OBVIOUS
    <3> QED BY <1>1, ActStays
  <2>2. PICK a \in Acts : a = ingestion'.frozen
        BY <1>1 DEF IngestTypes, Runs
  <2>3. ActIsFounded(a)
        BY <1>1, <1>2, <2>2 DEF RunIsFounded
  <2>4. ActIsFounded(a)'
        BY <2>1, <2>3
  <2> QED BY <2>2, <2>4 DEF ActIsFounded
<1>3. \A a \in ingestion'.done :
        a.kind = "normalize" /\ ingestion'.contract = 1 => a.role \in Role /\ PageStored(a)'
      BY <1>1, PagesStay DEF RunIsFounded
<1>4. ingestion'.contract = 1 /\ ingestion'.node = "validate_input_contract" => PagesDone'
      BY <1>1, PagesStay
<1>5. ingestion'.node = "build_identity_index" => CompleteInputs'
  <2> SUFFICES ASSUME ingestion'.node = "build_identity_index" PROVE CompleteInputs'
      OBVIOUS
  <2>1. CompleteInputs
      OBVIOUS
  <2> QED BY <1>1, <2>1, CompleteStays
<1> QED BY <1>1, <1>2, <1>3, <1>4, <1>5 DEF RunIsFounded

LEMMA FailureStays ==
  ASSUME IngestionInv, KeepsTypes,
         ingestion'.ended = "failed" => ingestion.ended = "failed" \/ Reasons,
         disturbed.edits <= disturbed'.edits, disturbed.faults <= disturbed'.faults,
         disturbed.takeovers <= disturbed'.takeovers,
         \/ \A r \in Role : sources'[r].snapshot = sources[r].snapshot
         \/ Undisturbed => ingestion'.ended # "failed"
  PROVE  CrashesFailNothing'
<1> SUFFICES ASSUME ingestion'.ended = "failed" PROVE Reasons'
    BY DEF CrashesFailNothing, Reasons
<1>1. Reasons /\ disturbed \in Disturbances /\ disturbed' \in Disturbances
      BY DEF IngestionInv, CrashesFailNothing, Reasons, IngestTypes, KeepsTypes
<1>2. CASE ~Undisturbed
      BY <1>1, <1>2 DEF Undisturbed, Reasons, Disturbances
<1>3. CASE Undisturbed
  <2>1. PICK r \in Role : ~sources[r].snapshot \/ (ingestion.contract = 1 /\ sources[r].form = "empty")
        BY <1>1, <1>3 DEF Reasons, Undisturbed
  <2> QED BY <1>3, <2>1 DEF Reasons, KeepsTypes, Grows, SourcesKept
<1> QED BY <1>2, <1>3

LEMMA OccupiedRunIsActive ==
  ASSUME IngestionInv, Undisturbed, NEW w \in Ingester, ingesting[w] # Unoccupied
  PROVE  ingestion.ended = "active" /\ ingestion.owner = {w}
BY DEF IngestionInv, UndisturbedRunIsAlone, OwnsRun, SourcesMatch

LEMMA OccupiedRun ==
  ASSUME IngestionInv, NEW w \in Ingester, ingesting[w] # Unoccupied
  PROVE  ingestion.node # "none"
BY DEF IngestionInv, SourcesMatch

\* While nothing disturbs the run, there is no other worker.
LEMMA SoleWorker ==
  ASSUME IngestionInv, Undisturbed, NEW w \in Ingester, ingesting[w] # Unoccupied,
         NEW v \in Ingester, v # w
  PROVE  ingesting[v] = Unoccupied
BY OccupiedRunIsActive

\* A worker that is done with its action leaves nobody behind.
LEMMA FreedRunIsAlone ==
  ASSUME IngestionInv, KeepsTypes, NEW w \in Ingester, ingesting[w] # Unoccupied,
         ingesting' = [ingesting EXCEPT ![w] = Unoccupied],
         sources' = sources \/ ~Undisturbed, rows' = rows, Undisturbed' => Undisturbed
  PROVE  UndisturbedRunIsAlone'
<1> SUFFICES ASSUME Undisturbed' PROVE UndisturbedRunIsAlone'
    BY DEF UndisturbedRunIsAlone
<1>1. ASSUME NEW v \in Ingester PROVE ingesting'[v] = Unoccupied
  <2>1. ingesting \in [Ingester -> Works]
        BY DEF IngestionInv, IngestTypes
  <2> QED BY <2>1, SoleWorker
<1> QED BY <1>1 DEF IngestionInv, UndisturbedRunIsAlone

\* What a worker is at, once it is done with it.
LEMMA FreedWorkersAreFounded ==
  ASSUME IngestionInv, KeepsTypes, NEW w \in Ingester,
         ingesting' = [ingesting EXCEPT ![w] = Unoccupied],
         sources["authoritative"].kind = "remote" /\ sources["authoritative"].file # 0 =>
            sources'["authoritative"].file # 0
  PROVE  \A v \in Ingester : WorkIsFounded(v)'
<1>1. ingesting \in [Ingester -> Works]
      BY DEF IngestionInv, IngestTypes
<1> SUFFICES ASSUME NEW v \in Ingester PROVE WorkIsFounded(v)'
    OBVIOUS
<1>2. CASE v = w
      BY <1>1, <1>2 DEF WorkIsFounded
<1>3. CASE v # w
  <2>1. ingesting'[v] = ingesting[v]
        BY <1>1, <1>3
  <2> QED BY <2>1, OthersStayFounded DEF IngestionInv, KeepsTypes
<1> QED BY <1>2, <1>3

\* The other workers, when one of them moves on.
LEMMA RestStaysFounded ==
  ASSUME IngestionInv, KeepsTypes, NEW w \in Ingester, NEW doing,
         ingesting' = [ingesting EXCEPT ![w] = doing], WorkIsFounded(w)',
         sources["authoritative"].kind = "remote" /\ sources["authoritative"].file # 0 =>
            sources'["authoritative"].file # 0
  PROVE  \A v \in Ingester : WorkIsFounded(v)'
<1>1. ingesting \in [Ingester -> Works]
      BY DEF IngestionInv, IngestTypes
<1> SUFFICES ASSUME NEW v \in Ingester, v # w PROVE WorkIsFounded(v)'
    OBVIOUS
<1>2. ingesting'[v] = ingesting[v]
      BY <1>1
<1> QED BY <1>2, OthersStayFounded DEF IngestionInv, KeepsTypes

LEMMA MappedPairStays ==
  ASSUME IngestionInv, rows' = rows
  PROVE  ingestion.contract = 2 => (Mapped("authoritative")' <=> Mapped("target")')
<1>1. \A r : Mapped(r)' <=> Mapped(r)
      BY DEF Mapped, Verdict
<1> QED BY <1>1 DEF IngestionInv, RunIsFounded

-----------------------------------------------------------------------------
(* Every step preserves the invariant *)

LEMMA QuitKeepsInv ==
  ASSUME IngestionInv, NEW w \in Ingester, QuitStep(w)
  PROVE  IngestionInv'
<1>1. KeepsTypes
      BY QuitKeepsTypes
<1>2. ingesting[w] # Unoccupied /\ ingestion.node # "none"
      BY OccupiedRun DEF QuitStep, Unoccupied
<1>3. /\ ingestion'.node = ingestion.node /\ ingestion'.frozen = ingestion.frozen
      /\ ingestion'.done = ingestion.done
      /\ ingestion'.owner = {} \/ ingestion' = ingestion
  <2>1. ingestion \in Runs
        BY DEF IngestionInv, IngestTypes
  <2> QED BY <2>1 DEF QuitStep, Quits, Runs
<1>4. /\ sources' = sources /\ rows' = rows
      /\ ingesting' = [ingesting EXCEPT ![w] = Unoccupied]
      BY DEF QuitStep, Quits
<1>5. /\ disturbed'.edits = disturbed.edits /\ disturbed'.faults = disturbed.faults
      /\ disturbed'.takeovers = disturbed.takeovers
      /\ disturbed \in Disturbances
      BY DEF QuitStep, IngestionInv, IngestTypes, Disturbances
<1>6. SourcesMatch'
      BY <1>1, <1>2, <1>3, <1>4, MatchStays DEF IngestionInv, SourcesMatch
<1>7. BoundsHold'
      BY <1>1, <1>4, BoundsStay DEF QuitStep
<1>8. (\A r \in Role : NormalizationIsFounded(r)') /\ IngestedFromOneVersion'
      BY <1>1, <1>4, RowsStay
<1>9. RunIsFounded'
      BY <1>1, <1>3, <1>4, RunStays, MappedPairStays DEF IngestionInv, RunIsFounded
<1>10. \A v \in Ingester : WorkIsFounded(v)'
      BY <1>1, <1>4, FreedWorkersAreFounded
<1>11. UndisturbedRunIsAlone'
      BY <1>1, <1>2, <1>4, <1>5, FreedRunIsAlone DEF Undisturbed
<1>12. CrashesFailNothing'
      BY <1>1, <1>4, <1>5, FailureStays DEF QuitStep, Disturbances
<1> QED BY <1>1, <1>6, <1>7, <1>8, <1>9, <1>10, <1>11, <1>12 DEF IngestionInv, KeepsTypes

LEMMA MoveKeepsInv ==
  ASSUME IngestionInv, NEW w \in Ingester, MoveStep(w)
  PROVE  IngestionInv'
<1> DEFINE act == ingesting[w].act
<1>1. KeepsTypes
      BY MoveKeepsTypes
<1>2. ingesting[w] # Unoccupied /\ ingestion.node # "none"
      BY OccupiedRun DEF MoveStep, Unoccupied
<1>3. /\ ingestion'.node = NodeAfter(act) /\ ingestion'.frozen = NoAct
      /\ ingestion'.done = ingestion.done \cup {act}
      /\ ingestion'.owner = {} /\ ingestion'.ended = ingestion.ended
  <2>1. ingestion \in Runs
        BY DEF IngestionInv, IngestTypes
  <2> QED BY <2>1 DEF MoveStep, Runs
<1>4. /\ sources' = sources /\ rows' = rows /\ disturbed' = disturbed
      /\ ingesting' = [ingesting EXCEPT ![w] = Unoccupied]
      BY DEF MoveStep
<1>5. ActIsFounded(act) /\ WorkIsFounded(w)
      BY <1>2 DEF IngestionInv, WorkIsFounded
<1>6. NodeAfter(act) # "none"
      /\ (NodeAfter(act) = "materialize_sources" => ingestion.node = "materialize_sources")
      BY <1>2 DEF NodeAfter
<1>7. ingestion.contract = 1 /\ NodeAfter(act) = "validate_input_contract" => PagesDone
  <2>1. NodeAfter(act) = "validate_input_contract" =>
          act.kind = "validate_normalized_input" \/ ingestion.node = "validate_input_contract"
        BY DEF NodeAfter
  <2> QED BY <1>5, <2>1 DEF ActIsFounded, IngestionInv, RunIsFounded
<1>8. NodeAfter(act) = "build_identity_index" => CompleteInputs
  <2>1. NodeAfter(act) = "build_identity_index" =>
          act.kind = "build_identity_index" \/ ingestion.node = "build_identity_index"
        BY DEF NodeAfter
  <2> QED BY <1>5, <2>1 DEF ActIsFounded, IngestionInv, RunIsFounded
<1>9. act.kind = "normalize" /\ ingestion.contract = 1 => act.role \in Role /\ PageStored(act)
      BY <1>2, <1>5 DEF MoveStep, WorkIsFounded, ActIsFounded
<1>10. SourcesMatch'
      BY <1>1, <1>2, <1>3, <1>4, <1>6, MatchStays DEF IngestionInv, SourcesMatch
<1>11. BoundsHold'
      BY <1>1, <1>4, BoundsStay
<1>12. (\A r \in Role : NormalizationIsFounded(r)') /\ IngestedFromOneVersion'
      BY <1>1, <1>4, RowsStay
<1>13. RunIsFounded'
      BY <1>1, <1>3, <1>4, <1>7, <1>8, <1>9, RunStays, MappedPairStays
<1>14. \A v \in Ingester : WorkIsFounded(v)'
      BY <1>1, <1>4, FreedWorkersAreFounded
<1>15. UndisturbedRunIsAlone'
      BY <1>1, <1>2, <1>4, FreedRunIsAlone DEF Undisturbed
<1>16. CrashesFailNothing'
  <2>1. disturbed \in Disturbances
        BY DEF IngestionInv, IngestTypes
  <2> QED BY <1>1, <1>3, <1>4, <2>1, FailureStays DEF Disturbances
<1> QED BY <1>1, <1>10, <1>11, <1>12, <1>13, <1>14, <1>15, <1>16 DEF IngestionInv, KeepsTypes

LEMMA MarkKeepsInv ==
  ASSUME IngestionInv, NEW w \in Ingester, MarkStep(w)
  PROVE  IngestionInv'
<1> DEFINE s == sources["authoritative"]
<1>1. KeepsTypes
      BY MarkKeepsTypes
<1>2. ingesting[w] # Unoccupied /\ ingestion.node # "none"
      BY OccupiedRun DEF MarkStep, Unoccupied
<1>3. /\ ingestion'.node = ingestion.node /\ ingestion'.frozen = ingestion.frozen
      /\ ingestion'.done = ingestion.done
      /\ ingestion'.owner = {} \/ ingestion' = ingestion
  <2>1. ingestion \in Runs
        BY DEF IngestionInv, IngestTypes
  <2> QED BY <2>1 DEF MarkStep, Quits, Runs
<1>4. /\ rows' = rows /\ disturbed' = disturbed /\ disturbed \in Disturbances
      /\ ingesting' = [ingesting EXCEPT ![w] = Unoccupied]
      BY DEF MarkStep, Quits, IngestionInv, IngestTypes
<1>5. /\ sources'["authoritative"].file = IF s.kind = "api" THEN 0 ELSE s.file
      /\ sources'["authoritative"].kind = s.kind
      /\ \A r \in Role : /\ sources'[r].version = sources[r].version
                         /\ sources'[r].snapshot = sources[r].snapshot
  <2>1. sources \in [Role -> SourceRows] /\ s \in SourceRows
        BY AuthoritativeRow DEF IngestionInv, IngestTypes
  <2>2. sources' = [sources EXCEPT !["authoritative"] =
          [s EXCEPT !.state = "failed", !.file = IF s.kind = "api" THEN 0 ELSE s.file]]
        BY DEF MarkStep
  <2> QED BY <2>1, <2>2 DEF Role, SourceRows
<1>6. SourcesMatch'
      BY <1>1, <1>2, <1>3, <1>5, MatchStays DEF IngestionInv, SourcesMatch
<1>7. BoundsHold'
      BY <1>1, <1>4, <1>5, BoundsStay
<1>8. (\A r \in Role : NormalizationIsFounded(r)') /\ IngestedFromOneVersion'
      BY <1>1, <1>4, RowsStay
<1>9. RunIsFounded'
      BY <1>1, <1>3, <1>4, RunStays, MappedPairStays DEF IngestionInv, RunIsFounded
<1>10. \A v \in Ingester : WorkIsFounded(v)'
      BY <1>1, <1>4, <1>5, FreedWorkersAreFounded
<1>11. UndisturbedRunIsAlone'
      BY <1>4 DEF UndisturbedRunIsAlone, Undisturbed, MarkStep
<1>12. CrashesFailNothing'
      BY <1>1, <1>4, <1>5, FailureStays, DisturbedHasReason DEF MarkStep, Disturbances
<1> QED BY <1>1, <1>6, <1>7, <1>8, <1>9, <1>10, <1>11, <1>12 DEF IngestionInv, KeepsTypes

LEMMA BeginKeepsInv ==
  ASSUME IngestionInv, NEW w \in Ingester, BeginAct(w)
  PROVE  IngestionInv'
<1>1. KeepsTypes
      BY BeginKeepsTypes
<1>2. /\ sources \in [Role -> SourceRows] /\ ingestion \in Runs
      /\ ingesting \in [Ingester -> Works] /\ disturbed \in Disturbances
      BY DEF IngestionInv, IngestTypes
<1>3. /\ ingestion'.node = ingestion.node /\ ingestion'.frozen = ActOf
      /\ ingestion'.done = ingestion.done /\ ingestion'.owner = {w}
      /\ ingestion'.ended = "active"
      BY <1>2, BeginFacts DEF Runs
<1>4. /\ sources' = sources /\ rows' = rows /\ ingestion.node # "none"
      /\ ActOf \in Acts /\ ActOf # NoAct /\ ActIsFounded(ActOf)
      BY BeginFacts DEF Offers
<1>5. /\ ingesting'[w].step = "begun" /\ ingesting'[w].act = ActOf
      /\ ingesting'[w].before = [r \in Role |-> sources[r].version]
      /\ ingesting'[w].read = {} /\ ingesting'[w].fresh = ~Stored(ActOf)
      /\ \A v \in Ingester : v # w => ingesting'[v] = ingesting[v]
  <2> DEFINE doing == [Unoccupied EXCEPT !.step = "begun", !.act = ActOf, !.cursor = ingestion.cursor,
                                 !.before = [r \in Role |-> sources[r].version],
                                 !.fresh = ~Stored(ActOf)]
  <2>1. ingesting' = [ingesting EXCEPT ![w] = doing]
        BY BeginFacts
  <2>2. /\ doing.step = "begun" /\ doing.act = ActOf
        /\ doing.before = [r \in Role |-> sources[r].version]
        /\ doing.read = {} /\ doing.fresh = ~Stored(ActOf)
        BY DEF Unoccupied
  <2> HIDE DEF doing
  <2> QED BY <1>2, <2>1, <2>2
<1>6. \/ Busy = {} /\ disturbed' = disturbed
      \/ /\ MayDisturb
         /\ disturbed' = [disturbed EXCEPT !.takeovers = disturbed.takeovers + 1]
      BY BeginFacts
<1>7. SourcesMatch'
      BY <1>1, <1>3, <1>4, MatchStays DEF IngestionInv, SourcesMatch
<1>8. BoundsHold'
      BY <1>1, <1>4, <1>6, BoundsStay
<1>9. (\A r \in Role : NormalizationIsFounded(r)') /\ IngestedFromOneVersion'
      BY <1>1, <1>4, RowsStay
<1>10. RunIsFounded'
      BY <1>1, <1>3, <1>4, RunStays, MappedPairStays DEF IngestionInv, RunIsFounded
<1>11. PICK a \in Acts : a = ActOf
      BY <1>4
<1>12. WorkIsFounded(w)'
  <2>1. ActIsFounded(a)'
        BY <1>1, <1>4, <1>11, ActStays DEF KeepsTypes, IngestionInv
  <2>2. ActIsFounded(ingesting[w].act)'
        BY <1>5, <1>11, <2>1 DEF ActIsFounded
  <2>3. \A r \in Role : ingesting'[w].before[r] \in 1..sources'[r].version
    <3>1. \A r \in Role : sources[r].version \in 1..(disturbed.edits + 1) /\ sources[r].version \in Nat
          BY <1>2 DEF IngestionInv, BoundsHold, SourceRows
    <3> QED BY <1>4, <1>5, <3>1
  <2> QED BY <1>4, <1>5, <2>2, <2>3 DEF WorkIsFounded
<1>13. \A v \in Ingester : WorkIsFounded(v)'
      BY <1>1, <1>4, <1>12, BeginFacts, RestStaysFounded
<1>14. UndisturbedRunIsAlone'
  <2> SUFFICES ASSUME Undisturbed' PROVE UndisturbedRunIsAlone'
      BY DEF UndisturbedRunIsAlone
  <2>1. Undisturbed /\ Busy = {}
        BY <1>2, <1>6 DEF Undisturbed, Disturbances
  <2>2. \A v \in Ingester : v # w => ingesting'[v] = Unoccupied
        BY <1>5, <2>1 DEF Busy, IngestionInv, UndisturbedRunIsAlone, OwnsRun
  <2>3. OwnsRun(w)'
        BY <1>3 DEF OwnsRun
  <2>4. Stored(ingesting[w].act)' <=> Stored(a)
    <3>1. \A k, r : Verdict(k, r)' = Verdict(k, r)
          BY <1>4 DEF Verdict
    <3> QED BY <1>4, <1>5, <1>11, <3>1 DEF Stored
  <2> QED BY <1>4, <1>5, <1>11, <2>1, <2>2, <2>3, <2>4 DEF IngestionInv, UndisturbedRunIsAlone
<1>15. CrashesFailNothing'
      BY <1>3 DEF CrashesFailNothing
<1> QED BY <1>1, <1>7, <1>8, <1>9, <1>10, <1>13, <1>14, <1>15 DEF IngestionInv, KeepsTypes

\* A step of one worker with its own action and nothing else.
LEMMA WorkMoves ==
  ASSUME IngestionInv, KeepsTypes, NEW w \in Ingester, ingesting[w] # Unoccupied,
         ingestion' = ingestion, rows' = rows,
         \A r \in Role : sources'[r].version = sources[r].version,
         sources'["authoritative"].kind = "api" /\ sources'["authoritative"].file # 0 =>
            sources'["authoritative"].snapshot
  PROVE  /\ SourcesMatch'
         /\ (\A r \in Role : NormalizationIsFounded(r)') /\ IngestedFromOneVersion'
         /\ RunIsFounded'
         /\ ActIsFounded(ingesting[w].act) /\ WorkIsFounded(w)
         /\ \A a \in Acts : ActIsFounded(a) => ActIsFounded(a)'
<1>1. ingestion.node # "none"
      BY OccupiedRun
<1>2. SourcesMatch'
      BY <1>1, MatchStays DEF IngestionInv, SourcesMatch
<1>3. (\A r \in Role : NormalizationIsFounded(r)') /\ IngestedFromOneVersion'
      BY RowsStay
<1>4. RunIsFounded'
      BY RunStays, MappedPairStays DEF IngestionInv, RunIsFounded
<1>5. ActIsFounded(ingesting[w].act) /\ WorkIsFounded(w)
      BY DEF IngestionInv, WorkIsFounded
<1>6. ASSUME NEW a \in Acts, ActIsFounded(a) PROVE ActIsFounded(a)'
      BY <1>6, ActStays DEF KeepsTypes, IngestionInv
<1> QED BY <1>2, <1>3, <1>4, <1>5, <1>6

LEMMA CaptureKeepsInv ==
  ASSUME IngestionInv, NEW w \in Ingester, CaptureStep(w)
  PROVE  IngestionInv'
<1> DEFINE s == sources["authoritative"]
           doing == [ingesting[w] EXCEPT !.step = "captured",
                                        !.before = [r \in Role |-> sources[r].version]]
<1>1. KeepsTypes
      BY CaptureKeepsTypes
<1>2. /\ sources \in [Role -> SourceRows] /\ ingesting \in [Ingester -> Works]
      /\ disturbed \in Disturbances /\ s \in SourceRows /\ "authoritative" \in Role
      BY AuthoritativeRow DEF IngestionInv, IngestTypes
<1>3. /\ ingestion' = ingestion /\ rows' = rows /\ disturbed' = disturbed
      /\ ingesting[w] # Unoccupied /\ ingesting[w].step = "begun"
      /\ ingesting[w].act.kind = "materialize"
      /\ ingesting' = [ingesting EXCEPT ![w] = doing]
      BY DEF CaptureStep, Unoccupied
<1>4. /\ \A r \in Role : /\ sources'[r].version = sources[r].version
                         /\ sources'[r].snapshot = sources[r].snapshot
                         /\ sources'[r].state = sources[r].state
                         /\ sources'[r].kind = sources[r].kind
                         /\ r = "target" => sources'[r] = sources[r]
      /\ sources'["authoritative"].file =
           IF s.kind = "remote" /\ s.file = 0 THEN s.version ELSE s.file
  <2>1. CASE s.kind = "remote" /\ s.file = 0
    <3>1. sources' = [sources EXCEPT !["authoritative"] = [s EXCEPT !.file = s.version]]
          BY <2>1 DEF CaptureStep
    <3> QED BY <1>2, <2>1, <3>1 DEF Role, SourceRows
  <2>2. CASE ~(s.kind = "remote" /\ s.file = 0)
        BY <2>2 DEF CaptureStep
  <2> QED BY <2>1, <2>2
<1>5. \A r \in Role : sources[r].version \in 1..(disturbed.edits + 1) /\ sources[r].version \in Nat
      BY <1>2 DEF IngestionInv, BoundsHold, SourceRows
<1>6. s.kind = "api" /\ sources'["authoritative"].file # 0 => sources'["authoritative"].snapshot
      BY <1>2, <1>4 DEF IngestionInv, SourcesMatch
<1>7. /\ SourcesMatch'
      /\ (\A r \in Role : NormalizationIsFounded(r)') /\ IngestedFromOneVersion'
      /\ RunIsFounded'
      /\ ActIsFounded(ingesting[w].act) /\ WorkIsFounded(w)
      /\ \A a \in Acts : ActIsFounded(a) => ActIsFounded(a)'
      BY <1>1, <1>2, <1>3, <1>4, <1>6, WorkMoves
<1>8. BoundsHold'
      BY <1>1, <1>3, <1>4, BoundsStay
<1>9. /\ ingesting'[w].step = "captured" /\ ingesting'[w].act = ingesting[w].act
      /\ ingesting'[w].before = [r \in Role |-> sources[r].version]
      /\ ingesting'[w].read = ingesting[w].read /\ ingesting'[w].fresh = ingesting[w].fresh
      /\ ingesting[w].act \in Acts
      /\ \A v \in Ingester : v # w => ingesting'[v] = ingesting[v]
      BY <1>2, <1>3 DEF Works
<1>10. WorkIsFounded(w)'
  <2>1. ActIsFounded(ingesting[w].act)'
    <3>1. PICK a \in Acts : a = ingesting[w].act
          BY <1>9
    <3>2. ActIsFounded(a)'
          BY <1>7, <3>1
    <3> QED BY <1>9, <3>1, <3>2 DEF ActIsFounded
  <2>2. \A r \in Role : ingesting'[w].before[r] \in 1..sources'[r].version
        BY <1>4, <1>5, <1>9
  <2>3. ingesting[w].read = {} /\ ingesting[w].act # NoAct
        BY <1>3, <1>7 DEF WorkIsFounded
  <2>4. s.kind = "remote" => sources'["authoritative"].file # 0
        BY <1>2, <1>4, <1>5
  <2> QED BY <1>2, <1>3, <1>4, <1>9, <2>1, <2>2, <2>3, <2>4 DEF WorkIsFounded
<1>11. \A v \in Ingester : WorkIsFounded(v)'
  <2>1. s.kind = "remote" /\ s.file # 0 => sources'["authoritative"].file # 0
        BY <1>4
  <2> HIDE DEF doing
  <2> QED BY <1>1, <1>3, <1>10, <2>1, RestStaysFounded
<1>12. UndisturbedRunIsAlone'
  <2> SUFFICES ASSUME Undisturbed' PROVE UndisturbedRunIsAlone'
      BY DEF UndisturbedRunIsAlone
  <2>1. Undisturbed
        BY <1>3 DEF Undisturbed
  <2>2. \A v \in Ingester : v # w => ingesting'[v] = Unoccupied
        BY <1>3, <1>9, <2>1, SoleWorker
  <2>3. OwnsRun(w)' /\ (ingesting[w].fresh => ~Stored(ingesting[w].act))
        BY <1>3, <2>1 DEF OwnsRun, IngestionInv, UndisturbedRunIsAlone
  <2>4. Stored(ingesting[w].act)' <=> Stored(ingesting[w].act)
    <3>1. ingesting[w].act.role = "authoritative"
          BY <1>3, <1>7 DEF ActIsFounded
    <3> QED BY <1>2, <1>3, <1>4, <1>9, <3>1 DEF Stored
  <2>5. \A r \in Role : /\ sources'[r].state # "failed"
                        /\ sources'[r].kind \in Fetched /\ sources'[r].snapshot =>
                            sources'[r].file = 1 /\ sources'[r].state = "ready"
                        /\ sources'[r].file \in {0, 1}
                        /\ \A x \in rows'.inputs[r] : x[2] = 1
    <3> SUFFICES ASSUME NEW r \in Role
                 PROVE  /\ sources'[r].state # "failed"
                        /\ sources'[r].kind \in Fetched /\ sources'[r].snapshot =>
                            sources'[r].file = 1 /\ sources'[r].state = "ready"
                        /\ sources'[r].file \in {0, 1}
                        /\ \A x \in rows'.inputs[r] : x[2] = 1
        OBVIOUS
    <3>1. CASE r = "target"
          BY <1>3, <1>4, <2>1, <3>1 DEF IngestionInv, UndisturbedRunIsAlone
    <3>2. CASE r = "authoritative"
      <4>1. s.version = 1
            BY <1>2, <1>5, <2>1 DEF Undisturbed
      <4> QED BY <1>2, <1>3, <1>4, <2>1, <3>2, <4>1 DEF IngestionInv, UndisturbedRunIsAlone
    <3> QED BY <3>1, <3>2 DEF Role
  <2> QED BY <1>9, <2>2, <2>3, <2>4, <2>5 DEF UndisturbedRunIsAlone
<1>13. CrashesFailNothing'
      BY <1>1, <1>2, <1>3, <1>4, FailureStays DEF Disturbances
<1> QED BY <1>1, <1>7, <1>8, <1>11, <1>12, <1>13 DEF IngestionInv, KeepsTypes

LEMMA PublishKeepsInv ==
  ASSUME IngestionInv, NEW w \in Ingester, PublishStep(w)
  PROVE  IngestionInv'
<1> DEFINE s == sources["authoritative"]
           published == IF s.kind = "api" THEN ingesting[w].before["authoritative"] ELSE s.file
<1>1. KeepsTypes
      BY PublishKeepsTypes
<1>2. /\ sources \in [Role -> SourceRows] /\ ingesting \in [Ingester -> Works]
      /\ disturbed \in Disturbances /\ s \in SourceRows /\ "authoritative" \in Role
      BY AuthoritativeRow DEF IngestionInv, IngestTypes
<1>3. /\ ingestion' = ingestion /\ rows' = rows /\ disturbed' = disturbed
      /\ ingesting[w] # Unoccupied /\ ingesting[w].step = "captured"
      /\ ingesting' = [ingesting EXCEPT ![w] = [ingesting[w] EXCEPT !.step = "done"]]
      BY <1>2 DEF PublishStep, Unoccupied, Did
<1>4. /\ \A r \in Role : /\ sources'[r].version = sources[r].version
                         /\ sources'[r].kind = sources[r].kind
                         /\ r = "target" => sources'[r] = sources[r]
      /\ \/ sources' = sources
         \/ /\ ~s.snapshot
            /\ sources'["authoritative"].state = "ready" /\ sources'["authoritative"].snapshot = TRUE
            /\ sources'["authoritative"].file = published
  <2>1. CASE sources' = sources
        BY <2>1
  <2>2. CASE sources' # sources
    <3>1. ~s.snapshot /\ sources' = [sources EXCEPT !["authoritative"] =
             [s EXCEPT !.state = "ready", !.snapshot = TRUE, !.file = published]]
          BY <2>2 DEF PublishStep
    <3> HIDE DEF published
    <3> QED BY <1>2, <3>1 DEF Role, SourceRows
  <2> QED BY <2>1, <2>2
<1>5. \A r \in Role : sources[r].version \in 1..(disturbed.edits + 1) /\ sources[r].version \in Nat
      BY <1>2 DEF IngestionInv, BoundsHold, SourceRows
<1>6. sources'["authoritative"].kind = "api" /\ sources'["authoritative"].file # 0 =>
        sources'["authoritative"].snapshot
  <2> HIDE DEF published
  <2> QED BY <1>4 DEF IngestionInv, SourcesMatch
<1>7. /\ SourcesMatch'
      /\ (\A r \in Role : NormalizationIsFounded(r)') /\ IngestedFromOneVersion'
      /\ RunIsFounded'
      /\ ActIsFounded(ingesting[w].act) /\ WorkIsFounded(w)
      /\ \A a \in Acts : ActIsFounded(a) => ActIsFounded(a)'
  <2> HIDE DEF published
  <2> QED BY <1>1, <1>3, <1>4, <1>6, WorkMoves
<1>8. BoundsHold'
  <2> HIDE DEF published
  <2> QED BY <1>1, <1>3, <1>4, BoundsStay
<1>9. /\ ingesting'[w].step = "done" /\ ingesting'[w].act = ingesting[w].act
      /\ ingesting'[w].before = ingesting[w].before
      /\ ingesting'[w].read = ingesting[w].read
      /\ ingesting[w].act \in Acts /\ ingesting[w] \in Works
      /\ \A v \in Ingester : v # w => ingesting'[v] = ingesting[v]
      BY <1>2, <1>3 DEF Works
<1>10. /\ ingesting[w].act.kind = "materialize" /\ s.kind \in {"remote", "api"}
       /\ ingesting[w].read = {} /\ ingesting[w].act # NoAct
       /\ s.kind = "remote" => s.file # 0
       /\ \A r \in Role : ingesting[w].before[r] \in 1..sources[r].version
      BY <1>3, <1>7 DEF WorkIsFounded, ActIsFounded, Fetched
<1>11. WorkIsFounded(w)'
  <2>1. ActIsFounded(ingesting[w].act)'
    <3>1. PICK a \in Acts : a = ingesting[w].act
          BY <1>9
    <3>2. ActIsFounded(a)'
          BY <1>7, <3>1
    <3> QED BY <1>9, <3>1, <3>2 DEF ActIsFounded
  <2> HIDE DEF published
  <2> QED BY <1>4, <1>9, <1>10, <2>1 DEF WorkIsFounded
<1>12. \A v \in Ingester : WorkIsFounded(v)'
  <2>1. s.kind = "remote" /\ s.file # 0 => sources'["authoritative"].file # 0
        BY <1>4
  <2> QED BY <1>1, <1>3, <1>11, <2>1, RestStaysFounded
<1>13. UndisturbedRunIsAlone'
  <2> SUFFICES ASSUME Undisturbed' PROVE UndisturbedRunIsAlone'
      BY DEF UndisturbedRunIsAlone
  <2>1. Undisturbed
        BY <1>3 DEF Undisturbed
  <2>2. \A v \in Ingester : v # w => ingesting'[v] = Unoccupied
        BY <1>3, <1>9, <2>1, SoleWorker
  <2>3. OwnsRun(w)'
        BY <1>3, <2>1 DEF OwnsRun, IngestionInv, UndisturbedRunIsAlone
  <2>4. published = 1
    <3>1. s.version = 1
          BY <1>2, <1>5, <2>1 DEF Undisturbed
    <3>2. CASE s.kind = "api"
      <4>1. ingesting[w].before["authoritative"] \in 1..1
            BY <1>2, <1>10, <3>1
      <4> QED BY <3>2, <4>1
    <3>3. CASE s.kind = "remote"
      <4>1. s.file \in {0, 1}
            BY <1>2, <2>1 DEF IngestionInv, UndisturbedRunIsAlone
      <4> QED BY <1>10, <3>3, <4>1
    <3> QED BY <1>10, <3>2, <3>3
  <2> HIDE DEF published
  <2>5. ASSUME NEW r \in Role
        PROVE  /\ sources'[r].state # "failed"
               /\ sources'[r].kind \in Fetched /\ sources'[r].snapshot =>
                   sources'[r].file = 1 /\ sources'[r].state = "ready"
               /\ sources'[r].file \in {0, 1}
               /\ \A x \in rows'.inputs[r] : x[2] = 1
    <3>1. CASE sources'[r] = sources[r]
          BY <1>3, <2>1, <3>1 DEF IngestionInv, UndisturbedRunIsAlone
    <3>2. CASE r = "authoritative" /\ sources' # sources
          BY <1>2, <1>3, <1>4, <2>1, <2>4, <3>2 DEF IngestionInv, UndisturbedRunIsAlone
    <3> QED BY <1>4, <3>1, <3>2 DEF Role
  <2> QED BY <1>9, <2>2, <2>3, <2>5 DEF UndisturbedRunIsAlone
<1>14. CrashesFailNothing'
  <2>1. ingestion.ended = "failed" => ~Undisturbed
        BY <1>3, OccupiedRunIsActive
  <2> HIDE DEF published
  <2> QED BY <1>1, <1>2, <1>3, <2>1, FailureStays DEF Disturbances
<1> QED BY <1>1, <1>7, <1>8, <1>12, <1>13, <1>14 DEF IngestionInv, KeepsTypes

LEMMA CaptureFailsKeepsInv ==
  ASSUME IngestionInv, NEW w \in Ingester, CaptureFails(w)
  PROVE  IngestionInv'
<1>1. KeepsTypes
      BY CaptureFailsKeepsTypes
<1>2. /\ sources \in [Role -> SourceRows] /\ ingesting \in [Ingester -> Works]
      /\ disturbed \in Disturbances
      BY DEF IngestionInv, IngestTypes
<1> DEFINE doing == [ingesting[w] EXCEPT !.step = "failing"]
<1>3. /\ ingestion' = ingestion /\ rows' = rows /\ sources' = sources
      /\ MayDisturb /\ disturbed' = [disturbed EXCEPT !.faults = disturbed.faults + 1]
      /\ ingesting[w] # Unoccupied /\ ingesting[w].act.kind = "materialize"
      /\ ingesting' = [ingesting EXCEPT ![w] = doing]
      BY <1>2 DEF CaptureFails, Unoccupied
<1>4. doing.step = "failing" /\ doing.act = ingesting[w].act /\ doing.before = ingesting[w].before
      /\ doing.read = ingesting[w].read /\ ingesting[w].act \in Acts
      BY <1>2 DEF Works
<1> HIDE DEF doing
<1>5. ingesting'[w] = doing
      BY <1>2, <1>3
<1>6. disturbed'.faults = disturbed.faults + 1 /\ disturbed'.edits = disturbed.edits
      /\ disturbed'.takeovers = disturbed.takeovers
      BY <1>2, <1>3 DEF Disturbances
<1>7. /\ SourcesMatch'
      /\ (\A r \in Role : NormalizationIsFounded(r)') /\ IngestedFromOneVersion'
      /\ RunIsFounded'
      /\ ActIsFounded(ingesting[w].act) /\ WorkIsFounded(w)
      /\ \A a \in Acts : ActIsFounded(a) => ActIsFounded(a)'
  <2>1. sources'["authoritative"].kind = "api" /\ sources'["authoritative"].file # 0 =>
          sources'["authoritative"].snapshot
        BY <1>3 DEF IngestionInv, SourcesMatch
  <2> QED BY <1>1, <1>3, <2>1, WorkMoves
<1>8. BoundsHold'
      BY <1>1, <1>3, BoundsStay
<1>9. WorkIsFounded(w)'
  <2>1. ActIsFounded(ingesting[w].act)'
    <3>1. PICK a \in Acts : a = ingesting[w].act
          BY <1>4
    <3>2. ActIsFounded(a)'
          BY <1>7, <3>1
    <3> QED BY <1>4, <1>5, <3>1, <3>2 DEF ActIsFounded
  <2>2. ingesting[w].read = {} /\ ingesting[w].act # NoAct
        BY <1>3, <1>7 DEF WorkIsFounded
  <2> QED BY <1>3, <1>4, <1>5, <1>7, <2>1, <2>2 DEF WorkIsFounded
<1>10. \A v \in Ingester : WorkIsFounded(v)'
      BY <1>1, <1>3, <1>9, RestStaysFounded
<1>11. UndisturbedRunIsAlone'
      BY <1>2, <1>6 DEF UndisturbedRunIsAlone, Undisturbed, Disturbances
<1>12. CrashesFailNothing'
      BY <1>1, <1>2, <1>3, <1>6, FailureStays DEF Disturbances
<1> QED BY <1>1, <1>7, <1>8, <1>10, <1>11, <1>12 DEF IngestionInv, KeepsTypes

LEMMA ReadKeepsInv ==
  ASSUME IngestionInv, NEW w \in Ingester, ReadStep(w)
  PROVE  IngestionInv'
<1> DEFINE r == ingesting[w].act.role
<1>1. KeepsTypes
      BY ReadKeepsTypes
<1>2. /\ sources \in [Role -> SourceRows] /\ ingesting \in [Ingester -> Works]
      /\ disturbed \in Disturbances
      BY DEF IngestionInv, IngestTypes
<1>3. PICK p \in Page : ingesting' = [ingesting EXCEPT ![w] =
         [ingesting[w] EXCEPT !.read = ingesting[w].read \cup {<<p, sources[r].version>>}]]
      BY DEF ReadStep
<1> DEFINE doing == [ingesting[w] EXCEPT !.read = ingesting[w].read \cup {<<p, sources[r].version>>}]
<1>4. /\ ingestion' = ingestion /\ rows' = rows /\ sources' = sources /\ disturbed' = disturbed
      /\ ingesting[w] # Unoccupied /\ ingesting[w].step = "begun"
      /\ ingesting[w].act.kind = "normalize" /\ sources[r].form # "empty"
      /\ ingesting' = [ingesting EXCEPT ![w] = doing]
  <2>1. ingesting' = [ingesting EXCEPT ![w] = doing]
        BY <1>3
  <2> HIDE DEF doing
  <2>2. /\ ingestion' = ingestion /\ rows' = rows /\ sources' = sources /\ disturbed' = disturbed
        /\ Begun(w, "normalize") /\ sources[r].form # "empty"
        BY DEF ReadStep
  <2>3. ingesting[w].step = "begun" /\ ingesting[w].act.kind = "normalize"
        BY <2>2 DEF Begun
  <2>4. ingesting[w] # Unoccupied
        BY <2>3 DEF Unoccupied
  <2> QED BY <2>1, <2>2, <2>3, <2>4
<1>5. /\ doing.step = "begun" /\ doing.act = ingesting[w].act /\ doing.before = ingesting[w].before
      /\ doing.read = ingesting[w].read \cup {<<p, sources[r].version>>}
      /\ doing.fresh = ingesting[w].fresh /\ ingesting[w].act \in Acts
      BY <1>2, <1>4 DEF Works
<1> HIDE DEF doing
<1>6. ingesting'[w] = doing /\ \A v \in Ingester : v # w => ingesting'[v] = ingesting[v]
      BY <1>2, <1>4
<1>7. /\ SourcesMatch'
      /\ (\A q \in Role : NormalizationIsFounded(q)') /\ IngestedFromOneVersion'
      /\ RunIsFounded'
      /\ ActIsFounded(ingesting[w].act) /\ WorkIsFounded(w)
      /\ \A a \in Acts : ActIsFounded(a) => ActIsFounded(a)'
  <2>1. sources'["authoritative"].kind = "api" /\ sources'["authoritative"].file # 0 =>
          sources'["authoritative"].snapshot
        BY <1>4 DEF IngestionInv, SourcesMatch
  <2> QED BY <1>1, <1>4, <2>1, WorkMoves
<1>8. BoundsHold'
      BY <1>1, <1>4, BoundsStay
<1>9. WorkIsFounded(w)'
  <2>1. ActIsFounded(ingesting[w].act)'
    <3>1. PICK a \in Acts : a = ingesting[w].act
          BY <1>5
    <3>2. ActIsFounded(a)'
          BY <1>7, <3>1
    <3> QED BY <1>5, <1>6, <3>1, <3>2 DEF ActIsFounded
  <2>2. /\ ingesting[w].act # NoAct
        /\ \A q \in Role : ingesting[w].before[q] \in 1..sources[q].version
        /\ r \in Role
        /\ \A x \in ingesting[w].read :
              ingesting[w].before[r] <= x[2] /\ x[2] <= sources[r].version
        BY <1>4, <1>7 DEF WorkIsFounded, ActIsFounded
  <2>3. \A x \in doing.read : ingesting[w].before[r] <= x[2] /\ x[2] <= sources[r].version
    <3>1. sources[r].version \in Nat /\ ingesting[w].before[r] <= sources[r].version
          BY <1>2, <2>2 DEF SourceRows
    <3> QED BY <1>5, <2>2, <3>1
  <2> QED BY <1>4, <1>5, <1>6, <2>1, <2>2, <2>3 DEF WorkIsFounded
<1>10. \A v \in Ingester : WorkIsFounded(v)'
      BY <1>1, <1>4, <1>9, RestStaysFounded
<1>11. UndisturbedRunIsAlone'
  <2> SUFFICES ASSUME Undisturbed' PROVE UndisturbedRunIsAlone'
      BY DEF UndisturbedRunIsAlone
  <2>1. Undisturbed
        BY <1>4 DEF Undisturbed
  <2>2. \A v \in Ingester : v # w => ingesting'[v] = Unoccupied
        BY <1>4, <1>6, <2>1, SoleWorker
  <2>3. OwnsRun(w)' /\ (ingesting[w].fresh => ~Stored(ingesting[w].act))
        BY <1>4, <2>1 DEF OwnsRun, IngestionInv, UndisturbedRunIsAlone
  <2>4. Stored(ingesting[w].act)' <=> Stored(ingesting[w].act)
        BY <1>4, <1>5, <1>6 DEF Stored, Verdict
  <2> QED BY <1>4, <1>5, <1>6, <2>1, <2>2, <2>3, <2>4 DEF IngestionInv, UndisturbedRunIsAlone
<1>12. CrashesFailNothing'
      BY <1>1, <1>2, <1>4, FailureStays DEF Disturbances
<1> QED BY <1>1, <1>7, <1>8, <1>10, <1>11, <1>12 DEF IngestionInv, KeepsTypes

LEMMA EditKeepsInv ==
  ASSUME IngestionInv, NEW r \in Role, EditStep(r)
  PROVE  IngestionInv'
<1>1. KeepsTypes
      BY EditKeepsTypes
<1>2. /\ sources \in [Role -> SourceRows] /\ ingesting \in [Ingester -> Works]
      /\ disturbed \in Disturbances /\ MaxDisturbances \in Nat
      BY IngestionAssumption DEF IngestionInv, IngestTypes
<1>3. /\ ingestion' = ingestion /\ rows' = rows /\ ingesting' = ingesting
      /\ MayDisturb /\ disturbed' = [disturbed EXCEPT !.edits = disturbed.edits + 1]
      /\ ingestion.node # "none"
      BY DEF EditStep, IngestionInv, SourcesMatch
<1>4. /\ disturbed'.faults = disturbed.faults /\ disturbed'.edits = disturbed.edits + 1
      /\ disturbed'.takeovers = disturbed.takeovers /\ disturbed'.crashes = disturbed.crashes
      BY <1>2, <1>3 DEF Disturbances
<1>5. \A q \in Role : /\ sources'[q].version = IF q = r THEN sources[q].version + 1
                                               ELSE sources[q].version
                      /\ sources'[q].kind = sources[q].kind /\ sources'[q].file = sources[q].file
                      /\ sources'[q].snapshot = sources[q].snapshot
      BY <1>2 DEF EditStep, SourceRows
<1>6. SourcesMatch'
  <2>1. "authoritative" \in Role
        BY DEF Role
  <2> QED BY <1>1, <1>3, <1>5, <2>1, MatchStays DEF IngestionInv, SourcesMatch
<1>7. BoundsHold'
  <2>1. disturbed'.edits + disturbed'.faults + disturbed'.crashes + disturbed'.takeovers
          <= MaxDisturbances
        BY <1>2, <1>3, <1>4 DEF MayDisturb, Disturbances
  <2>2. \A q \in Role : sources'[q].version \in 1..(disturbed'.edits + 1)
    <3> SUFFICES ASSUME NEW q \in Role PROVE sources'[q].version \in 1..(disturbed'.edits + 1)
        OBVIOUS
    <3>1. sources[q].version \in 1..(disturbed.edits + 1) /\ disturbed.edits \in Nat
          BY <1>2 DEF IngestionInv, BoundsHold, Disturbances
    <3> QED BY <1>4, <1>5, <3>1
  <2> QED BY <2>1, <2>2 DEF BoundsHold
<1>8. (\A q \in Role : NormalizationIsFounded(q)') /\ IngestedFromOneVersion'
      BY <1>1, <1>3, RowsStay
<1>9. RunIsFounded'
      BY <1>1, <1>3, RunStays, MappedPairStays DEF IngestionInv, RunIsFounded
<1>10. ASSUME NEW v \in Ingester PROVE WorkIsFounded(v)'
  <2>1. sources["authoritative"].kind = "remote" /\ sources["authoritative"].file # 0 =>
            sources'["authoritative"].file # 0
        BY <1>5 DEF Role
  <2> QED BY <1>1, <1>3, <2>1, OthersStayFounded DEF IngestionInv, KeepsTypes
<1>11. UndisturbedRunIsAlone'
      BY <1>2, <1>4 DEF UndisturbedRunIsAlone, Undisturbed, Disturbances
<1>12. CrashesFailNothing'
      BY <1>1, <1>2, <1>3, <1>4, <1>5, FailureStays DEF Disturbances
<1> QED BY <1>1, <1>6, <1>7, <1>8, <1>9, <1>10, <1>11, <1>12 DEF IngestionInv, KeepsTypes

\* What is there of a checkpoint after the rows were stored.
LEMMA SavedRows ==
  ASSUME IngestionInv, NEW w \in Ingester, SaveStep(w), NEW found, NEW input, NEW recorded,
         Saves(w, found, input, recorded), LegallyFound(w, found, input), NEW r \in Role
  PROVE  /\ rows'.inputs[r] = rows.inputs[r] \cup input[r]
         /\ \A kind \in Phase :
              /\ <<kind, r>> \in DOMAIN rows.checkpoints =>
                   /\ <<kind, r>> \in DOMAIN rows'.checkpoints
                   /\ rows'.checkpoints[<<kind, r>>] = rows.checkpoints[<<kind, r>>]
                   /\ Verdict(kind, r) = rows.checkpoints[<<kind, r>>].verdict
                   /\ Verdict(kind, r) # "missing" /\ Verdict(kind, r)' = Verdict(kind, r)
              /\ <<kind, r>> \in DOMAIN found /\ <<kind, r>> \notin DOMAIN rows.checkpoints =>
                   /\ rows'.checkpoints[<<kind, r>>] = found[<<kind, r>>]
                   /\ Verdict(kind, r)' = found[<<kind, r>>].verdict
                   /\ Verdict(kind, r)' # "missing"
              /\ <<kind, r>> \notin DOMAIN rows.checkpoints => Verdict(kind, r) = "missing"
              /\ <<kind, r>> \notin DOMAIN found /\ <<kind, r>> \notin DOMAIN rows.checkpoints =>
                   Verdict(kind, r)' = "missing"
<1>1. rows'.inputs[r] = rows.inputs[r] \cup input[r]
      BY DEF Saves, InputsWith
<1>2. /\ DOMAIN rows'.checkpoints = DOMAIN found \cup DOMAIN rows.checkpoints
      /\ \A k \in DOMAIN rows'.checkpoints :
           rows'.checkpoints[k] = IF k \in DOMAIN rows.checkpoints THEN rows.checkpoints[k] ELSE found[k]
      BY DEF Saves
<1>3. /\ \A k \in DOMAIN rows.checkpoints : rows.checkpoints[k].verdict # "missing"
      /\ \A k \in DOMAIN found : found[k].verdict # "missing"
      BY DEF IngestionInv, IngestTypes, RowsOK, LegallyFound, CheckpointOK, Verdicts
<1> QED BY <1>1, <1>2, <1>3 DEF Verdict

LEMMA SavedNormalization ==
  ASSUME IngestionInv, NEW w \in Ingester, SaveStep(w), NEW found, NEW input, NEW recorded,
         Saves(w, found, input, recorded), LegallyFound(w, found, input), NEW r \in Role
  PROVE  /\ NormalizationIsFounded(r)'
         /\ sources'[r].kind = "database" /\ Verdict("normalization", r)' = "stored" =>
              LET v == rows'.checkpoints[<<"normalization", r>>].version
              IN  /\ \A x \in rows'.inputs[r] : x[2] = v
                  /\ MappedVersion(r)' = v
<1> DEFINE k == <<"normalization", r>>
           m == <<"mapping", r>>
           old == rows.checkpoints
<1>1. /\ sources' = sources /\ ingestion' = ingestion /\ IngestTypes /\ IngestTypes'
      /\ FoundedFor(r, found, input[r]) /\ NormalizationIsFounded(r)
      BY SaveKeepsTypes DEF SaveStep, Saves, IngestionInv, KeepsTypes, LegallyFound
<1>2. /\ rows'.inputs[r] = rows.inputs[r] \cup input[r]
      /\ k \in DOMAIN old =>
           /\ rows'.checkpoints[k] = old[k] /\ Normalized(r) /\ Normalized(r)'
           /\ Verdict("normalization", r) = old[k].verdict
      /\ k \in DOMAIN found /\ k \notin DOMAIN old =>
           rows'.checkpoints[k] = found[k] /\ Normalized(r)' /\ ~Normalized(r)
      /\ k \notin DOMAIN old => ~Normalized(r)
      /\ k \notin DOMAIN found /\ k \notin DOMAIN old => ~Normalized(r)'
  <2>1. "normalization" \in Phase
        BY DEF Phase
  <2>2. rows'.inputs[r] = rows.inputs[r] \cup input[r]
        BY SavedRows
  <2>3. k \in DOMAIN old =>
           /\ rows'.checkpoints[k] = old[k] /\ Verdict("normalization", r) # "missing"
           /\ Verdict("normalization", r)' # "missing"
           /\ Verdict("normalization", r) = old[k].verdict
        BY <2>1, SavedRows
  <2>4. k \in DOMAIN found /\ k \notin DOMAIN old =>
           rows'.checkpoints[k] = found[k] /\ Verdict("normalization", r)' # "missing"
        BY <2>1, SavedRows
  <2>5. /\ k \notin DOMAIN old => Verdict("normalization", r) = "missing"
        /\ k \notin DOMAIN found /\ k \notin DOMAIN old => Verdict("normalization", r)' = "missing"
        BY <2>1, SavedRows
  <2> QED BY <2>2, <2>3, <2>4, <2>5 DEF Normalized
<1>3. Mapped(r) => Mapped(r)' /\ MappedVersion(r)' = MappedVersion(r)
      BY SavedRows DEF Phase, Mapped, MappedVersion
<1>4. k \in DOMAIN found /\ k \in DOMAIN old => found[k].hash = old[k].hash
      BY DEF Saves
<1>5. rows'.inputs[r] \subseteq Page \X Nat /\ rows.version \in Nat
      BY <1>1 DEF IngestTypes, RowsOK
<1>6. ASSUME sources[r].form = "empty" \/ {x[1] : x \in rows.inputs[r]} = Page
                                       \/ {x[1] : x \in input[r]} = Page
      PROVE  sources[r].form = "empty" \/ {x[1] : x \in rows'.inputs[r]} = Page
  <2>1. \A x \in rows'.inputs[r] : x[1] \in Page
        BY <1>5
  <2> QED BY <1>2, <1>6, <2>1
<1>7. r = "target" => rows'.version = IF rows.version # 0 THEN rows.version
                                      ELSE IF k \in DOMAIN found THEN found[k].version ELSE 0
      BY DEF Saves
<1>8. ASSUME sources[r].form = "empty" PROVE rows'.inputs[r] = {}
      BY <1>1, <1>2, <1>8 DEF NormalizationIsFounded, FoundedFor
<1>9. ASSUME ingestion.contract > 1, rows'.inputs[r] # {} PROVE Normalized(r)'
      BY <1>1, <1>2, <1>9 DEF NormalizationIsFounded, FoundedFor
<1>10. CASE k \in DOMAIN old
  <2>1. /\ old[k].verdict = "stored" /\ old[k].hash = old[k].version
        /\ sources[r].form = "empty" \/ {x[1] : x \in rows.inputs[r]} = Page
        /\ sources[r].kind # "database" => old[k].version = 0
        /\ sources[r].kind = "database" => Mapped(r)
        /\ r = "target" => rows.version = old[k].version
        BY <1>1, <1>2, <1>10 DEF NormalizationIsFounded
  <2>2. r = "target" => rows'.version = old[k].version
    <3>1. k \in DOMAIN found => found[k].version = old[k].version
          BY <1>1, <1>4, <1>10, <2>1 DEF FoundedFor
    <3> QED BY <1>7, <2>1, <3>1
  <2>3. NormalizationIsFounded(r)'
        BY <1>1, <1>2, <1>3, <1>6, <1>8, <1>10, <2>1, <2>2 DEF NormalizationIsFounded
  <2>4. ASSUME sources[r].kind = "database"
        PROVE  /\ \A x \in rows'.inputs[r] : x[2] = old[k].version
               /\ MappedVersion(r)' = old[k].version
    <3>1. /\ \A x \in rows.inputs[r] : x[2] = old[k].version
          /\ MappedVersion(r) = old[k].version
          BY <1>2, <1>10, <2>1, <2>4 DEF IngestionInv, IngestedFromOneVersion
    <3>2. \A x \in input[r] : x[2] = old[k].version
      <4>1. ingestion.contract > 1
            BY <2>4, ContractOf
      <4>2. CASE k \in DOMAIN found
            BY <1>1, <1>4, <1>10, <2>1, <2>4, <4>2 DEF FoundedFor
      <4>3. CASE k \notin DOMAIN found
            BY <1>1, <4>1, <4>3 DEF FoundedFor
      <4> QED BY <4>2, <4>3
    <3> QED BY <1>2, <1>3, <2>1, <2>4, <3>1, <3>2
  <2> QED BY <1>1, <1>2, <1>10, <2>3, <2>4
<1>11. CASE k \notin DOMAIN old /\ k \in DOMAIN found
  <2>1. /\ found[k].verdict = "stored" /\ found[k].hash = found[k].version
        /\ sources[r].form = "empty" \/ {x[1] : x \in input[r]} = Page
        /\ sources[r].kind # "database" => found[k].version = 0
        /\ sources[r].kind = "database" =>
             /\ Mapped(r) /\ MappedVersion(r) = found[k].version
             /\ \A x \in input[r] : x[2] = found[k].version
        /\ ingestion.contract > 1
        BY <1>1, <1>11 DEF FoundedFor
  <2>2. rows.inputs[r] = {} /\ (r = "target" => rows.version = 0)
        BY <1>1, <1>2, <1>11, <2>1 DEF NormalizationIsFounded
  <2>3. NormalizationIsFounded(r)'
        BY <1>1, <1>2, <1>3, <1>6, <1>7, <1>8, <1>11, <2>1, <2>2 DEF NormalizationIsFounded
  <2> QED BY <1>1, <1>2, <1>3, <1>11, <2>1, <2>2, <2>3
<1>12. CASE k \notin DOMAIN old /\ k \notin DOMAIN found
  <2>1. ~Normalized(r)' /\ ~Normalized(r)
        BY <1>2, <1>12
  <2>2. r = "target" => rows'.version = 0
        BY <1>1, <1>7, <1>12, <2>1 DEF NormalizationIsFounded
  <2>3. NormalizationIsFounded(r)'
        BY <1>1, <1>8, <1>9, <2>1, <2>2 DEF NormalizationIsFounded
  <2> QED BY <2>1, <2>3 DEF Normalized
<1> QED BY <1>10, <1>11, <1>12

LEMMA SavedFromOneVersion ==
  ASSUME IngestionInv, NEW w \in Ingester, SaveStep(w), NEW found, NEW input, NEW recorded,
         Saves(w, found, input, recorded), LegallyFound(w, found, input)
  PROVE  IngestedFromOneVersion'
<1>1. sources' = sources
      BY DEF SaveStep
<1>2. ASSUME NEW r \in Role, sources[r].kind = "database", Verdict("normalization", r)' = "stored"
      PROVE  LET v == rows'.checkpoints[<<"normalization", r>>].version
             IN  /\ \A x \in rows'.inputs[r] : x[2] = v
                 /\ MappedVersion(r)' = v
                 /\ r = "target" => rows'.version = v
  <2>1. r = "target" => rows'.version = rows'.checkpoints[<<"normalization", r>>].version
        BY <1>2, SavedNormalization DEF NormalizationIsFounded, Normalized
  <2> QED BY <1>1, <1>2, <2>1, SavedNormalization
<1>3. ASSUME NEW r \in Role, sources[r].kind \in Fetched,
             NEW x \in rows'.inputs[r], NEW y \in rows'.inputs[r]
      PROVE  x[2] = y[2]
  <2>1. /\ FoundedFor(r, found, input[r]) /\ rows'.inputs[r] = rows.inputs[r] \cup input[r]
        /\ rows.inputs[r] \subseteq Page \X Nat
        BY SavedRows DEF LegallyFound, IngestionInv, IngestTypes, RowsOK
  <2>2. \A z \in input[r] : z[2] = WholeVersion(r)
        BY <1>3, <2>1 DEF FoundedFor
  <2>3. ingestion.contract > 1
    <3>1. ingestion.contract # 1 /\ ingestion.contract # 0 /\ ingestion.contract \in 0..3
          BY <1>3 DEF IngestionInv, SourcesMatch, Fetched, IngestTypes, Runs
    <3> QED BY <3>1
  <2>4. ASSUME NEW z \in rows.inputs[r], input[r] # {} PROVE z[2] = WholeVersion(r)
    <3>1. {u[1] : u \in input[r]} = Page
          BY <2>1, <2>3, <2>4 DEF FoundedFor
    <3>2. z[1] \in Page
          BY <2>1
    <3>3. PICK u \in input[r] : u[1] = z[1]
          BY <3>1, <3>2
    <3>4. u = z
          BY <3>3 DEF Saves
    <3> QED BY <2>2, <3>4
  <2>5. \A u, z \in rows.inputs[r] : u[2] = z[2]
        BY <1>3 DEF IngestionInv, IngestedFromOneVersion
  <2> QED BY <2>1, <2>2, <2>4, <2>5
<1> QED BY <1>1, <1>2, <1>3 DEF IngestedFromOneVersion

LEMMA SaveKeepsInv ==
  ASSUME IngestionInv, NEW w \in Ingester, SaveStep(w)
  PROVE  IngestionInv'
<1>1. KeepsTypes
      BY SaveKeepsTypes
<1>2. PICK found, input, recorded : Saves(w, found, input, recorded) /\ LegallyFound(w, found, input)
      BY DEF SaveStep
<1>3. /\ sources' = sources /\ ingestion' = ingestion /\ disturbed' = disturbed
      /\ sources \in [Role -> SourceRows] /\ ingesting \in [Ingester -> Works]
      /\ disturbed \in Disturbances
      /\ ingesting[w] # Unoccupied /\ ingesting[w].step = "begun" /\ ingestion.node # "none"
      BY <1>2, OccupiedRun DEF SaveStep, Saves, IngestionInv, IngestTypes, Unoccupied
<1>4. /\ ingesting' = [ingesting EXCEPT ![w] = [ingesting[w] EXCEPT !.step = "done"]]
      BY <1>2, <1>3 DEF Saves, Did
<1>5. /\ ingesting'[w].step = "done" /\ ingesting'[w].act = ingesting[w].act
      /\ ingesting'[w].before = ingesting[w].before /\ ingesting'[w].read = ingesting[w].read
      /\ ingesting[w].act \in Acts
      /\ \A v \in Ingester : v # w => ingesting'[v] = ingesting[v]
      BY <1>3, <1>4 DEF Works
<1>6. WorkIsFounded(w) /\ ActIsFounded(ingesting[w].act)
      BY <1>3 DEF IngestionInv, WorkIsFounded
<1>7. SourcesMatch'
      BY <1>1, <1>3, MatchStays DEF IngestionInv, SourcesMatch
<1>8. BoundsHold'
      BY <1>1, <1>3, BoundsStay
<1>9. \A r \in Role : NormalizationIsFounded(r)'
      BY <1>2, SavedNormalization
<1>10. IngestedFromOneVersion'
      BY <1>2, SavedFromOneVersion
<1>11. RunIsFounded'
  <2>1. ingestion.contract = 2 => (Mapped("authoritative")' <=> Mapped("target")')
    <3> SUFFICES ASSUME ingestion.contract = 2
                 PROVE  Mapped("authoritative")' <=> Mapped("target")'
        OBVIOUS
    <3>1. \A r \in Role : Mapped(r)' <=> (Mapped(r) \/ <<"mapping", r>> \in DOMAIN found)
          BY <1>2, SavedRows DEF Mapped, Phase
    <3> QED BY <1>2, <3>1 DEF IngestionInv, RunIsFounded, LegallyFound, Role
  <2> QED BY <1>1, <1>3, <2>1, RunStays DEF IngestionInv, RunIsFounded
<1>12. WorkIsFounded(w)'
  <2>1. PICK a \in Acts : a = ingesting[w].act
        BY <1>5
  <2>2. ActIsFounded(a)'
        BY <1>1, <1>6, <2>1, ActStays DEF KeepsTypes, IngestionInv
  <2>3. ActIsFounded(ingesting[w].act)'
        BY <1>5, <2>1, <2>2 DEF ActIsFounded
  <2>4. ingesting[w].act.kind = "normalize" /\ ingestion.contract = 1 => PageStored(ingesting[w].act)'
    <3> SUFFICES ASSUME ingesting[w].act.kind = "normalize", ingestion.contract = 1
                 PROVE  PageStored(ingesting[w].act)'
        OBVIOUS
    <3>1. PICK x \in input[ingesting[w].act.role] : x[1] = ingesting[w].act.page
          BY <1>2 DEF LegallyFound
    <3>2. ingesting[w].act.role \in Role
          BY <1>6 DEF ActIsFounded
    <3>3. x \in rows'.inputs[ingesting[w].act.role]
          BY <1>2, <3>1, <3>2, SavedRows
    <3> QED BY <1>5, <3>1, <3>3 DEF PageStored
  <2> QED BY <1>3, <1>5, <1>6, <2>3, <2>4 DEF WorkIsFounded
<1>13. \A v \in Ingester : WorkIsFounded(v)'
      BY <1>1, <1>3, <1>4, <1>12, RestStaysFounded
<1>14. UndisturbedRunIsAlone'
  <2> SUFFICES ASSUME Undisturbed' PROVE UndisturbedRunIsAlone'
      BY DEF UndisturbedRunIsAlone
  <2>1. Undisturbed
        BY <1>3 DEF Undisturbed
  <2>2. \A v \in Ingester : v # w => ingesting'[v] = Unoccupied
        BY <1>3, <1>5, <2>1, SoleWorker
  <2>3. OwnsRun(w)'
        BY <1>3, <2>1 DEF OwnsRun, IngestionInv, UndisturbedRunIsAlone
  <2>4. ASSUME NEW r \in Role PROVE \A x \in rows'.inputs[r] : x[2] = 1
    <3>1. rows'.inputs[r] = rows.inputs[r] \cup input[r]
          BY <1>2, SavedRows
    <3> QED BY <1>2, <2>1, <3>1 DEF LegallyFound, FoundedFor, IngestionInv, UndisturbedRunIsAlone
  <2> QED BY <1>3, <1>5, <2>1, <2>2, <2>3, <2>4 DEF IngestionInv, UndisturbedRunIsAlone
<1>15. CrashesFailNothing'
      BY <1>1, <1>3, FailureStays DEF Disturbances
<1> QED BY <1>1, <1>7, <1>8, <1>9, <1>10, <1>11, <1>13, <1>14, <1>15 DEF IngestionInv, KeepsTypes

LEMMA InitIsFounded ==
  IngestionInit => IngestionInv
<1> SUFFICES ASSUME IngestionInit PROVE IngestionInv
    OBVIOUS
<1>1. /\ sources = [r \in Role |-> UnboundSource]
      /\ ingestion = [contract |-> 0, node |-> "none", cursor |-> 0, frozen |-> NoAct,
                      done |-> {}, owner |-> {}, ended |-> "active"]
      /\ rows = [checkpoints |-> <<>>, invocations |-> <<>>, inputs |-> [r \in Role |-> {}],
                 version |-> 0]
      /\ ingesting = [w \in Ingester |-> Unoccupied]
      /\ disturbed = [edits |-> 0, faults |-> 0, crashes |-> 0, takeovers |-> 0]
      BY DEF IngestionInit
<1>2. /\ \A r \in Role : sources[r] = UnboundSource /\ rows.inputs[r] = {}
      /\ \A w \in Ingester : ingesting[w] = Unoccupied
      /\ DOMAIN rows.checkpoints = {} /\ rows.version = 0
      BY <1>1
<1>3. NoAct \in Acts
      BY DEF Acts, NoAct, Do, ActKind
<1>4. IngestTypes
  <2>1. UnboundSource \in SourceRows
        BY DEF UnboundSource, SourceRows
  <2>2. sources \in [Role -> SourceRows] /\ ingesting \in [Ingester -> Works]
        BY <1>1, <2>1, UnoccupiedType
  <2>3. ingestion \in Runs
        BY <1>1, <1>3 DEF Runs, Node
  <2>4. RowsOK
        BY <1>1, <1>2 DEF RowsOK
  <2>5. disturbed \in Disturbances
        BY <1>1 DEF Disturbances
  <2> QED BY <2>2, <2>3, <2>4, <2>5 DEF IngestTypes
<1>5. SourcesMatch
      BY <1>1, <1>2 DEF SourcesMatch, UnboundSource, Fetched, Role
<1>6. BoundsHold
      BY <1>1, <1>2, IngestionAssumption DEF BoundsHold, UnboundSource
<1>7. \A kind, r : Verdict(kind, r) = "missing"
      BY <1>2 DEF Verdict
<1>8. (\A r \in Role : NormalizationIsFounded(r)) /\ IngestedFromOneVersion
      BY <1>2, <1>7 DEF NormalizationIsFounded, Normalized, IngestedFromOneVersion
<1>9. RunIsFounded
      BY <1>1, <1>7 DEF RunIsFounded, Mapped
<1>10. \A w \in Ingester : WorkIsFounded(w)
      BY <1>2 DEF WorkIsFounded
<1>11. UndisturbedRunIsAlone
      BY <1>2 DEF UndisturbedRunIsAlone, UnboundSource, Fetched
<1>12. CrashesFailNothing
      BY <1>1 DEF CrashesFailNothing
<1> QED BY <1>4, <1>5, <1>6, <1>8, <1>9, <1>10, <1>11, <1>12 DEF IngestionInv

\* What a task is created with.
LEMMA CreatedPair ==
  ASSUME NEW a \in Tabular \cup {"api", "database"}, NEW t \in {"csv", "local", "database"},
         NEW v2 \in BOOLEAN, NEW v3 \in BOOLEAN, Permitted(a, t, v2, v3)
  PROVE  /\ Contract(a, t, v2, v3) \in 1..3
         /\ Contract(a, t, v2, v3) = 1 => a \in {"csv", "local"} /\ t \in {"csv", "local"}
         /\ a \in Fetched => "authoritative" \notin Snapshots(a, t)
<1>1. Contract(a, t, v2, v3) \in 1..3
      BY DEF Contract
<1>2. Contract(a, t, v2, v3) = 1 => a \in {"csv", "local"} /\ t \in {"csv", "local"}
  <2> SUFFICES ASSUME Contract(a, t, v2, v3) = 1 PROVE a \in {"csv", "local"} /\ t \in {"csv", "local"}
      OBVIOUS
  <2>1. ~(v3 /\ t = "database" /\ a # "database") /\ ~v2
        BY DEF Contract
  <2>2. ~FilesToDatabase(a, t, v3) /\ ~ApiToDatabase(a, t, v3) /\ ~DatabasePair(a, t, v2)
        BY <2>1 DEF FilesToDatabase, ApiToDatabase, DatabasePair, Tabular
  <2> QED BY <2>1, <2>2 DEF Permitted
<1>3. a \in Fetched => "authoritative" \notin Snapshots(a, t)
      BY DEF Fetched, Snapshots, BindRemoteSourceLocalTarget, BindApiDatabasePair,
             BindCsvDatabasePair, Tabular
<1> QED BY <1>1, <1>2, <1>3

LEMMA CreateKeepsInv ==
  ASSUME IngestionInv,
         NEW a \in Tabular \cup {"api", "database"}, NEW t \in {"csv", "local", "database"},
         NEW v2 \in BOOLEAN, NEW v3 \in BOOLEAN, CreateTask(a, t, v2, v3)
  PROVE  IngestionInv'
<1> DEFINE c == Contract(a, t, v2, v3)
           node == IF a \in Fetched THEN "materialize_sources" ELSE "inspect_sources"
           kindOf(r) == IF r = "target" THEN t ELSE a
<1>1. /\ c \in 1..3 /\ (c = 1 => a \in {"csv", "local"} /\ t \in {"csv", "local"})
      /\ a \in Fetched => "authoritative" \notin Snapshots(a, t)
  <2>1. Permitted(a, t, v2, v3)
        BY DEF CreateTask
  <2> QED BY <2>1, CreatedPair
<1>2. /\ ingestion.node = "none" /\ rows' = rows /\ ingesting' = ingesting /\ disturbed' = disturbed
      /\ ingestion' = [ingestion EXCEPT !.contract = c, !.cursor = 1, !.node = node]
      BY DEF CreateTask
<1>3. /\ IngestTypes
      /\ \A w \in Ingester : ingesting[w] = Unoccupied
      /\ ingestion.ended = "active" /\ ingestion.owner = {} /\ ingestion.frozen = NoAct
      /\ ingestion.done = {} /\ DOMAIN rows.checkpoints = {} /\ rows.version = 0
      /\ \A r \in Role : rows.inputs[r] = {}
      BY <1>2 DEF IngestionInv, SourcesMatch
<1>4. PICK fa \in Form(a, c), ft \in Form(t, c) :
        sources' = [r \in Role |->
            [UnboundSource EXCEPT !.kind = IF r = "target" THEN t ELSE a,
                            !.form = IF r = "target" THEN ft ELSE fa,
                            !.snapshot = r \in Snapshots(a, t)]]
      BY DEF CreateTask
<1>5. \A r \in Role :
        /\ sources'[r] \in SourceRows
        /\ sources'[r].kind = kindOf(r) /\ sources'[r].version = 1 /\ sources'[r].file = 0
        /\ sources'[r].state = "registered" /\ (sources'[r].snapshot <=> r \in Snapshots(a, t))
  <2> SUFFICES ASSUME NEW r \in Role
               PROVE  /\ sources'[r] \in SourceRows
        /\ sources'[r].kind = kindOf(r) /\ sources'[r].version = 1 /\ sources'[r].file = 0
        /\ sources'[r].state = "registered" /\ (sources'[r].snapshot <=> r \in Snapshots(a, t))
      OBVIOUS
  <2>1. fa \in {"recognized", "mappable", "broken", "empty"}
        /\ ft \in {"recognized", "mappable", "broken", "empty"}
        BY DEF Form
  <2> DEFINE f == IF r = "target" THEN ft ELSE fa
             row(b) == [UnboundSource EXCEPT !.kind = kindOf(r), !.form = f, !.snapshot = b]
  <2>2. f \in {"recognized", "mappable", "broken", "empty"} /\ kindOf(r) \in SourceKind
        BY <2>1 DEF SourceKind, Tabular
  <2>3. sources'[r] = row(r \in Snapshots(a, t))
        BY <1>4
  <2> HIDE DEF f, kindOf
  <2>4. ASSUME NEW b \in BOOLEAN
        PROVE  /\ row(b) \in SourceRows /\ row(b).kind = kindOf(r) /\ row(b).snapshot = b
               /\ row(b).version = 1 /\ row(b).file = 0 /\ row(b).state = "registered"
    <3>1. UnboundSource \in SourceRows
          BY DEF UnboundSource, SourceRows
    <3>2. UnboundSource.version = 1 /\ UnboundSource.file = 0 /\ UnboundSource.state = "registered"
          BY DEF UnboundSource
    <3> QED BY <2>2, <3>1, <3>2 DEF SourceRows
  <2> HIDE DEF row
  <2> DEFINE bound == r \in Snapshots(a, t)
  <2>5. sources'[r] = row(bound) /\ bound \in BOOLEAN
        BY <2>3
  <2> HIDE DEF bound
  <2>6. /\ sources'[r] \in SourceRows /\ sources'[r].kind = kindOf(r)
        /\ sources'[r].snapshot = bound
        /\ sources'[r].version = 1 /\ sources'[r].file = 0 /\ sources'[r].state = "registered"
        BY <2>4, <2>5
  <2>7. sources'[r].snapshot <=> bound
        BY <2>6
  <2> QED BY <2>6, <2>7 DEF bound
<1> HIDE DEF c, node
<1>6. /\ ingestion'.contract = c /\ ingestion'.node = node /\ ingestion'.cursor = 1
      /\ ingestion'.ended = "active" /\ ingestion'.owner = {} /\ ingestion'.frozen = NoAct
      /\ ingestion'.done = {} /\ ingestion' \in Runs
  <2>1. node \in Node /\ c \in 0..3 /\ ingestion \in Runs
        BY <1>1, <1>3 DEF node, Node, IngestTypes
  <2> QED BY <1>2, <1>3, <2>1 DEF Runs
<1>7. node \in {"materialize_sources", "inspect_sources"}
      /\ (node = "materialize_sources" => a \in Fetched)
      BY DEF node
<1>8. IngestTypes'
  <2>1. sources' \in [Role -> SourceRows]
    <3>1. sources' = [r \in Role |-> sources'[r]]
          BY <1>4
    <3> QED BY <1>5, <3>1
  <2>2. RowsOK' /\ ingesting' \in [Ingester -> Works] /\ disturbed' \in Disturbances
        BY <1>2, <1>3 DEF IngestTypes, RowsOK, CheckpointOK
  <2> QED BY <1>6, <2>1, <2>2 DEF IngestTypes
<1>9. SourcesMatch'
  <2>1. t \notin Fetched /\ a # "none" /\ t # "none" /\ "authoritative" \in Role /\ "target" \in Role
        BY DEF Fetched, Tabular, Role
  <2>2. kindOf("target") = t /\ kindOf("authoritative") = a
        OBVIOUS
  <2>3. ingestion'.contract # 0 /\ ingestion'.node # "none"
        BY <1>1, <1>6, <1>7
  <2>4. ingestion'.contract = 1 => \A r \in Role : sources'[r].kind \in {"csv", "local"}
        BY <1>1, <1>5, <1>6
  <2> QED BY <1>5, <1>6, <1>7, <2>1, <2>2, <2>3, <2>4 DEF SourcesMatch
<1>10. BoundsHold'
  <2>1. disturbed.edits \in Nat
        BY <1>3 DEF IngestTypes, Disturbances
  <2> QED BY <1>2, <1>5, <2>1 DEF IngestionInv, BoundsHold
<1>11. \A kind, r : Verdict(kind, r)' = "missing"
      BY <1>2, <1>3 DEF Verdict
<1>12. (\A r \in Role : NormalizationIsFounded(r)') /\ IngestedFromOneVersion'
      BY <1>2, <1>3, <1>11 DEF NormalizationIsFounded, Normalized, IngestedFromOneVersion
<1>13. RunIsFounded'
      BY <1>6, <1>7, <1>11 DEF RunIsFounded, Mapped
<1>14. \A w \in Ingester : WorkIsFounded(w)'
      BY <1>2, <1>3 DEF WorkIsFounded
<1>15. UndisturbedRunIsAlone'
  <2>1. ASSUME NEW r \in Role PROVE ~(sources'[r].kind \in Fetched /\ sources'[r].snapshot)
    <3>1. t \notin Fetched
          BY DEF Fetched
    <3> QED BY <1>1, <1>5, <2>1, <3>1 DEF Role
  <2> QED BY <1>2, <1>3, <1>5, <2>1 DEF UndisturbedRunIsAlone
<1>16. CrashesFailNothing'
      BY <1>6 DEF CrashesFailNothing
<1> QED BY <1>8, <1>9, <1>10, <1>12, <1>13, <1>14, <1>15, <1>16 DEF IngestionInv

\* A step that leaves the variables as they are.
LEMMA StutterKeepsInv ==
  ASSUME IngestionInv, UNCHANGED ingestionVars
  PROVE  IngestionInv'
<1>1. /\ sources' = sources /\ ingestion' = ingestion /\ rows' = rows
      /\ ingesting' = ingesting /\ disturbed' = disturbed
      BY DEF ingestionVars
<1>2. IngestTypes'
      BY <1>1 DEF IngestionInv, IngestTypes, RowsOK, CheckpointOK
<1>3. SourcesMatch' /\ BoundsHold'
      BY <1>1 DEF IngestionInv, SourcesMatch, BoundsHold
<1>4. \A kind, r : Verdict(kind, r)' = Verdict(kind, r)
      BY <1>1 DEF Verdict
<1>5. \A r : (Mapped(r)' <=> Mapped(r)) /\ (Normalized(r)' <=> Normalized(r))
             /\ MappedVersion(r)' = MappedVersion(r)
      BY <1>1, <1>4 DEF Mapped, Normalized, MappedVersion
<1>6. (\A r \in Role : NormalizationIsFounded(r)') /\ IngestedFromOneVersion'
      BY <1>1, <1>4, <1>5 DEF IngestionInv, NormalizationIsFounded, IngestedFromOneVersion
<1>7. (PagesDone' <=> PagesDone) /\ (CompleteInputs' <=> CompleteInputs)
      /\ \A a : PageStored(a)' <=> PageStored(a)
      BY <1>1, <1>4 DEF PagesDone, Pages, CompleteInputs, PageStored
<1>8. \A a : ActIsFounded(a)' <=> ActIsFounded(a)
      BY <1>1, <1>5, <1>7 DEF ActIsFounded
<1>9. RunIsFounded'
  <2>1. ActIsFounded(ingestion.frozen)' <=> ActIsFounded(ingestion.frozen)
        BY <1>1, <1>5, <1>7 DEF ActIsFounded
  <2> QED BY <1>1, <1>5, <1>7, <2>1 DEF IngestionInv, RunIsFounded
<1>10. ASSUME NEW w \in Ingester PROVE WorkIsFounded(w)'
  <2>1. ActIsFounded(ingesting[w].act)' <=> ActIsFounded(ingesting[w].act)
        BY <1>1, <1>5, <1>7 DEF ActIsFounded
  <2>2. PageStored(ingesting[w].act)' <=> PageStored(ingesting[w].act)
        BY <1>1 DEF PageStored
  <2> QED BY <1>1, <2>1, <2>2 DEF IngestionInv, WorkIsFounded
<1>11. UndisturbedRunIsAlone'
  <2>1. \A w \in Ingester : Stored(ingesting[w].act)' <=> Stored(ingesting[w].act)
        BY <1>1, <1>4 DEF Stored
  <2> QED BY <1>1, <2>1 DEF IngestionInv, UndisturbedRunIsAlone, Undisturbed, OwnsRun
<1>12. CrashesFailNothing'
      BY <1>1 DEF IngestionInv, CrashesFailNothing
<1> QED BY <1>2, <1>3, <1>6, <1>9, <1>10, <1>11, <1>12 DEF IngestionInv

LEMMA StepKeepsInv ==
  IngestionInv /\ [IngestionNext]_ingestionVars => IngestionInv'
<1> SUFFICES ASSUME IngestionInv, [IngestionNext]_ingestionVars PROVE IngestionInv'
    OBVIOUS
<1>1. CASE UNCHANGED ingestionVars
      BY <1>1, StutterKeepsInv
<1>2. ASSUME NEW a \in Tabular \cup {"api", "database"}, NEW t \in {"csv", "local", "database"},
             NEW v2 \in BOOLEAN, NEW v3 \in BOOLEAN, CreateTask(a, t, v2, v3)
      PROVE  IngestionInv'
      BY <1>2, CreateKeepsInv
<1>3. ASSUME NEW w \in Ingester,
             \/ QuitStep(w) \/ SaveStep(w) \/ BeginAct(w)
             \/ (AdvanceRun(w) /\ ~QuitStep(w))
             \/ Capture(w) \/ PublishStep(w) \/ CaptureFails(w) \/ MarkStep(w) \/ ReadPage(w)
      PROVE  IngestionInv'
  <2>1. AdvanceRun(w) /\ ~QuitStep(w) => MoveStep(w)
        BY AdvanceKinds DEF MoveStep
  <2> QED BY <1>3, <2>1, QuitKeepsInv, SaveKeepsInv, BeginKeepsInv, MoveKeepsInv,
             CaptureKinds, CaptureKeepsInv, PublishKeepsInv, CaptureFailsKeepsInv,
             MarkKeepsInv, ReadKinds, ReadKeepsInv
<1>4. ASSUME NEW r \in Role, EditSource(r) PROVE IngestionInv'
      BY <1>4, EditKinds, EditKeepsInv
<1>5. CASE IngestionNext
      BY <1>2, <1>3, <1>4, <1>5, StepKinds
<1> QED BY <1>1, <1>5

LEMMA InvariantHolds ==
  IngestionSpec => []IngestionInv
BY InitIsFounded, StepKeepsInv, PTL DEF IngestionSpec

-----------------------------------------------------------------------------
(* Ingestion: the theorems *)

\* The values the variables of an ingestion take.
THEOREM Ingestion_TypeOK ==
  IngestionSpec => []IngestionTypeOK
<1>1. IngestionInv => IngestionTypeOK
  <2> SUFFICES ASSUME IngestionInv PROVE IngestionTypeOK
      OBVIOUS
  <2>1. MaxDisturbances \in Nat /\ disturbed \in Disturbances
        BY IngestionAssumption DEF IngestionInv, IngestTypes
  <2>2. ASSUME NEW r \in Role
        PROVE  /\ sources[r].state \in {"registered", "ready", "failed"}
               /\ sources[r].version \in 1..(MaxDisturbances + 1)
               /\ rows.inputs[r] \subseteq Page \X Nat
    <3>1. sources[r].version \in 1..(disturbed.edits + 1) /\ disturbed.edits <= MaxDisturbances
          BY <2>1 DEF IngestionInv, BoundsHold, Disturbances
    <3>2. sources[r].version \in 1..(MaxDisturbances + 1)
          BY <2>1, <3>1 DEF Disturbances
    <3> QED BY <3>2 DEF IngestionInv, IngestTypes, SourceRows, RowsOK
  <2>3. ingestion \in Runs /\ rows.version \in Nat /\ ingesting \in [Ingester -> Works]
        BY DEF IngestionInv, IngestTypes, RowsOK
  <2>4. \A w \in Ingester : ingesting[w].step \in {"idle", "begun", "captured", "failing", "done"}
        BY <2>3 DEF Works
  <2> QED BY <2>2, <2>3, <2>4 DEF IngestionTypeOK, Runs
<1> QED BY <1>1, InvariantHolds, PTL

\* However often an owner edits a source and workers crash or take the run over
\* from each other, the inputs of a role are the rows of one version: of a
\* database the one that its mapping and its normalization were frozen at, of
\* a fetched source the one that was fetched.
THEOREM Ingestion_IngestedFromOneVersion ==
  IngestionSpec => []IngestedFromOneVersion
<1>1. IngestionInv => IngestedFromOneVersion
      BY DEF IngestionInv
<1> QED BY <1>1, InvariantHolds, PTL

\* The identity index is never built from a source that was not read to its
\* end, nor, since version 2 of the contract, from one whose mapping is not
\* resolved, nor under version 3 from an authority without rows.
THEOREM Ingestion_BuiltFromCompleteInputs ==
  IngestionSpec => []BuiltFromCompleteInputs
<1>1. IngestionInv => BuiltFromCompleteInputs
      BY DEF IngestionInv, RunIsFounded, CompleteInputs, BuiltFromCompleteInputs, Role
<1> QED BY <1>1, InvariantHolds, PTL

\* A crash at any step is survived: a run fails only for a reason from outside
\* (an edit, a fault, two workers at once, a source that was not bound or has
\* no rows), and never because it meets again what it stored before.
THEOREM Ingestion_CrashesFailNothing ==
  IngestionSpec => []CrashesFailNothing
<1>1. IngestionInv => CrashesFailNothing
      BY DEF IngestionInv
<1> QED BY <1>1, InvariantHolds, PTL

\* No step changes a checkpoint, an input row or the first target version once
\* it is there, nor replaces the file of a fetched source by another: a failed
\* capture may only drop it.
THEOREM Ingestion_StoredIsKept ==
  IngestionSpec => StoredIsKept
<1> DEFINE Kept ==
      /\ \A k \in DOMAIN rows.checkpoints :
           k \in DOMAIN rows'.checkpoints /\ rows'.checkpoints[k] = rows.checkpoints[k]
      /\ \A r \in Role : rows.inputs[r] \subseteq rows'.inputs[r]
      /\ rows.version # 0 => rows'.version = rows.version
      /\ sources.authoritative.file # 0 =>
           sources'.authoritative.file \in {sources.authoritative.file, 0}
<1>1. IngestionInv /\ [IngestionNext]_ingestionVars => [Kept]_ingestionVars
  <2> SUFFICES ASSUME IngestionInv, IngestionNext PROVE Kept
      OBVIOUS
  <2>1. ASSUME KeepsTypes, rows.version # 0 => rows'.version = rows.version,
               sources["authoritative"].file # 0 =>
                 sources'["authoritative"].file \in {sources["authoritative"].file, 0}
        PROVE  Kept
        BY <2>1 DEF KeepsTypes, Grows, CheckpointsKept
  <2>2. /\ sources \in [Role -> SourceRows] /\ "authoritative" \in Role
        /\ sources["authoritative"] \in SourceRows
        BY AuthoritativeRow DEF IngestionInv, IngestTypes
  <2>3. ASSUME NEW a \in Tabular \cup {"api", "database"}, NEW t \in {"csv", "local", "database"},
               NEW v2 \in BOOLEAN, NEW v3 \in BOOLEAN, CreateTask(a, t, v2, v3)
        PROVE  Kept
    <3>1. rows' = rows /\ sources["authoritative"].file = 0
      <4>1. ingestion.node = "none" /\ rows' = rows
            BY <2>3 DEF CreateTask
      <4>2. sources["authoritative"] = UnboundSource
            BY <2>2, <4>1 DEF IngestionInv, SourcesMatch
      <4> QED BY <4>1, <4>2 DEF UnboundSource
    <3> QED BY <3>1
  <2>4. ASSUME NEW w \in Ingester, QuitStep(w) PROVE Kept
        BY <2>1, <2>4, QuitKeepsTypes DEF QuitStep
  <2>5. ASSUME NEW w \in Ingester, SaveStep(w) PROVE Kept
        BY <2>1, <2>5, SaveKeepsTypes DEF SaveStep, Saves
  <2>6. ASSUME NEW w \in Ingester, BeginAct(w) PROVE Kept
        BY <2>1, <2>6, BeginKeepsTypes DEF BeginAct
  <2>7. ASSUME NEW w \in Ingester, MoveStep(w) PROVE Kept
        BY <2>1, <2>7, MoveKeepsTypes DEF MoveStep
  <2>8. ASSUME NEW w \in Ingester, CaptureStep(w) PROVE Kept
    <3>1. sources["authoritative"].file # 0 => sources' = sources
          BY <2>8 DEF CaptureStep
    <3> QED BY <2>1, <2>8, <3>1, CaptureKeepsTypes DEF CaptureStep
  <2>9. ASSUME NEW w \in Ingester, PublishStep(w) PROVE Kept
    <3>1. sources["authoritative"].file # 0 =>
            sources'["authoritative"].file = sources["authoritative"].file
      <4>1. CASE sources' = sources
            BY <4>1
      <4>2. CASE sources' # sources
        <5>1. /\ ~sources["authoritative"].snapshot
              /\ sources["authoritative"].kind # "api" =>
                   sources'["authoritative"].file = sources["authoritative"].file
              BY <2>2, <2>9, <4>2 DEF PublishStep, SourceRows
        <5> QED BY <5>1 DEF IngestionInv, SourcesMatch
      <4> QED BY <4>1, <4>2
    <3> QED BY <2>1, <2>9, <3>1, PublishKeepsTypes DEF PublishStep
  <2>10. ASSUME NEW w \in Ingester, CaptureFails(w) PROVE Kept
        BY <2>1, <2>10, CaptureFailsKeepsTypes DEF CaptureFails
  <2>11. ASSUME NEW w \in Ingester, MarkStep(w) PROVE Kept
    <3>1. sources'["authoritative"].file \in {sources["authoritative"].file, 0}
          BY <2>2, <2>11 DEF MarkStep, SourceRows
    <3> QED BY <2>1, <2>11, <3>1, MarkKeepsTypes DEF MarkStep
  <2>12. ASSUME NEW w \in Ingester, ReadStep(w) PROVE Kept
        BY <2>1, <2>12, ReadKeepsTypes DEF ReadStep
  <2>13. ASSUME NEW r \in Role, EditSource(r) PROVE Kept
    <3>1. EditStep(r)
          BY <2>13, EditKinds
    <3>2. sources'["authoritative"].file = sources["authoritative"].file /\ rows' = rows
          BY <2>2, <3>1 DEF EditStep, SourceRows
    <3> QED BY <2>1, <3>1, <3>2, EditKeepsTypes
  <2>14. ASSUME NEW w \in Ingester, AdvanceRun(w), ~QuitStep(w) PROVE Kept
        BY <2>7, <2>14, AdvanceKinds DEF MoveStep
  <2> HIDE DEF Kept
  <2> QED BY <2>3, <2>4, <2>5, <2>6, <2>8, <2>9, <2>10, <2>11, <2>12, <2>13, <2>14,
             StepKinds, CaptureKinds, ReadKinds
<1> QED BY <1>1, InvariantHolds, PTL DEF IngestionSpec, StoredIsKept
=============================================================================
