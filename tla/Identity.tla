------------------------------ MODULE Identity ------------------------------
(***************************************************************************)
(* Identity verification (app/services/identity) and photographic evidence *)
(* (app/services/evidence).  A user has at most one verification record    *)
(* for each provider.  Starting a verification and processing a callback   *)
(* await providers that only compute, so in the one worker process each    *)
(* of them is one step; an upload waits for its file between the check of  *)
(* the identity and the store, and may be cut off between the file and its *)
(* row.  Transactions are numbered as they are issued, commits as they     *)
(* happen.                                                                 *)
(***************************************************************************)
EXTENDS Accounts, FiniteSets

CONSTANTS
  Configured  \* providers that have credentials

Providers == {"AADHAAR", "DIGILOCKER"}

ASSUME IdentityAssumption == Configured \subseteq Providers

VARIABLES record,   \* identity_verifications: [Users -> [Providers -> row or Nothing]]
          trail,    \* identity_verification_audits, in the order of their commit
          issued,   \* transactions issued so far: sequence of [user, provider]
          commits,  \* number of commits that changed a record
          uploads,  \* users whose upload waits for its file -> how many
          files,    \* evidence files on disk
          evidence  \* incident_evidence: sequence of [file, owner, after]

identityVars == <<record, trail, issued, commits, uploads, files, evidence>>

\* A record as the first touch creates it: updated is the commit that changed
\* it last, expired whether its expires_at has passed.
Untouched == [status |-> "UNVERIFIED", tx |-> Nothing, failure |-> Nothing,
              expired |-> FALSE, updated |-> 0]

IdentityInit ==
    /\ record = [u \in Users |-> [p \in Providers |-> Nothing]]
    /\ trail = <<>> /\ issued = <<>> /\ commits = 0
    /\ uploads = [u \in Users |-> 0] /\ files = {} /\ evidence = <<>>

Fetched(u, p) == IF record[u][p] = Nothing THEN Untouched ELSE record[u][p]

\* Rows of a user that one row can be chosen from.
Rows(u) == {record[u][p] : p \in Providers} \ {Nothing}
Newest(rows) == CHOOSE r \in rows : \A s \in rows : s.updated <= r.updated

\* get_user_verification: ORDER BY (status = 'VERIFIED'), updated_at DESC.  FALSE
\* sorts before TRUE.
Primary(u) ==
    LET others == {r \in Rows(u) : r.status # "VERIFIED"}
    IN  IF Rows(u) = {} THEN Nothing
        ELSE IF others # {} THEN Newest(others) ELSE Newest(Rows(u))

\* Mutation: a pending verification counts.
Promising(r) == r.status \in {"VERIFIED", "VERIFICATION_PENDING"} /\ ~ r.expired

Valid(r) == r.status = "VERIFIED" /\ ~ r.expired
IsVerified(u) == Primary(u) # Nothing /\ Valid(Primary(u))

Issue(u, p) == Append(issued, [user |-> u, provider |-> p])
Audit(u, p, event) == Append(trail, [user |-> u, provider |-> p, event |-> event])

\* The commit of a record: updated_at moves when a column changed or the row is
\* new.
Save(u, p, r) ==
    LET changed == record[u][p] = Nothing \/ [r EXCEPT !.updated = record[u][p].updated] # record[u][p]
    IN  /\ commits' = IF changed THEN commits + 1 ELSE commits
        /\ record' = IF changed THEN [record EXCEPT ![u][p] = [r EXCEPT !.updated = commits + 1]]
                     ELSE record

-----------------------------------------------------------------------------
(* Starting a verification.                                                *)

\* Without consent or without credentials nothing is started: the record keeps
\* its transaction and says UNVERIFIED, whatever it said before, and no audit
\* row is written.
StartRefused(u, p, consent) ==
    /\ ~ consent \/ p \notin Configured
    /\ Save(u, p, [Fetched(u, p) EXCEPT !.status = "UNVERIFIED",
                      !.failure = IF consent THEN "UNAVAILABLE" ELSE "CONSENT_REQUIRED"])
    /\ UNCHANGED <<trail, issued, uploads, files, evidence>>

StartVerification(u, p, consent) ==
    /\ consent /\ p \in Configured
    /\ issued' = Issue(u, p)
    /\ Save(u, p, [Fetched(u, p) EXCEPT !.status = "VERIFICATION_PENDING",
                      !.tx = Len(issued'), !.failure = Nothing])
    /\ trail' = Audit(u, p, "IDENTITY_VERIFICATION_STARTED")
    /\ UNCHANGED <<uploads, files, evidence>>

-----------------------------------------------------------------------------
(* The callback of a provider, posted by the client of the user.           *)

\* A failed result carries a transaction or not, and why.
Failed(tx, why) == [status |-> "VERIFICATION_FAILED", tx |-> tx, failure |-> why]
Passed(tx) == [status |-> "VERIFIED", tx |-> tx, failure |-> Nothing]

\* AadhaarProvider.handle_callback.  The nonce is compared with itself, so its
\* mismatch never happens.
AadhaarResult(tx, outcome) ==
    IF tx = Nothing THEN Failed(Nothing, "MISSING_TRANSACTION_ID")
    ELSE IF outcome = "confirmed" THEN Passed(tx)
    ELSE Failed(tx, "REJECTED")

\* DigiLockerProvider.handle_callback; without a transaction it makes one up.
DigiLockerResult(tx, outcome) ==
    CASE outcome = "error"     -> Failed(tx, "ERROR")
      [] outcome = "mismatch"  -> Failed(Nothing, "INVALID_OAUTH_STATE")
      [] outcome = "rejected"  -> Failed(Nothing, "MISSING_AUTH_CODE")
      [] outcome = "confirmed" -> Passed(tx)

Outcomes(p) == IF p = "AADHAAR" THEN {"confirmed", "rejected"}
               ELSE {"confirmed", "error", "mismatch", "rejected"}

\* Replayed: the record is VERIFIED by the transaction of the callback.
Replayed(u, p, tx) ==
    /\ Fetched(u, p).status = "VERIFIED"
    /\ tx # Nothing /\ Fetched(u, p).tx = tx

\* Mutation: any result that has a status counts as a verification.
EventTruthy(status) ==
    IF status # "UNVERIFIED" THEN "IDENTITY_VERIFIED" ELSE "IDENTITY_VERIFICATION_FAILED"

\* The event a result is recorded under.
EventOf(status) ==
    IF status = "VERIFIED" THEN "IDENTITY_VERIFIED" ELSE "IDENTITY_VERIFICATION_FAILED"

\* process_callback for any transaction the client remembers, current or not.  A
\* replay is answered from the record and changes nothing, so only the other
\* callbacks are steps.
ProcessCallback(u, p, tx, outcome) ==
    LET madeUp == p = "DIGILOCKER" /\ tx = Nothing
        bound == IF madeUp THEN Len(issued) + 1 ELSE tx
        result == IF p \notin Configured THEN Failed(Nothing, "UNAVAILABLE")
                  ELSE IF p = "AADHAAR" THEN AadhaarResult(tx, outcome)
                  ELSE DigiLockerResult(bound, outcome)
    IN  /\ ~ Replayed(u, p, tx)
        /\ issued' = IF madeUp /\ result.tx # Nothing THEN Issue(u, p) ELSE issued
        /\ Save(u, p, [Fetched(u, p) EXCEPT
               !.status = result.status,
               !.tx = IF result.tx # Nothing THEN result.tx ELSE @,
               !.failure = result.failure,
               !.expired = FALSE])
        /\ trail' = Audit(u, p, EventOf(result.status))
        /\ UNCHANGED <<uploads, files, evidence>>

\* A year passes: expires_at is in the past.
Expire(u, p) ==
    /\ record[u][p] # Nothing /\ Valid(record[u][p])
    /\ record' = [record EXCEPT ![u][p].expired = TRUE]
    /\ UNCHANGED <<trail, issued, commits, uploads, files, evidence>>

-----------------------------------------------------------------------------
(* Evidence.                                                               *)

\* require_verified_identity, then the handler waits for the file.
BeginUpload(u) ==
    /\ IsVerified(u)
    /\ uploads' = [uploads EXCEPT ![u] = @ + 1]
    /\ UNCHANGED <<record, trail, issued, commits, files, evidence>>

\* validate_image_file refuses the file, or the client goes away.
RefuseUpload(u) ==
    /\ uploads[u] > 0
    /\ uploads' = [uploads EXCEPT ![u] = @ - 1]
    /\ UNCHANGED <<record, trail, issued, commits, files, evidence>>

NewFile == Cardinality(files) + 1
Written == files' = files \cup {NewFile}
RowFor(u) == [file |-> NewFile, owner |-> u, after |-> Len(trail)]

\* store_evidence writes the file and then commits its row.
StoreEvidence(u) ==
    /\ uploads[u] > 0
    /\ uploads' = [uploads EXCEPT ![u] = @ - 1]
    /\ Written
    /\ evidence' = Append(evidence, RowFor(u))
    /\ UNCHANGED <<record, trail, issued, commits>>

\* The process ends, or the commit fails, after the file was written.
StoreCutOff(u) ==
    /\ uploads[u] > 0
    /\ uploads' = [uploads EXCEPT ![u] = @ - 1]
    /\ Written
    /\ UNCHANGED <<record, trail, issued, commits, evidence>>

-----------------------------------------------------------------------------
(* Properties.                                                             *)

\* The last audit row for user u and provider p.
LastRow(n, u, p) ==
    LET of == {m \in DOMAIN trail : trail[m].user = u /\ trail[m].provider = p}
    IN  n \in of /\ \A m \in of : m <= n

StatusAfter(event) ==
    CASE event = "IDENTITY_VERIFICATION_STARTED" -> "VERIFICATION_PENDING"
      [] event = "IDENTITY_VERIFIED"             -> "VERIFIED"
      [] event = "IDENTITY_VERIFICATION_FAILED"  -> "VERIFICATION_FAILED"

\* The status of a record is the one its last audit row explains, whatever order
\* starts, retries, replays and late callbacks come in; only a start that was
\* refused leaves UNVERIFIED, without a row of its own (service.py:148-190,
\* 229-290).
TrailExplainsStatus ==
    \A u \in Users, p \in Providers :
        record[u][p] # Nothing /\ record[u][p].status # "UNVERIFIED" =>
            \E n \in DOMAIN trail :
                LastRow(n, u, p) /\ record[u][p].status = StatusAfter(trail[n].event)

\* "Authoritatively enforces that citizen identity is verified before accepting
\* binary file payload": before every stored photograph its owner was verified by
\* a provider, even when the record has been demoted, replaced or has expired
\* while the file was on its way (evidence.py:30-60).
EvidenceHasProvenance ==
    \A i \in DOMAIN evidence :
        \E n \in 1 .. evidence[i].after :
            /\ trail[n].user = evidence[i].owner
            /\ trail[n].event = "IDENTITY_VERIFIED"

\* No row of incident_evidence is without its file, wherever a store is cut off,
\* and no two rows share one (evidence/service.py:149-178).
RowHasFile ==
    /\ \A i \in DOMAIN evidence : evidence[i].file \in files
    /\ \A i, j \in DOMAIN evidence : i # j => evidence[i].file # evidence[j].file

\* What an official opens as evidence is a file that a verified citizen uploaded.
EvidenceIsSound == EvidenceHasProvenance /\ RowHasFile

\* "Prioritize VERIFIED over PENDING over UNVERIFIED" (service.py:64): a user who
\* has a record that is verified and has not expired is a verified user.
VerifiedIsRecognised ==
    \A u \in Users : (\E r \in Rows(u) : Valid(r)) => IsVerified(u)
=============================================================================
