------------------------------ MODULE Artifacts ------------------------------
(***************************************************************************)
(* Proof artifacts: an agent ends its attempt with `codex complete` or     *)
(* `codex block` and hands in files and links as evidence. The files are   *)
(* stored first (local disk or S3), one after the other; then one          *)
(* transaction ends the attempt and inserts a row of artifacts per proof;  *)
(* when that fails, the command removes the files it stored. Rows are also *)
(* registered without an upload (attach, REST, MCP) and deleted by         *)
(* DeleteLocalArtifact, which removes the stored file and then the row.    *)
(*                                                                         *)
(* Disk and database share no transaction, and a URL may stand in several  *)
(* rows. A row is told apart by who registered it, its URL and its         *)
(* backend; two rows alike in all three count as one.                      *)
(***************************************************************************)
EXTENDS Naturals, FiniteSets

CONSTANTS
    Call,       \* codex complete and codex block commands
    Attempt,    \* the attempts they report on
    AttemptOf,  \* the --attempt-id of each command
    Client,     \* clients that register an artifact without an upload
    Deleter,    \* DeleteLocalArtifact calls
    Blob,       \* storage locations, each named by a random token
    Store,      \* the configured backend: "local" or "s3"
    External,   \* a link to something Forge does not store
    Nobody,     \* an attempt that is still running was ended by nobody
    Other,      \* an attempt that ended without one of the commands
    NoRow,      \* the target of a deletion that is not under way
    MaxProofs   \* bound on the proofs of one command

ASSUME ArtifactsAssumption ==
    /\ AttemptOf \in [Call -> Attempt]
    /\ Call \cap Client = {}
    /\ Nobody \notin Call /\ Other \notin Call /\ Nobody # Other
    /\ External \notin Blob
    /\ Store \in {"local", "s3"}
    /\ MaxProofs \in Nat

Url == Blob \cup {External}

Row == [by : Call \cup Client, url : Url, backend : {"local", "s3"}]

ASSUME NoRowAssumption == NoRow \notin Row

VARIABLES
    content,   \* what is at a storage location: "fresh" (its token was not drawn
               \* yet), "partial", "stored" or "removed"
    rows,      \* the artifacts table
    endedBy,   \* who ended the attempt
    pc,        \* how far a command is
    requests,  \* bundle.Requests: the URLs to register
    uploaded,  \* bundle.UploadedURLs: the files stored, while cleaning up those left
    target,    \* the row a deletion has read
    emptied,   \* the deletion has removed its target's file
    littered,  \* history: locations a crash or a storage error leaves behind
    doubted,   \* history: locations whose rows were committed by a transaction
               \* that returned an error
    deleted    \* history: locations a deletion has emptied

callVars == <<pc, requests, uploaded>>
deleteVars == <<target, emptied>>
history == <<littered, doubted, deleted>>
vars == <<content, rows, endedBy, callVars, deleteVars, history>>

TypeOK ==
    /\ content \in [Blob -> {"fresh", "partial", "stored", "removed"}]
    /\ rows \subseteq Row
    /\ endedBy \in [Attempt -> Call \cup {Nobody, Other}]
    /\ pc \in [Call -> {"idle", "storing", "cleaning", "succeeded", "failed"}]
    /\ requests \in [Call -> SUBSET Url]
    /\ uploaded \in [Call -> SUBSET Blob]
    /\ target \in [Deleter -> Row \cup {NoRow}]
    /\ emptied \in [Deleter -> BOOLEAN]
    /\ littered \subseteq Blob
    /\ doubted \subseteq Blob
    /\ deleted \subseteq Blob

Init ==
    /\ content = [b \in Blob |-> "fresh"]
    /\ rows = {}
    /\ endedBy = [a \in Attempt |-> Nobody]
    /\ pc = [c \in Call |-> "idle"]
    /\ requests = [c \in Call |-> {}]
    /\ uploaded = [c \in Call |-> {}]
    /\ target = [d \in Deleter |-> NoRow]
    /\ emptied = [d \in Deleter |-> FALSE]
    /\ littered = {}
    /\ doubted = {}
    /\ deleted = {}

\* The URLs somebody may have seen: those of rows, and of rows since deleted.
Known == {r.url : r \in rows} \cup deleted \cup {External}

\* Everything but an s3:// URL counts as local.
BackendForURL(u) == IF u \in Blob THEN Store ELSE "local"

-----------------------------------------------------------------------------
(* codex complete and codex block.                                         *)

\* The arguments are valid and GetAttempt finds the attempt.
Begin(c) ==
    /\ pc[c] = "idle"
    /\ pc' = [pc EXCEPT ![c] = "storing"]
    /\ UNCHANGED <<content, rows, endedBy, requests, uploaded, deleteVars, history>>

\* A --proof that is a file is stored under a fresh token (O_EXCL).
StoreProof(c, b) ==
    /\ pc[c] = "storing"
    /\ Cardinality(requests[c]) < MaxProofs
    /\ content[b] = "fresh"
    /\ content' = [content EXCEPT ![b] = "stored"]
    /\ requests' = [requests EXCEPT ![c] = @ \cup {b}]
    /\ uploaded' = [uploaded EXCEPT ![c] = @ \cup {b}]
    /\ UNCHANGED <<rows, endedBy, pc, deleteVars, history>>

\* A --proof that is a URL is registered as it is.
ReferToProof(c, u) ==
    /\ pc[c] = "storing"
    /\ Cardinality(requests[c]) < MaxProofs
    /\ u \in Known
    /\ requests' = [requests EXCEPT ![c] = @ \cup {u}]
    /\ UNCHANGED <<content, rows, endedBy, pc, uploaded, deleteVars, history>>

\* Storing a proof fails: before anything is written (S = {}), or halfway, and
\* StoreFile leaves what it wrote. The command gives up and cleans up.
StoreProofFails(c, S) ==
    /\ pc[c] = "storing"
    /\ Cardinality(requests[c]) < MaxProofs
    /\ Cardinality(S) <= 1 /\ \A b \in S : content[b] = "fresh"
    /\ content' = [b \in Blob |-> IF b \in S THEN "partial" ELSE content[b]]
    /\ littered' = littered \cup S
    /\ pc' = [pc EXCEPT ![c] = "cleaning"]
    /\ UNCHANGED <<rows, endedBy, requests, uploaded, deleteVars, doubted, deleted>>

\* The command ends, and its bundle with it.
Return(c, result) ==
    /\ pc' = [pc EXCEPT ![c] = result]
    /\ requests' = [requests EXCEPT ![c] = {}]
    /\ uploaded' = [uploaded EXCEPT ![c] = {}]

RowsOf(c) == {[by |-> c, url |-> u, backend |-> BackendForURL(u)] : u \in requests[c]}

\* Mutant: the attempt is not required to be running.
TransitionAnyAttempt(c) ==
    /\ pc[c] = "storing"
    /\ endedBy' = [endedBy EXCEPT ![AttemptOf[c]] = c]
    /\ rows' = rows \cup RowsOf(c)

\* The transaction: the running attempt ends and the proofs get their rows.
Transition(c) ==
    /\ pc[c] = "storing"
    /\ endedBy[AttemptOf[c]] = Nobody
    /\ endedBy' = [endedBy EXCEPT ![AttemptOf[c]] = c]
    /\ rows' = rows \cup RowsOf(c)

TransitionWithArtifacts(c) ==
    /\ Transition(c)
    /\ Return(c, "succeeded")
    /\ UNCHANGED <<content, deleteVars, history>>

\* The attempt has ended, a row is refused or a statement fails: the
\* transaction is rolled back and the command cleans up.
TransitionFails(c) ==
    /\ pc[c] = "storing"
    /\ pc' = [pc EXCEPT ![c] = "cleaning"]
    /\ UNCHANGED <<content, rows, endedBy, requests, uploaded, deleteVars, history>>

\* The server commits, but the answer to COMMIT is lost: the command sees an
\* error and cleans up as if nothing had been committed.
CommitAnswerLost(c) ==
    /\ Transition(c)
    /\ pc' = [pc EXCEPT ![c] = "cleaning"]
    /\ doubted' = doubted \cup uploaded[c]
    /\ UNCHANGED <<content, requests, uploaded, deleteVars, littered, deleted>>

\* Mutant: every proof of the command is cleaned up, not only its own files.
CleanupRequested(c, b) ==
    /\ pc[c] = "cleaning"
    /\ b \in requests[c] \cap Blob
    /\ content' = [content EXCEPT ![b] = "removed"]
    /\ requests' = [requests EXCEPT ![c] = @ \ {b}]
    /\ uploaded' = [uploaded EXCEPT ![c] = @ \ {b}]
    /\ UNCHANGED <<rows, endedBy, pc, deleteVars, history>>

\* cleanupStoredProofArtifacts removes the command's files one by one.
CleanupStoredProof(c, b) ==
    /\ pc[c] = "cleaning"
    /\ b \in uploaded[c]
    /\ content' = [content EXCEPT ![b] = "removed"]
    /\ uploaded' = [uploaded EXCEPT ![c] = @ \ {b}]
    /\ UNCHANGED <<rows, endedBy, pc, requests, deleteVars, history>>

\* A file cannot be removed: a warning, and the next file's turn.
CleanupFails(c, b) ==
    /\ pc[c] = "cleaning"
    /\ b \in uploaded[c]
    /\ uploaded' = [uploaded EXCEPT ![c] = @ \ {b}]
    /\ littered' = littered \cup {b}
    /\ UNCHANGED <<content, rows, endedBy, pc, requests, deleteVars, doubted, deleted>>

\* Mutant: the command stops cleaning up at the first file.
AnswerBeforeCleanup(c) ==
    /\ pc[c] = "cleaning"
    /\ Return(c, "failed")
    /\ UNCHANGED <<content, rows, endedBy, deleteVars, history>>

AnswerFailure(c) ==
    /\ pc[c] = "cleaning"
    /\ uploaded[c] = {}
    /\ Return(c, "failed")
    /\ UNCHANGED <<content, rows, endedBy, deleteVars, history>>

\* The process stops before its transaction or during the clean-up.
Crash(c) ==
    /\ pc[c] \in {"storing", "cleaning"}
    /\ Return(c, "failed")
    /\ littered' = littered \cup uploaded[c]
    /\ UNCHANGED <<content, rows, endedBy, deleteVars, doubted, deleted>>

\* The attempt ends otherwise: it expires, or is failed or cancelled.
EndOtherwise(a) ==
    /\ endedBy[a] = Nobody
    /\ endedBy' = [endedBy EXCEPT ![a] = Other]
    /\ UNCHANGED <<content, rows, callVars, deleteVars, history>>

-----------------------------------------------------------------------------
(* Registration and deletion.                                              *)

\* Neither the URL nor whether the backend fits it is looked at. One artifact
\* per client at a time (a bound).
RegisterArtifact(k, u, backend) ==
    /\ \A r \in rows : r.by # k
    /\ u \in Known
    /\ rows' = rows \cup {[by |-> k, url |-> u, backend |-> backend]}
    /\ UNCHANGED <<content, endedBy, callVars, deleteVars, history>>

\* The deletion reads its row and goes on only with a local one.
GetArtifact(d, r) ==
    /\ target[d] = NoRow
    /\ r \in rows
    /\ r.backend = "local"
    /\ target' = [target EXCEPT ![d] = r]
    /\ UNCHANGED <<content, rows, endedBy, callVars, emptied, history>>

\* The URL must be one of the local store; a file that is gone already is no
\* error.
RemoveLocalArtifact(d) ==
    /\ target[d] # NoRow /\ ~emptied[d]
    /\ target[d].url \in Blob /\ Store = "local"
    /\ content' = [content EXCEPT ![target[d].url] = "removed"]
    /\ deleted' = deleted \cup {target[d].url}
    /\ emptied' = [emptied EXCEPT ![d] = TRUE]
    /\ UNCHANGED <<rows, endedBy, callVars, target, littered, doubted>>

\* Deleting no row, because another call was faster, is no error either.
DeleteArtifact(d) ==
    /\ emptied[d]
    /\ rows' = rows \ {target[d]}
    /\ target' = [target EXCEPT ![d] = NoRow]
    /\ emptied' = [emptied EXCEPT ![d] = FALSE]
    /\ UNCHANGED <<content, endedBy, callVars, history>>

\* The URL is not a local one, the disk or the database fails, or the process
\* stops: what was done stays done, and the call may be made again.
DeleteFails(d) ==
    /\ target[d] # NoRow
    /\ target' = [target EXCEPT ![d] = NoRow]
    /\ emptied' = [emptied EXCEPT ![d] = FALSE]
    /\ UNCHANGED <<content, rows, endedBy, callVars, history>>

-----------------------------------------------------------------------------

CallStep ==
    \E c \in Call :
        \/ Begin(c)
        \/ \E b \in Blob : StoreProof(c, b)
        \/ \E u \in Url : ReferToProof(c, u)
        \/ \E S \in SUBSET Blob : StoreProofFails(c, S)
        \/ TransitionWithArtifacts(c)
        \/ TransitionFails(c)
        \/ CommitAnswerLost(c)
        \/ \E b \in Blob : CleanupStoredProof(c, b) \/ CleanupFails(c, b)
        \/ AnswerFailure(c)
        \/ Crash(c)

DeleteStep ==
    \E d \in Deleter :
        \/ \E r \in rows : GetArtifact(d, r)
        \/ RemoveLocalArtifact(d)
        \/ DeleteArtifact(d)
        \/ DeleteFails(d)

Next ==
    \/ CallStep
    \/ DeleteStep
    \/ \E a \in Attempt : EndOtherwise(a)
    \/ \E k \in Client, u \in Url, backend \in {"local", "s3"} : RegisterArtifact(k, u, backend)

Spec == Init /\ [][Next]_vars

-----------------------------------------------------------------------------
(* What makes artifacts correct.                                           *)

\* The content behind every row is there, unless a deletion of a row with its
\* URL removed it or the answer to a COMMIT was lost: a command that fails and
\* cleans up takes nothing away from the evidence of others, whatever URLs it
\* was given and whoever ended the attempt first.
EvidenceIsKept ==
    \A r \in rows :
        r.url \in Blob => content[r.url] = "stored" \/ r.url \in doubted \cup deleted

\* No file is left without a row, except by a command under way, a crash or a
\* storage error: failed commands leave nothing, and a deletion that stops
\* halfway keeps the row by which it can be repeated.
NothingIsOrphaned ==
    \A b \in Blob \ littered :
        content[b] \in {"partial", "stored"} =>
            \/ \E r \in rows : r.url = b
            \/ \E c \in Call : pc[c] \in {"storing", "cleaning"} /\ b \in uploaded[c]

\* Of the commands that race to end an attempt only the one that ended it has
\* evidence registered.
EvidenceOfTheReporter ==
    \A r \in rows : r.by \in Call => endedBy[AttemptOf[r.by]] = r.by

=============================================================================
