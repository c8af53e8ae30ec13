--------------------------- MODULE ArtifactsProofs ---------------------------
(***************************************************************************)
(* Proofs about Artifacts, for any number of commands, attempts, clients,  *)
(* deletions and storage locations, and either backend.                    *)
(*                                                                         *)
(* The properties are not inductive: that a clean-up removes nobody else's *)
(* content needs to know that the URL of a file is known to its command    *)
(* alone until a row with it is committed (OwnInv), and that what a        *)
(* command is about to register is there (RequestInv).                     *)
(***************************************************************************)
EXTENDS Artifacts, TLAPS

\* A location whose token was not drawn stands nowhere.
FreshInv ==
    \A b \in Blob : content[b] = "fresh" =>
        /\ b \notin Known
        /\ b \notin doubted
        /\ \A c \in Call : b \notin requests[c] /\ b \notin uploaded[c]

\* The files of a command are its own until its commit was left in doubt.
OwnInv ==
    \A c \in Call : \A b \in uploaded[c] :
        /\ pc[c] \in {"storing", "cleaning"}
        /\ pc[c] = "storing" => b \in requests[c]
        /\ b \notin doubted =>
              /\ b \notin Known
              /\ \A e \in Call \ {c} : b \notin requests[e] /\ b \notin uploaded[e]

\* What a command will register is there, or a deletion or a lost answer took
\* it away.
RequestInv ==
    \A c \in Call :
        /\ pc[c] = "idle" => requests[c] = {}
        /\ pc[c] = "storing" =>
              \A b \in requests[c] \cap Blob :
                  content[b] = "stored" \/ b \in doubted \cup deleted

\* A deletion works on a URL that was registered; once it has removed the
\* file, the file stays removed.
TargetInv ==
    \A d \in Deleter :
        /\ target[d] # NoRow => target[d].url \in Known
        /\ emptied[d] => /\ target[d] # NoRow
                         /\ target[d].url \in deleted
                         /\ content[target[d].url] = "removed"

ArtifactInv ==
    /\ TypeOK
    /\ FreshInv
    /\ OwnInv
    /\ RequestInv
    /\ TargetInv
    /\ EvidenceIsKept
    /\ NothingIsOrphaned
    /\ EvidenceOfTheReporter

-----------------------------------------------------------------------------

\* In the initial state nothing is stored or registered.
LEMMA ArtifactsInit == Init => ArtifactInv
  BY ArtifactsAssumption, NoRowAssumption
  DEF Init, ArtifactInv, TypeOK, FreshInv, OwnInv, RequestInv, TargetInv, EvidenceIsKept,
      NothingIsOrphaned, EvidenceOfTheReporter, Known, Url, Row

\* The rows a command registers: one for each URL of its bundle.
LEMMA RowsOfFacts ==
  ASSUME NEW c \in Call, TypeOK
  PROVE  /\ RowsOf(c) \subseteq Row
         /\ \A r \in RowsOf(c) : r.by = c /\ r.url \in requests[c]
         /\ \A u \in requests[c] : \E r \in RowsOf(c) : r.url = u
  <1>1. requests[c] \subseteq Url
    BY DEF TypeOK
  <1>2. \A u \in requests[c] : BackendForURL(u) \in {"local", "s3"}
    BY ArtifactsAssumption DEF BackendForURL
  <1>3. \A u \in requests[c] : [by |-> c, url |-> u, backend |-> BackendForURL(u)] \in RowsOf(c)
    BY DEF RowsOf
  <1>4. \A r \in RowsOf(c) : r \in Row /\ r.by = c /\ r.url \in requests[c]
    BY <1>1, <1>2 DEF RowsOf, Row
  <1> QED
    BY <1>3, <1>4

\* Only an attempt that nobody has reported on gets evidence.
LEMMA TransitionReports ==
  ASSUME TypeOK, EvidenceOfTheReporter, NEW c \in Call, Transition(c)
  PROVE  EvidenceOfTheReporter'
  <1> SUFFICES ASSUME NEW r \in rows', r.by \in Call
               PROVE  endedBy'[AttemptOf[r.by]] = r.by
    BY DEF EvidenceOfTheReporter
  <1>1. CASE r \in rows
    <2>1. endedBy[AttemptOf[r.by]] = r.by
      BY <1>1 DEF EvidenceOfTheReporter
    <2>2. AttemptOf[r.by] # AttemptOf[c]
      BY <2>1, ArtifactsAssumption DEF Transition
    <2> QED
      BY <2>1, <2>2, ArtifactsAssumption DEF Transition, TypeOK
  <1>2. CASE r \in RowsOf(c)
    BY <1>2, RowsOfFacts, ArtifactsAssumption DEF Transition, TypeOK
  <1> QED
    BY <1>1, <1>2 DEF Transition

\* A command starts with an empty bundle.
LEMMA BeginKeeps ==
  ASSUME ArtifactInv, NEW c \in Call, Begin(c)
  PROVE  ArtifactInv'
  <1>1. TypeOK'
    BY DEF ArtifactInv, TypeOK, Begin, deleteVars, history
  <1>2. FreshInv'
    BY DEF ArtifactInv, FreshInv, Known, Begin, history
  <1>3. OwnInv'
    BY DEF ArtifactInv, OwnInv, Known, Begin, history
  <1>4. RequestInv'
    BY DEF ArtifactInv, RequestInv, Begin, history
  <1>5. TargetInv'
    BY DEF ArtifactInv, TargetInv, Known, Begin, deleteVars, history
  <1>6. EvidenceIsKept'
    BY DEF ArtifactInv, EvidenceIsKept, Begin, history
  <1>7. NothingIsOrphaned'
    BY DEF ArtifactInv, NothingIsOrphaned, Begin, history
  <1>8. EvidenceOfTheReporter'
    BY DEF ArtifactInv, EvidenceOfTheReporter, Begin
  <1> QED
    BY <1>1, <1>2, <1>3, <1>4, <1>5, <1>6, <1>7, <1>8 DEF ArtifactInv

\* The new file lies at a location that stands nowhere.
LEMMA StoreProofKeeps ==
  ASSUME ArtifactInv, NEW c \in Call, NEW b \in Blob, StoreProof(c, b)
  PROVE  ArtifactInv'
  <1>1. TypeOK'
    BY DEF ArtifactInv, TypeOK, Url, StoreProof, deleteVars, history
  <1>2. FreshInv'
    BY DEF ArtifactInv, TypeOK, FreshInv, Known, StoreProof, history
  <1>3. OwnInv'
    BY DEF ArtifactInv, TypeOK, FreshInv, OwnInv, Known, StoreProof, history
  <1>4. RequestInv'
    BY DEF ArtifactInv, TypeOK, RequestInv, StoreProof, history
  <1>5. TargetInv'
    BY DEF ArtifactInv, TargetInv, Known, StoreProof, deleteVars, history
  <1>6. EvidenceIsKept'
    BY DEF ArtifactInv, EvidenceIsKept, StoreProof, history
  <1>7. NothingIsOrphaned'
    BY DEF ArtifactInv, TypeOK, NothingIsOrphaned, StoreProof, history
  <1>8. EvidenceOfTheReporter'
    BY DEF ArtifactInv, EvidenceOfTheReporter, StoreProof
  <1> QED
    BY <1>1, <1>2, <1>3, <1>4, <1>5, <1>6, <1>7, <1>8 DEF ArtifactInv

\* A URL that is known is not that of a file in some command's hands, unless in doubt.
LEMMA ReferToProofKeeps ==
  ASSUME ArtifactInv, NEW c \in Call, NEW u \in Url, ReferToProof(c, u)
  PROVE  ArtifactInv'
  <1>1. TypeOK'
    BY DEF ArtifactInv, TypeOK, ReferToProof, deleteVars, history
  <1>2. FreshInv'
    BY DEF ArtifactInv, FreshInv, Known, ReferToProof, history
  <1>3. OwnInv'
    BY DEF ArtifactInv, OwnInv, Known, ReferToProof, history
  <1>4. RequestInv'
    BY ArtifactsAssumption DEF ArtifactInv, RequestInv, EvidenceIsKept, Known, ReferToProof,
        history
  <1>5. TargetInv'
    BY DEF ArtifactInv, TargetInv, Known, ReferToProof, deleteVars, history
  <1>6. EvidenceIsKept'
    BY DEF ArtifactInv, EvidenceIsKept, ReferToProof, history
  <1>7. NothingIsOrphaned'
    BY DEF ArtifactInv, NothingIsOrphaned, ReferToProof, history
  <1>8. EvidenceOfTheReporter'
    BY DEF ArtifactInv, EvidenceOfTheReporter, ReferToProof
  <1> QED
    BY <1>1, <1>2, <1>3, <1>4, <1>5, <1>6, <1>7, <1>8 DEF ArtifactInv

\* What a failed upload leaves is counted as litter.
LEMMA StoreProofFailsKeeps ==
  ASSUME ArtifactInv, NEW c \in Call, NEW S \in SUBSET Blob, StoreProofFails(c, S)
  PROVE  ArtifactInv'
  <1>1. TypeOK'
    BY DEF ArtifactInv, TypeOK, StoreProofFails, deleteVars
  <1>2. FreshInv'
    BY DEF ArtifactInv, FreshInv, Known, StoreProofFails
  <1>3. OwnInv'
    BY DEF ArtifactInv, OwnInv, Known, StoreProofFails
  <1>4. RequestInv'
    BY DEF ArtifactInv, RequestInv, StoreProofFails
  <1>5. TargetInv'
    BY DEF ArtifactInv, TypeOK, TargetInv, Known, StoreProofFails, deleteVars
  <1>6. EvidenceIsKept'
    BY DEF ArtifactInv, EvidenceIsKept, StoreProofFails
  <1>7. NothingIsOrphaned'
    BY DEF ArtifactInv, NothingIsOrphaned, StoreProofFails
  <1>8. EvidenceOfTheReporter'
    BY DEF ArtifactInv, EvidenceOfTheReporter, StoreProofFails
  <1> QED
    BY <1>1, <1>2, <1>3, <1>4, <1>5, <1>6, <1>7, <1>8 DEF ArtifactInv

\* The rows take over from the bundle what keeps the files from being orphans.
LEMMA TransitionWithArtifactsKeeps ==
  ASSUME ArtifactInv, NEW c \in Call, TransitionWithArtifacts(c)
  PROVE  ArtifactInv'
  <1>1. TypeOK'
    BY RowsOfFacts DEF ArtifactInv, TypeOK, TransitionWithArtifacts, Transition, Return,
        deleteVars, history
  <1>2. FreshInv'
    BY RowsOfFacts DEF ArtifactInv, FreshInv, Known, TransitionWithArtifacts, Transition,
        Return, history
  <1>3. OwnInv'
    BY RowsOfFacts DEF ArtifactInv, TypeOK, OwnInv, Known, TransitionWithArtifacts, Transition,
        Return, history
  <1>4. RequestInv'
    BY DEF ArtifactInv, RequestInv, TransitionWithArtifacts, Return, history
  <1>5. TargetInv'
    BY DEF ArtifactInv, TargetInv, Known, TransitionWithArtifacts, Transition, deleteVars,
        history
  <1>6. EvidenceIsKept'
    BY RowsOfFacts DEF ArtifactInv, RequestInv, EvidenceIsKept, TransitionWithArtifacts,
        Transition, history
  <1>7. NothingIsOrphaned'
    BY RowsOfFacts DEF ArtifactInv, OwnInv, NothingIsOrphaned, TransitionWithArtifacts,
        Transition, Return, history
  <1>8. EvidenceOfTheReporter'
    BY TransitionReports DEF ArtifactInv, TransitionWithArtifacts
  <1> QED
    BY <1>1, <1>2, <1>3, <1>4, <1>5, <1>6, <1>7, <1>8 DEF ArtifactInv

\* A transaction that is rolled back changes nothing but the command.
LEMMA TransitionFailsKeeps ==
  ASSUME ArtifactInv, NEW c \in Call, TransitionFails(c)
  PROVE  ArtifactInv'
  <1>1. TypeOK'
    BY DEF ArtifactInv, TypeOK, TransitionFails, deleteVars, history
  <1>2. FreshInv'
    BY DEF ArtifactInv, FreshInv, Known, TransitionFails, history
  <1>3. OwnInv'
    BY DEF ArtifactInv, OwnInv, Known, TransitionFails, history
  <1>4. RequestInv'
    BY DEF ArtifactInv, RequestInv, TransitionFails, history
  <1>5. TargetInv'
    BY DEF ArtifactInv, TargetInv, Known, TransitionFails, deleteVars, history
  <1>6. EvidenceIsKept'
    BY DEF ArtifactInv, EvidenceIsKept, TransitionFails, history
  <1>7. NothingIsOrphaned'
    BY DEF ArtifactInv, NothingIsOrphaned, TransitionFails, history
  <1>8. EvidenceOfTheReporter'
    BY DEF ArtifactInv, EvidenceOfTheReporter, TransitionFails
  <1> QED
    BY <1>1, <1>2, <1>3, <1>4, <1>5, <1>6, <1>7, <1>8 DEF ArtifactInv

\* The rows are there, and the files are in doubt from now on.
LEMMA CommitAnswerLostKeeps ==
  ASSUME ArtifactInv, NEW c \in Call, CommitAnswerLost(c)
  PROVE  ArtifactInv'
  <1>1. TypeOK'
    BY RowsOfFacts DEF ArtifactInv, TypeOK, CommitAnswerLost, Transition, deleteVars
  <1>2. FreshInv'
    BY RowsOfFacts DEF ArtifactInv, FreshInv, Known, CommitAnswerLost, Transition
  <1>3. OwnInv'
    BY RowsOfFacts DEF ArtifactInv, OwnInv, Known, CommitAnswerLost, Transition
  <1>4. RequestInv'
    BY DEF ArtifactInv, RequestInv, CommitAnswerLost
  <1>5. TargetInv'
    BY DEF ArtifactInv, TargetInv, Known, CommitAnswerLost, Transition, deleteVars
  <1>6. EvidenceIsKept'
    BY RowsOfFacts DEF ArtifactInv, RequestInv, EvidenceIsKept, CommitAnswerLost, Transition
  <1>7. NothingIsOrphaned'
    BY DEF ArtifactInv, NothingIsOrphaned, CommitAnswerLost, Transition
  <1>8. EvidenceOfTheReporter'
    BY TransitionReports DEF ArtifactInv, CommitAnswerLost
  <1> QED
    BY <1>1, <1>2, <1>3, <1>4, <1>5, <1>6, <1>7, <1>8 DEF ArtifactInv

\* The file removed is the command's own: no row and no other command has its URL.
LEMMA CleanupStoredProofKeeps ==
  ASSUME ArtifactInv, NEW c \in Call, NEW b \in Blob, CleanupStoredProof(c, b)
  PROVE  ArtifactInv'
  <1>1. TypeOK'
    BY DEF ArtifactInv, TypeOK, CleanupStoredProof, deleteVars, history
  <1>2. FreshInv'
    BY DEF ArtifactInv, FreshInv, Known, CleanupStoredProof, history
  <1>3. OwnInv'
    BY DEF ArtifactInv, OwnInv, Known, CleanupStoredProof, history
  <1>4. RequestInv'
    BY DEF ArtifactInv, OwnInv, RequestInv, CleanupStoredProof, history
  <1>5. TargetInv'
    BY DEF ArtifactInv, TargetInv, Known, CleanupStoredProof, deleteVars, history
  <1>6. EvidenceIsKept'
    BY DEF ArtifactInv, OwnInv, EvidenceIsKept, Known, CleanupStoredProof, history
  <1>7. NothingIsOrphaned'
    BY DEF ArtifactInv, TypeOK, NothingIsOrphaned, CleanupStoredProof, history
  <1>8. EvidenceOfTheReporter'
    BY DEF ArtifactInv, EvidenceOfTheReporter, CleanupStoredProof
  <1> QED
    BY <1>1, <1>2, <1>3, <1>4, <1>5, <1>6, <1>7, <1>8 DEF ArtifactInv

\* A file that cannot be removed is counted as litter.
LEMMA CleanupFailsKeeps ==
  ASSUME ArtifactInv, NEW c \in Call, NEW b \in Blob, CleanupFails(c, b)
  PROVE  ArtifactInv'
  <1>1. TypeOK'
    BY DEF ArtifactInv, TypeOK, CleanupFails, deleteVars
  <1>2. FreshInv'
    BY DEF ArtifactInv, FreshInv, Known, CleanupFails
  <1>3. OwnInv'
    BY DEF ArtifactInv, OwnInv, Known, CleanupFails
  <1>4. RequestInv'
    BY DEF ArtifactInv, RequestInv, CleanupFails
  <1>5. TargetInv'
    BY DEF ArtifactInv, TargetInv, Known, CleanupFails, deleteVars
  <1>6. EvidenceIsKept'
    BY DEF ArtifactInv, EvidenceIsKept, CleanupFails
  <1>7. NothingIsOrphaned'
    BY DEF ArtifactInv, NothingIsOrphaned, CleanupFails
  <1>8. EvidenceOfTheReporter'
    BY DEF ArtifactInv, EvidenceOfTheReporter, CleanupFails
  <1> QED
    BY <1>1, <1>2, <1>3, <1>4, <1>5, <1>6, <1>7, <1>8 DEF ArtifactInv

\* The command holds no file any more when it answers.
LEMMA AnswerFailureKeeps ==
  ASSUME ArtifactInv, NEW c \in Call, AnswerFailure(c)
  PROVE  ArtifactInv'
  <1>1. TypeOK'
    BY DEF ArtifactInv, TypeOK, AnswerFailure, Return, deleteVars, history
  <1>2. FreshInv'
    BY DEF ArtifactInv, FreshInv, Known, AnswerFailure, Return, history
  <1>3. OwnInv'
    BY DEF ArtifactInv, OwnInv, Known, AnswerFailure, Return, history
  <1>4. RequestInv'
    BY DEF ArtifactInv, RequestInv, AnswerFailure, Return, history
  <1>5. TargetInv'
    BY DEF ArtifactInv, TargetInv, Known, AnswerFailure, deleteVars, history
  <1>6. EvidenceIsKept'
    BY DEF ArtifactInv, EvidenceIsKept, AnswerFailure, history
  <1>7. NothingIsOrphaned'
    BY DEF ArtifactInv, NothingIsOrphaned, AnswerFailure, Return, history
  <1>8. EvidenceOfTheReporter'
    BY DEF ArtifactInv, EvidenceOfTheReporter, AnswerFailure
  <1> QED
    BY <1>1, <1>2, <1>3, <1>4, <1>5, <1>6, <1>7, <1>8 DEF ArtifactInv

\* The files of a stopped command are counted as litter.
LEMMA CrashKeeps ==
  ASSUME ArtifactInv, NEW c \in Call, Crash(c)
  PROVE  ArtifactInv'
  <1>1. TypeOK'
    BY DEF ArtifactInv, TypeOK, Crash, Return, deleteVars
  <1>2. FreshInv'
    BY DEF ArtifactInv, FreshInv, Known, Crash, Return
  <1>3. OwnInv'
    BY DEF ArtifactInv, TypeOK, OwnInv, Known, Crash, Return
  <1>4. RequestInv'
    BY DEF ArtifactInv, RequestInv, Crash, Return
  <1>5. TargetInv'
    BY DEF ArtifactInv, TargetInv, Known, Crash, deleteVars
  <1>6. EvidenceIsKept'
    BY DEF ArtifactInv, EvidenceIsKept, Crash
  <1>7. NothingIsOrphaned'
    BY DEF ArtifactInv, NothingIsOrphaned, Crash, Return
  <1>8. EvidenceOfTheReporter'
    BY DEF ArtifactInv, EvidenceOfTheReporter, Crash
  <1> QED
    BY <1>1, <1>2, <1>3, <1>4, <1>5, <1>6, <1>7, <1>8 DEF ArtifactInv

\* Only an attempt nobody reported on ends otherwise.
LEMMA EndOtherwiseKeeps ==
  ASSUME ArtifactInv, NEW a \in Attempt, EndOtherwise(a)
  PROVE  ArtifactInv'
  <1>1. TypeOK'
    BY DEF ArtifactInv, TypeOK, EndOtherwise, callVars, deleteVars, history
  <1>2. FreshInv'
    BY DEF ArtifactInv, FreshInv, Known, EndOtherwise, callVars, history
  <1>3. OwnInv'
    BY DEF ArtifactInv, OwnInv, Known, EndOtherwise, callVars, history
  <1>4. RequestInv'
    BY DEF ArtifactInv, RequestInv, EndOtherwise, callVars, history
  <1>5. TargetInv'
    BY DEF ArtifactInv, TargetInv, Known, EndOtherwise, deleteVars, history
  <1>6. EvidenceIsKept'
    BY DEF ArtifactInv, EvidenceIsKept, EndOtherwise, history
  <1>7. NothingIsOrphaned'
    BY DEF ArtifactInv, NothingIsOrphaned, EndOtherwise, callVars, history
  <1>8. EvidenceOfTheReporter'
    BY ArtifactsAssumption DEF ArtifactInv, EvidenceOfTheReporter, EndOtherwise
  <1> QED
    BY <1>1, <1>2, <1>3, <1>4, <1>5, <1>6, <1>7, <1>8 DEF ArtifactInv

\* A URL that is known gets another row.
LEMMA RegisterArtifactKeeps ==
  ASSUME ArtifactInv, NEW k \in Client, NEW u \in Url, NEW s \in {"local", "s3"}, RegisterArtifact(k, u, s)
  PROVE  ArtifactInv'
  <1>1. TypeOK'
    BY DEF ArtifactInv, TypeOK, Row, RegisterArtifact, callVars, deleteVars, history
  <1>2. FreshInv'
    BY DEF ArtifactInv, FreshInv, Known, RegisterArtifact, callVars, history
  <1>3. OwnInv'
    BY DEF ArtifactInv, OwnInv, Known, RegisterArtifact, callVars, history
  <1>4. RequestInv'
    BY DEF ArtifactInv, RequestInv, RegisterArtifact, callVars, history
  <1>5. TargetInv'
    BY DEF ArtifactInv, TargetInv, Known, RegisterArtifact, deleteVars, history
  <1>6. EvidenceIsKept'
    BY ArtifactsAssumption DEF ArtifactInv, EvidenceIsKept, Known, RegisterArtifact, history
  <1>7. NothingIsOrphaned'
    BY DEF ArtifactInv, NothingIsOrphaned, RegisterArtifact, callVars, history
  <1>8. EvidenceOfTheReporter'
    BY ArtifactsAssumption DEF ArtifactInv, EvidenceOfTheReporter, RegisterArtifact
  <1> QED
    BY <1>1, <1>2, <1>3, <1>4, <1>5, <1>6, <1>7, <1>8 DEF ArtifactInv

\* The URL of the row that is read is known.
LEMMA GetArtifactKeeps ==
  ASSUME ArtifactInv, NEW d \in Deleter, NEW r \in rows, GetArtifact(d, r)
  PROVE  ArtifactInv'
  <1>1. TypeOK'
    BY DEF ArtifactInv, TypeOK, GetArtifact, callVars, history
  <1>2. FreshInv'
    BY DEF ArtifactInv, FreshInv, Known, GetArtifact, callVars, history
  <1>3. OwnInv'
    BY DEF ArtifactInv, OwnInv, Known, GetArtifact, callVars, history
  <1>4. RequestInv'
    BY DEF ArtifactInv, RequestInv, GetArtifact, callVars, history
  <1>5. TargetInv'
    BY DEF ArtifactInv, TargetInv, Known, GetArtifact, history
  <1>6. EvidenceIsKept'
    BY DEF ArtifactInv, EvidenceIsKept, GetArtifact, history
  <1>7. NothingIsOrphaned'
    BY DEF ArtifactInv, NothingIsOrphaned, GetArtifact, callVars, history
  <1>8. EvidenceOfTheReporter'
    BY DEF ArtifactInv, EvidenceOfTheReporter, GetArtifact
  <1> QED
    BY <1>1, <1>2, <1>3, <1>4, <1>5, <1>6, <1>7, <1>8 DEF ArtifactInv

\* The file removed has a known URL, which now counts as deleted.
LEMMA RemoveLocalArtifactKeeps ==
  ASSUME ArtifactInv, NEW d \in Deleter, RemoveLocalArtifact(d)
  PROVE  ArtifactInv'
  <1>1. TypeOK'
    BY DEF ArtifactInv, TypeOK, RemoveLocalArtifact, callVars
  <1>2. FreshInv'
    BY DEF ArtifactInv, TypeOK, FreshInv, Known, RemoveLocalArtifact, callVars
  <1>3. OwnInv'
    BY DEF ArtifactInv, OwnInv, TargetInv, Known, RemoveLocalArtifact, callVars
  <1>4. RequestInv'
    BY DEF ArtifactInv, RequestInv, RemoveLocalArtifact, callVars
  <1>5. TargetInv'
    BY DEF ArtifactInv, TypeOK, TargetInv, Known, RemoveLocalArtifact
  <1>6. EvidenceIsKept'
    BY DEF ArtifactInv, EvidenceIsKept, RemoveLocalArtifact
  <1>7. NothingIsOrphaned'
    BY DEF ArtifactInv, NothingIsOrphaned, RemoveLocalArtifact, callVars
  <1>8. EvidenceOfTheReporter'
    BY DEF ArtifactInv, EvidenceOfTheReporter, RemoveLocalArtifact
  <1> QED
    BY <1>1, <1>2, <1>3, <1>4, <1>5, <1>6, <1>7, <1>8 DEF ArtifactInv

\* The row goes after its file: its URL stays known, and no file loses its row.
LEMMA DeleteArtifactKeeps ==
  ASSUME ArtifactInv, NEW d \in Deleter, DeleteArtifact(d)
  PROVE  ArtifactInv'
  <1>1. TypeOK'
    BY DEF ArtifactInv, TypeOK, DeleteArtifact, callVars, history
  <1>2. FreshInv'
    BY DEF ArtifactInv, FreshInv, Known, DeleteArtifact, callVars, history
  <1>3. OwnInv'
    BY DEF ArtifactInv, OwnInv, Known, DeleteArtifact, callVars, history
  <1>4. RequestInv'
    BY DEF ArtifactInv, RequestInv, DeleteArtifact, callVars, history
  <1>5. TargetInv'
    BY DEF ArtifactInv, TypeOK, TargetInv, Known, DeleteArtifact, history
  <1>6. EvidenceIsKept'
    BY DEF ArtifactInv, EvidenceIsKept, DeleteArtifact, history
  <1>7. NothingIsOrphaned'
    BY DEF ArtifactInv, TargetInv, NothingIsOrphaned, DeleteArtifact, callVars, history
  <1>8. EvidenceOfTheReporter'
    BY DEF ArtifactInv, EvidenceOfTheReporter, DeleteArtifact
  <1> QED
    BY <1>1, <1>2, <1>3, <1>4, <1>5, <1>6, <1>7, <1>8 DEF ArtifactInv

\* A deletion that stops leaves row and file as they are.
LEMMA DeleteFailsKeeps ==
  ASSUME ArtifactInv, NEW d \in Deleter, DeleteFails(d)
  PROVE  ArtifactInv'
  <1>1. TypeOK'
    BY DEF ArtifactInv, TypeOK, DeleteFails, callVars, history
  <1>2. FreshInv'
    BY DEF ArtifactInv, FreshInv, Known, DeleteFails, callVars, history
  <1>3. OwnInv'
    BY DEF ArtifactInv, OwnInv, Known, DeleteFails, callVars, history
  <1>4. RequestInv'
    BY DEF ArtifactInv, RequestInv, DeleteFails, callVars, history
  <1>5. TargetInv'
    BY DEF ArtifactInv, TypeOK, TargetInv, Known, DeleteFails, history
  <1>6. EvidenceIsKept'
    BY DEF ArtifactInv, EvidenceIsKept, DeleteFails, history
  <1>7. NothingIsOrphaned'
    BY DEF ArtifactInv, NothingIsOrphaned, DeleteFails, callVars, history
  <1>8. EvidenceOfTheReporter'
    BY DEF ArtifactInv, EvidenceOfTheReporter, DeleteFails
  <1> QED
    BY <1>1, <1>2, <1>3, <1>4, <1>5, <1>6, <1>7, <1>8 DEF ArtifactInv

\* Every step keeps the invariant.
LEMMA ArtifactsNext == ArtifactInv /\ [Next]_vars => ArtifactInv'
  <1> SUFFICES ASSUME ArtifactInv, [Next]_vars
               PROVE  ArtifactInv'
    OBVIOUS
  <1>1. CASE CallStep
    BY <1>1, BeginKeeps, StoreProofKeeps, ReferToProofKeeps, StoreProofFailsKeeps,
       TransitionWithArtifactsKeeps, TransitionFailsKeeps, CommitAnswerLostKeeps,
       CleanupStoredProofKeeps, CleanupFailsKeeps, AnswerFailureKeeps, CrashKeeps
    DEF CallStep
  <1>2. CASE DeleteStep
    BY <1>2, GetArtifactKeeps, RemoveLocalArtifactKeeps, DeleteArtifactKeeps, DeleteFailsKeeps
    DEF DeleteStep
  <1>3. CASE \E a \in Attempt : EndOtherwise(a)
    BY <1>3, EndOtherwiseKeeps
  <1>4. CASE \E k \in Client, u \in Url, backend \in {"local", "s3"} : RegisterArtifact(k, u, backend)
    BY <1>4, RegisterArtifactKeeps
  <1>5. CASE UNCHANGED vars
    <2> USE <1>5 DEF vars, callVars, deleteVars, history, ArtifactInv
    <2>1. TypeOK' /\ FreshInv' /\ OwnInv' /\ RequestInv'
      BY DEF TypeOK, FreshInv, OwnInv, RequestInv, Known
    <2>2. TargetInv' /\ EvidenceIsKept' /\ NothingIsOrphaned' /\ EvidenceOfTheReporter'
      BY DEF TargetInv, EvidenceIsKept, NothingIsOrphaned, EvidenceOfTheReporter, Known
    <2> QED
      BY <2>1, <2>2
  <1> QED
    BY <1>1, <1>2, <1>3, <1>4, <1>5 DEF Next

\* The invariant holds in every reachable state.
THEOREM ArtifactInvHolds == Spec => []ArtifactInv
  BY ArtifactsInit, ArtifactsNext, PTL DEF Spec

-----------------------------------------------------------------------------
(* The theorems.                                                           *)

\* The tables, the disk and the commands hold values of their types.
THEOREM ArtifactsTypeCorrect == Spec => []TypeOK
  <1>1. ArtifactInv => TypeOK
    BY DEF ArtifactInv
  <1> QED
    BY <1>1, ArtifactInvHolds, PTL

\* The content behind every row is there, unless it was deleted under that URL
\* or the answer to the COMMIT of its row was lost.
THEOREM EvidenceIsKeptHolds == Spec => []EvidenceIsKept
  <1>1. ArtifactInv => EvidenceIsKept
    BY DEF ArtifactInv
  <1> QED
    BY <1>1, ArtifactInvHolds, PTL

\* Failed commands and deletions that stop halfway leave no file without a row;
\* only crashes and storage errors do.
THEOREM NothingIsOrphanedHolds == Spec => []NothingIsOrphaned
  <1>1. ArtifactInv => NothingIsOrphaned
    BY DEF ArtifactInv
  <1> QED
    BY <1>1, ArtifactInvHolds, PTL

\* Evidence of a command is registered only when it ended the attempt.
THEOREM EvidenceOfTheReporterHolds == Spec => []EvidenceOfTheReporter
  <1>1. ArtifactInv => EvidenceOfTheReporter
    BY DEF ArtifactInv
  <1> QED
    BY <1>1, ArtifactInvHolds, PTL

=============================================================================
