------------------------- MODULE KnowledgeBasesProofs -------------------------
(***************************************************************************)
(* Theorems about KnowledgeBases, for every number of requests, every set  *)
(* of bases, names and contents, and every combination of faults.          *)
(***************************************************************************)
EXTENDS KnowledgeBases, FiniteSetTheorems, TLAPS
-----------------------------------------------------------------------------
(* Strengthenings *)

\* Requests are numbered without gaps.
CallsTyped ==
    /\ \E n \in 0..MaxCalls : DOMAIN calls = 1..n
    /\ calls \in [DOMAIN calls -> CallRow]

\* Only an upload that has reached the storage has an object.
BucketOfUploads ==
    \A c \in bucket : /\ c \in DOMAIN calls
                      /\ calls[c].kind = "upload"
                      /\ calls[c].pc \notin {"new", "checked", "ready"}

\* Rows are those of finished uploads, and have their objects.
CopiesAreOver ==
    \A c \in copies : /\ c \in DOMAIN calls
                      /\ calls[c].kind = "upload"
                      /\ calls[c].pc = "over"
                      /\ c \in bucket

\* An upload on its way to its commit has stored its object.
StoredHaveObjects ==
    \A c \in DOMAIN calls :
       calls[c].kind = "upload" /\ calls[c].pc \in {"stored", "open"} => c \in bucket

\* The keys that a deletion has read are those of finished uploads into its base.
KeysWereCommitted ==
    \A d \in DOMAIN calls :
       calls[d].kind = "drop" /\ calls[d].pc \in {"ready", "open", "purging"} =>
          \A k \in calls[d].keys : /\ k \in DOMAIN calls
                                   /\ calls[k].kind = "upload"
                                   /\ calls[k].pc = "over"
                                   /\ calls[k].base = calls[d].base

\* Until the rows are deleted, a deletion knows all of them but the missed ones.
KeysAreComplete ==
    \A d \in DOMAIN calls :
       calls[d].kind = "drop" /\ calls[d].pc \in {"ready", "open"} =>
          \A k \in copies : calls[k].base = calls[d].base => k \in calls[d].keys \union missed

\* What is being purged has no row any more.
PurgedHaveNoRows ==
    \A d \in DOMAIN calls :
       calls[d].kind = "drop" /\ calls[d].pc = "purging" => calls[d].keys \intersect copies = {}

\* The row locks: no upload has inserted rows into a base that is being deleted.
DropsExclude ==
    \A d, c \in DOMAIN calls :
       /\ calls[d].kind = "drop" /\ calls[d].pc = "open"
       /\ calls[c].kind = "upload" /\ calls[c].pc = "open"
       => calls[c].base # calls[d].base

\* An upload that goes on has seen no row with its content in its base.
SeenDiffer ==
    \A c \in DOMAIN calls :
       /\ calls[c].kind = "upload"
       /\ calls[c].pc \in {"ready", "stored", "undoing", "open"} \/ c \in copies
       => \A d \in calls[c].seen : /\ d \in DOMAIN calls
                                   /\ calls[d].base = calls[c].base
                                         => calls[d].content # calls[c].content

KbInv ==
    /\ CallsTyped
    /\ BucketOfUploads
    /\ CopiesAreOver
    /\ StoredHaveObjects
    /\ KeysWereCommitted
    /\ KeysAreComplete
    /\ PurgedHaveNoRows
    /\ DropsExclude
    /\ OrphansAreExplained
    /\ SeenDiffer
-----------------------------------------------------------------------------
(* Steps of one request *)

\* A step of c changes its control state, its keys and what it has seen, and
\* nothing of the other requests.
StepOf(c) ==
    /\ c \in DOMAIN calls
    /\ calls[c].pc # "over"
    /\ calls' \in [DOMAIN calls -> CallRow]
    /\ \A d \in DOMAIN calls : d # c => calls'[d] = calls[d]
    /\ calls'[c].kind = calls[c].kind
    /\ calls'[c].base = calls[c].base
    /\ calls'[c].content = calls[c].content

\* The requests keep their identities and types.
LEMMA StepKeepsCalls ==
    ASSUME KbInv, NEW c, StepOf(c)
    PROVE  CallsTyped' /\ DOMAIN calls' = DOMAIN calls
  BY DEF KbInv, CallsTyped, StepOf

\* What Move does.
LEMMA MoveStep ==
    ASSUME KbInv, NEW c \in DOMAIN calls, calls[c].pc # "over",
           NEW pc \in CallPc, Move(c, pc)
    PROVE  /\ StepOf(c)
           /\ calls'[c] = [calls[c] EXCEPT !.pc = pc]
           /\ calls'[c].pc = pc
           /\ calls'[c].keys = calls[c].keys
           /\ calls'[c].seen = calls[c].seen
  <1>1. calls \in [DOMAIN calls -> CallRow] /\ calls[c] \in CallRow
    BY DEF KbInv, CallsTyped
  <1>2. [calls[c] EXCEPT !.pc = pc] \in CallRow
    BY <1>1 DEF CallRow
  <1>3. calls' = [calls EXCEPT ![c] = [calls[c] EXCEPT !.pc = pc]]
    BY DEF Move
  <1> QED
    BY <1>1, <1>2, <1>3 DEF StepOf, CallRow

\* A step of a create or rename request, of an upload before it stores its
\* object, or of a deletion before it reads its keys or after its work.
QuietStep(c) ==
    /\ StepOf(c)
    /\ UNCHANGED <<copies, bucket, missed, flawed>>
    /\ calls[c].kind = "upload" =>
          calls[c].pc \in {"new", "checked"} /\ calls'[c].pc \in {"checked", "over"}
    /\ calls[c].kind = "drop" =>
          /\ calls'[c].pc \in {"checked", "over"}
          /\ calls[c].pc = "purging" => calls[c].keys = {}
\* Quiet steps keep the invariant.
LEMMA QuietStepKeepsInv ==
    ASSUME KbInv, NEW c, QuietStep(c)
    PROVE  KbInv'
  <1> USE DEF QuietStep
  <1>1. /\ CallsTyped' /\ DOMAIN calls' = DOMAIN calls
        /\ c \in DOMAIN calls /\ calls[c].pc # "over"
        /\ \A d \in DOMAIN calls : d # c => calls'[d] = calls[d]
        /\ calls'[c].kind = calls[c].kind /\ calls'[c].base = calls[c].base
        /\ calls'[c].content = calls[c].content
    BY StepKeepsCalls DEF StepOf
  <1>2. BucketOfUploads'
    BY <1>1 DEF KbInv, BucketOfUploads
  <1>3. CopiesAreOver'
    BY <1>1 DEF KbInv, CopiesAreOver
  <1>4. StoredHaveObjects'
    BY <1>1 DEF KbInv, StoredHaveObjects
  <1>5. KeysWereCommitted'
    BY <1>1 DEF KbInv, KeysWereCommitted
  <1>6. KeysAreComplete'
    BY <1>1 DEF KbInv, KeysAreComplete, CopiesAreOver
  <1>7. PurgedHaveNoRows'
    BY <1>1 DEF KbInv, PurgedHaveNoRows
  <1>8. DropsExclude'
    BY <1>1 DEF KbInv, DropsExclude
  <1>9. OrphansAreExplained'
    BY <1>1 DEF KbInv, OrphansAreExplained, BucketOfUploads, MayPurge, At
  <1>10. SeenDiffer'
    BY <1>1 DEF KbInv, SeenDiffer, CopiesAreOver
  <1> QED
    BY <1>1, <1>2, <1>3, <1>4, <1>5, <1>6, <1>7, <1>8, <1>9, <1>10 DEF KbInv
-----------------------------------------------------------------------------
(* The actions *)

\* A deletion reads the keys of all rows of its base.
LEMMA ReadKeysKeepsInv ==
    ASSUME KbInv, NEW c \in Calls, ReadKeys(c)
    PROVE  KbInv'
  <1>1. /\ c \in DOMAIN calls
        /\ CallsTyped' /\ DOMAIN calls' = DOMAIN calls
        /\ \A d \in DOMAIN calls : d # c => calls'[d] = calls[d]
        /\ calls'[c].kind = calls[c].kind /\ calls'[c].base = calls[c].base
        /\ calls'[c].content = calls[c].content
        /\ calls[c].kind = "drop" /\ calls[c].pc = "checked"
        /\ calls'[c].pc = "ready" /\ calls'[c].keys = KeysOf(calls[c].base)
        /\ calls'[c].seen = calls[c].seen
        /\ UNCHANGED <<copies, bucket, missed, flawed>>
    <2>1. /\ c \in DOMAIN calls /\ calls \in [DOMAIN calls -> CallRow] /\ calls[c] \in CallRow
          /\ KeysOf(calls[c].base) \in SUBSET Calls
      <3>1. /\ c \in DOMAIN calls /\ calls \in [DOMAIN calls -> CallRow]
            /\ DOMAIN calls \subseteq Calls
        BY KbAssumption DEF KbInv, CallsTyped, ReadKeys, At, Calls
      <3> QED
        BY <3>1 DEF KbInv, CopiesAreOver, KeysOf
    <2>2. calls' = [calls EXCEPT ![c] = [calls[c] EXCEPT !.pc = "ready", !.keys = KeysOf(calls[c].base)]]
      BY <2>1 DEF ReadKeys
    <2>3. [calls[c] EXCEPT !.pc = "ready", !.keys = KeysOf(calls[c].base)] \in CallRow
      BY <2>1 DEF CallRow, CallPc
    <2>4. /\ StepOf(c) /\ calls'[c].pc = "ready" /\ calls'[c].keys = KeysOf(calls[c].base)
          /\ calls'[c].seen = calls[c].seen
      BY <2>1, <2>2, <2>3 DEF StepOf, ReadKeys, At, CallRow
    <2> QED
      BY <2>4, StepKeepsCalls DEF StepOf, ReadKeys, At
  <1>2. BucketOfUploads'
    BY <1>1 DEF KbInv, BucketOfUploads
  <1>3. CopiesAreOver'
    BY <1>1 DEF KbInv, CopiesAreOver
  <1>4. StoredHaveObjects'
    BY <1>1 DEF KbInv, StoredHaveObjects
  <1>5. KeysWereCommitted'
    BY <1>1 DEF KbInv, KeysWereCommitted, CopiesAreOver, KeysOf, InBase
  <1>6. KeysAreComplete'
    BY <1>1 DEF KbInv, KeysAreComplete, CopiesAreOver, KeysOf, InBase
  <1>7. PurgedHaveNoRows'
    BY <1>1 DEF KbInv, PurgedHaveNoRows
  <1>8. DropsExclude'
    BY <1>1 DEF KbInv, DropsExclude
  <1>9. OrphansAreExplained'
    BY <1>1 DEF KbInv, OrphansAreExplained, BucketOfUploads, MayPurge, At
  <1>10. SeenDiffer'
    BY <1>1 DEF KbInv, SeenDiffer, CopiesAreOver
  <1> QED
    BY <1>1, <1>2, <1>3, <1>4, <1>5, <1>6, <1>7, <1>8, <1>9, <1>10 DEF KbInv

\* A deletion commits: the rows go, and their keys are left to purge.
LEMMA CommitDropKeepsInv ==
    ASSUME KbInv, NEW c \in Calls, CommitDrop(c)
    PROVE  KbInv'
  <1>1. /\ c \in DOMAIN calls
        /\ CallsTyped' /\ DOMAIN calls' = DOMAIN calls
        /\ \A d \in DOMAIN calls : d # c => calls'[d] = calls[d]
        /\ calls'[c].kind = calls[c].kind /\ calls'[c].base = calls[c].base
        /\ calls'[c].content = calls[c].content
        /\ calls[c].kind = "drop" /\ calls[c].pc = "open"
        /\ calls'[c].pc = "purging" /\ calls'[c].keys = calls[c].keys /\ calls'[c].seen = calls[c].seen
        /\ copies' = copies \ InBase(calls[c].base)
        /\ UNCHANGED <<bucket, missed, flawed>>
    <2>1. c \in DOMAIN calls /\ calls[c].kind = "drop" /\ calls[c].pc = "open"
      BY DEF CommitDrop, At
    <2>2. \E pc \in CallPc : Move(c, pc)
      BY DEF CommitDrop, CallPc
    <2>3. StepOf(c) /\ calls'[c].keys = calls[c].keys /\ calls'[c].seen = calls[c].seen
      BY <2>1, <2>2, MoveStep
    <2>4. \A pc \in CallPc : Move(c, pc) => calls'[c].pc = pc
      BY <2>1, MoveStep
    <2> QED
      BY <2>1, <2>3, <2>4, StepKeepsCalls DEF StepOf, CommitDrop, CallPc
  <1>2. BucketOfUploads'
    BY <1>1 DEF KbInv, BucketOfUploads
  <1>3. CopiesAreOver'
    BY <1>1 DEF KbInv, CopiesAreOver
  <1>4. StoredHaveObjects'
    BY <1>1 DEF KbInv, StoredHaveObjects
  <1>5. KeysWereCommitted'
    BY <1>1 DEF KbInv, KeysWereCommitted
  <1>6. KeysAreComplete'
    BY <1>1 DEF KbInv, KeysAreComplete, CopiesAreOver
  <1>7. PurgedHaveNoRows'
    BY <1>1 DEF KbInv, PurgedHaveNoRows, KeysWereCommitted, InBase
  <1>8. DropsExclude'
    BY <1>1 DEF KbInv, DropsExclude
  <1>9. OrphansAreExplained'
    BY <1>1 DEF KbInv, OrphansAreExplained, MayPurge, At, BucketOfUploads, KeysAreComplete, CopiesAreOver, InBase
  <1>10. SeenDiffer'
    BY <1>1 DEF KbInv, SeenDiffer, CopiesAreOver
  <1> QED
    BY <1>1, <1>2, <1>3, <1>4, <1>5, <1>6, <1>7, <1>8, <1>9, <1>10 DEF KbInv

\* A purge deletes an object, or leaves a flaw.
LEMMA PurgeKeepsInv ==
    ASSUME KbInv, NEW c \in Calls, Purge(c)
    PROVE  KbInv'
  <1>1. /\ c \in DOMAIN calls
        /\ CallsTyped' /\ DOMAIN calls' = DOMAIN calls
        /\ \A d \in DOMAIN calls : d # c => calls'[d] = calls[d]
        /\ calls'[c].kind = calls[c].kind /\ calls'[c].base = calls[c].base
        /\ calls'[c].content = calls[c].content
        /\ calls[c].kind = "drop" /\ calls[c].pc = "purging" /\ calls'[c].pc = "purging"
        /\ calls'[c].seen = calls[c].seen
        /\ \E k \in calls[c].keys :
              /\ calls'[c].keys = calls[c].keys \ {k}
              /\ \/ bucket' = bucket \ {k} /\ flawed' = flawed
                 \/ bucket' = bucket /\ flawed' = flawed \union {k}
        /\ UNCHANGED <<copies, missed>>
    <2>1. /\ c \in DOMAIN calls /\ calls \in [DOMAIN calls -> CallRow] /\ calls[c] \in CallRow
          /\ calls[c].kind = "drop" /\ calls[c].pc = "purging"
      BY DEF KbInv, CallsTyped, Purge, MayPurge, At
    <2>2. PICK k \in calls[c].keys :
              /\ calls' = [calls EXCEPT ![c].keys = @ \ {k}]
              /\ \/ bucket' = bucket \ {k} /\ UNCHANGED <<flawed, kbFaults>>
                 \/ KbFault("object") /\ flawed' = flawed \union {k} /\ UNCHANGED bucket
      BY DEF Purge
    <2>3. calls' = [calls EXCEPT ![c] = [calls[c] EXCEPT !.keys = calls[c].keys \ {k}]]
      BY <2>1, <2>2
    <2>4. [calls[c] EXCEPT !.keys = calls[c].keys \ {k}] \in CallRow
      BY <2>1 DEF CallRow
    <2>5. /\ StepOf(c) /\ calls'[c].pc = "purging" /\ calls'[c].keys = calls[c].keys \ {k}
          /\ calls'[c].seen = calls[c].seen
      BY <2>1, <2>3, <2>4 DEF StepOf, CallRow
    <2> QED
      BY <2>1, <2>2, <2>5, StepKeepsCalls DEF StepOf, Purge
  <1>2. BucketOfUploads'
    BY <1>1 DEF KbInv, BucketOfUploads
  <1>3. CopiesAreOver'
    BY <1>1 DEF KbInv, CopiesAreOver, PurgedHaveNoRows
  <1>4. StoredHaveObjects'
    BY <1>1 DEF KbInv, StoredHaveObjects, KeysWereCommitted
  <1>5. KeysWereCommitted'
    BY <1>1 DEF KbInv, KeysWereCommitted
  <1>6. KeysAreComplete'
    BY <1>1 DEF KbInv, KeysAreComplete, CopiesAreOver
  <1>7. PurgedHaveNoRows'
    BY <1>1 DEF KbInv, PurgedHaveNoRows
  <1>8. DropsExclude'
    BY <1>1 DEF KbInv, DropsExclude
  <1>9. OrphansAreExplained'
    BY <1>1 DEF KbInv, OrphansAreExplained, MayPurge, At, BucketOfUploads
  <1>10. SeenDiffer'
    BY <1>1 DEF KbInv, SeenDiffer, CopiesAreOver
  <1> QED
    BY <1>1, <1>2, <1>3, <1>4, <1>5, <1>6, <1>7, <1>8, <1>9, <1>10 DEF KbInv

\* An upload stores its object, or fails to, and may have stored it.
LEMMA PutObjectKeepsInv ==
    ASSUME KbInv, NEW c \in Calls, PutObject(c)
    PROVE  KbInv'
  <1>1. /\ c \in DOMAIN calls
        /\ CallsTyped' /\ DOMAIN calls' = DOMAIN calls
        /\ \A d \in DOMAIN calls : d # c => calls'[d] = calls[d]
        /\ calls'[c].kind = calls[c].kind /\ calls'[c].base = calls[c].base
        /\ calls'[c].content = calls[c].content
        /\ calls[c].kind = "upload" /\ calls[c].pc = "ready"
        /\ calls'[c].keys = calls[c].keys /\ calls'[c].seen = calls[c].seen
        /\ \/ bucket' = bucket \union {c} /\ calls'[c].pc = "stored" /\ flawed' = flawed
           \/ bucket' \in {bucket, bucket \union {c}} /\ calls'[c].pc = "over" /\ flawed' = flawed \union {c}
        /\ UNCHANGED <<copies, missed>>
    <2>1. c \in DOMAIN calls /\ calls[c].kind = "upload" /\ calls[c].pc = "ready"
      BY DEF PutObject, At
    <2>2. \E pc \in CallPc : Move(c, pc)
      BY DEF PutObject, CallPc
    <2>3. StepOf(c) /\ calls'[c].keys = calls[c].keys /\ calls'[c].seen = calls[c].seen
      BY <2>1, <2>2, MoveStep
    <2>4. \A pc \in CallPc : Move(c, pc) => calls'[c].pc = pc
      BY <2>1, MoveStep
    <2> QED
      BY <2>1, <2>3, <2>4, StepKeepsCalls DEF StepOf, PutObject, CallPc
  <1>2. BucketOfUploads'
    BY <1>1 DEF KbInv, BucketOfUploads
  <1>3. CopiesAreOver'
    BY <1>1 DEF KbInv, CopiesAreOver
  <1>4. StoredHaveObjects'
    BY <1>1 DEF KbInv, StoredHaveObjects
  <1>5. KeysWereCommitted'
    BY <1>1 DEF KbInv, KeysWereCommitted
  <1>6. KeysAreComplete'
    BY <1>1 DEF KbInv, KeysAreComplete, CopiesAreOver
  <1>7. PurgedHaveNoRows'
    BY <1>1 DEF KbInv, PurgedHaveNoRows
  <1>8. DropsExclude'
    BY <1>1 DEF KbInv, DropsExclude
  <1>9. OrphansAreExplained'
    BY <1>1 DEF KbInv, OrphansAreExplained, MayPurge, At, BucketOfUploads
  <1>10. SeenDiffer'
    BY <1>1 DEF KbInv, SeenDiffer, CopiesAreOver
  <1> QED
    BY <1>1, <1>2, <1>3, <1>4, <1>5, <1>6, <1>7, <1>8, <1>9, <1>10 DEF KbInv

\* An upload inserts its rows, which a deletion of the base excludes, or has to undo.
LEMMA InsertRowsKeepsInv ==
    ASSUME KbInv, NEW c \in Calls, InsertRows(c)
    PROVE  KbInv'
  <1>1. /\ c \in DOMAIN calls
        /\ CallsTyped' /\ DOMAIN calls' = DOMAIN calls
        /\ \A d \in DOMAIN calls : d # c => calls'[d] = calls[d]
        /\ calls'[c].kind = calls[c].kind /\ calls'[c].base = calls[c].base
        /\ calls'[c].content = calls[c].content
        /\ calls[c].kind = "upload" /\ calls[c].pc = "stored"
        /\ calls'[c].keys = calls[c].keys /\ calls'[c].seen = calls[c].seen
        /\ calls'[c].pc \in {"open", "undoing"}
        /\ \A d \in DOMAIN calls : calls[d].kind = "drop" /\ calls[d].pc = "open"
              => calls[d].base # calls[c].base
        /\ UNCHANGED <<copies, bucket, missed, flawed>>
    <2>1. c \in DOMAIN calls /\ calls[c].kind = "upload" /\ calls[c].pc = "stored"
      BY DEF InsertRows, At
    <2>2. \E pc \in CallPc : Move(c, pc)
      BY DEF InsertRows, CallPc
    <2>3. StepOf(c) /\ calls'[c].keys = calls[c].keys /\ calls'[c].seen = calls[c].seen
      BY <2>1, <2>2, MoveStep
    <2>4. \A pc \in CallPc : Move(c, pc) => calls'[c].pc = pc
      BY <2>1, MoveStep
    <2> QED
      BY <2>1, <2>3, <2>4, StepKeepsCalls DEF StepOf, InsertRows, CallPc, Holding
  <1>2. BucketOfUploads'
    BY <1>1 DEF KbInv, BucketOfUploads
  <1>3. CopiesAreOver'
    BY <1>1 DEF KbInv, CopiesAreOver
  <1>4. StoredHaveObjects'
    BY <1>1 DEF KbInv, StoredHaveObjects
  <1>5. KeysWereCommitted'
    BY <1>1 DEF KbInv, KeysWereCommitted
  <1>6. KeysAreComplete'
    BY <1>1 DEF KbInv, KeysAreComplete, CopiesAreOver
  <1>7. PurgedHaveNoRows'
    BY <1>1 DEF KbInv, PurgedHaveNoRows
  <1>8. DropsExclude'
    BY <1>1 DEF KbInv, DropsExclude
  <1>9. OrphansAreExplained'
    BY <1>1 DEF KbInv, OrphansAreExplained, MayPurge, At, BucketOfUploads
  <1>10. SeenDiffer'
    BY <1>1 DEF KbInv, SeenDiffer, CopiesAreOver
  <1> QED
    BY <1>1, <1>2, <1>3, <1>4, <1>5, <1>6, <1>7, <1>8, <1>9, <1>10 DEF KbInv

\* An upload removes its object again, or leaves a flaw.
LEMMA UndoUploadKeepsInv ==
    ASSUME KbInv, NEW c \in Calls, UndoUpload(c)
    PROVE  KbInv'
  <1>1. /\ c \in DOMAIN calls
        /\ CallsTyped' /\ DOMAIN calls' = DOMAIN calls
        /\ \A d \in DOMAIN calls : d # c => calls'[d] = calls[d]
        /\ calls'[c].kind = calls[c].kind /\ calls'[c].base = calls[c].base
        /\ calls'[c].content = calls[c].content
        /\ calls[c].kind = "upload" /\ calls[c].pc = "undoing" /\ calls'[c].pc = "over"
        /\ calls'[c].keys = calls[c].keys /\ calls'[c].seen = calls[c].seen
        /\ \/ bucket' = bucket \ {c} /\ flawed' = flawed
           \/ bucket' = bucket /\ flawed' = flawed \union {c}
        /\ UNCHANGED <<copies, missed>>
    <2>1. c \in DOMAIN calls /\ calls[c].kind = "upload" /\ calls[c].pc = "undoing"
      BY DEF UndoUpload, At
    <2>2. \E pc \in CallPc : Move(c, pc)
      BY DEF UndoUpload, CallPc
    <2>3. StepOf(c) /\ calls'[c].keys = calls[c].keys /\ calls'[c].seen = calls[c].seen
      BY <2>1, <2>2, MoveStep
    <2>4. \A pc \in CallPc : Move(c, pc) => calls'[c].pc = pc
      BY <2>1, MoveStep
    <2> QED
      BY <2>1, <2>3, <2>4, StepKeepsCalls DEF StepOf, UndoUpload, CallPc
  <1>2. BucketOfUploads'
    BY <1>1 DEF KbInv, BucketOfUploads
  <1>3. CopiesAreOver'
    BY <1>1 DEF KbInv, CopiesAreOver
  <1>4. StoredHaveObjects'
    BY <1>1 DEF KbInv, StoredHaveObjects
  <1>5. KeysWereCommitted'
    BY <1>1 DEF KbInv, KeysWereCommitted
  <1>6. KeysAreComplete'
    BY <1>1 DEF KbInv, KeysAreComplete, CopiesAreOver
  <1>7. PurgedHaveNoRows'
    BY <1>1 DEF KbInv, PurgedHaveNoRows
  <1>8. DropsExclude'
    BY <1>1 DEF KbInv, DropsExclude
  <1>9. OrphansAreExplained'
    BY <1>1 DEF KbInv, OrphansAreExplained, MayPurge, At, BucketOfUploads
  <1>10. SeenDiffer'
    BY <1>1 DEF KbInv, SeenDiffer, CopiesAreOver
  <1> QED
    BY <1>1, <1>2, <1>3, <1>4, <1>5, <1>6, <1>7, <1>8, <1>9, <1>10 DEF KbInv

\* An upload commits: a deletion that has read its keys already has missed it.
LEMMA CommitRowsOfKeepsInv ==
    ASSUME KbInv, NEW c \in Calls, CommitRowsOf(c)
    PROVE  KbInv'
  <1>1. /\ c \in DOMAIN calls
        /\ CallsTyped' /\ DOMAIN calls' = DOMAIN calls
        /\ \A d \in DOMAIN calls : d # c => calls'[d] = calls[d]
        /\ calls'[c].kind = calls[c].kind /\ calls'[c].base = calls[c].base
        /\ calls'[c].content = calls[c].content
        /\ calls[c].kind = "upload" /\ calls[c].pc = "open" /\ calls'[c].pc = "over"
        /\ calls'[c].keys = calls[c].keys /\ calls'[c].seen = calls[c].seen
        /\ copies' = copies \union {c}
        /\ missed \subseteq missed'
        /\ (\E d \in DOMAIN calls : calls[d].kind = "drop" /\ calls[d].pc = "ready"
                                   /\ calls[d].base = calls[c].base) => c \in missed'
        /\ UNCHANGED <<bucket, flawed>>
    <2>1. c \in DOMAIN calls /\ calls[c].kind = "upload" /\ calls[c].pc = "open"
      BY DEF CommitRowsOf, At
    <2>2. \E pc \in CallPc : Move(c, pc)
      BY DEF CommitRowsOf, CallPc
    <2>3. StepOf(c) /\ calls'[c].keys = calls[c].keys /\ calls'[c].seen = calls[c].seen
      BY <2>1, <2>2, MoveStep
    <2>4. \A pc \in CallPc : Move(c, pc) => calls'[c].pc = pc
      BY <2>1, MoveStep
    <2> QED
      BY <2>1, <2>3, <2>4, StepKeepsCalls DEF StepOf, CommitRowsOf, CallPc, At
  <1>2. BucketOfUploads'
    BY <1>1 DEF KbInv, BucketOfUploads
  <1>3. CopiesAreOver'
    BY <1>1 DEF KbInv, CopiesAreOver, StoredHaveObjects
  <1>4. StoredHaveObjects'
    BY <1>1 DEF KbInv, StoredHaveObjects
  <1>5. KeysWereCommitted'
    BY <1>1 DEF KbInv, KeysWereCommitted
  <1>6. KeysAreComplete'
    BY <1>1 DEF KbInv, KeysAreComplete, CopiesAreOver, DropsExclude
  <1>7. PurgedHaveNoRows'
    BY <1>1 DEF KbInv, PurgedHaveNoRows, KeysWereCommitted
  <1>8. DropsExclude'
    BY <1>1 DEF KbInv, DropsExclude
  <1>9. OrphansAreExplained'
    BY <1>1 DEF KbInv, OrphansAreExplained, MayPurge, At, BucketOfUploads
  <1>10. SeenDiffer'
    BY <1>1 DEF KbInv, SeenDiffer, CopiesAreOver
  <1> QED
    BY <1>1, <1>2, <1>3, <1>4, <1>5, <1>6, <1>7, <1>8, <1>9, <1>10 DEF KbInv

\* A request is cut off, and what it was about to do with its objects is a flaw.
LEMMA AbortKeepsInv ==
    ASSUME KbInv, NEW c \in Calls, Abort(c)
    PROVE  KbInv'
  <1>1. /\ c \in DOMAIN calls
        /\ CallsTyped' /\ DOMAIN calls' = DOMAIN calls
        /\ \A d \in DOMAIN calls : d # c => calls'[d] = calls[d]
        /\ calls'[c].kind = calls[c].kind /\ calls'[c].base = calls[c].base
        /\ calls'[c].content = calls[c].content
        /\ calls[c].pc # "over" /\ calls'[c].pc = "over"
        /\ calls'[c].keys = calls[c].keys /\ calls'[c].seen = calls[c].seen
        /\ flawed' = flawed \union {c} \union (IF MayPurge(c) THEN calls[c].keys ELSE {})
        /\ UNCHANGED <<copies, bucket, missed>>
    BY MoveStep, StepKeepsCalls DEF Abort, At, StepOf, CallPc
  <1>2. BucketOfUploads'
    BY <1>1 DEF KbInv, BucketOfUploads
  <1>3. CopiesAreOver'
    BY <1>1 DEF KbInv, CopiesAreOver
  <1>4. StoredHaveObjects'
    BY <1>1 DEF KbInv, StoredHaveObjects
  <1>5. KeysWereCommitted'
    BY <1>1 DEF KbInv, KeysWereCommitted
  <1>6. KeysAreComplete'
    BY <1>1 DEF KbInv, KeysAreComplete, CopiesAreOver
  <1>7. PurgedHaveNoRows'
    BY <1>1 DEF KbInv, PurgedHaveNoRows
  <1>8. DropsExclude'
    BY <1>1 DEF KbInv, DropsExclude
  <1>9. OrphansAreExplained'
    BY <1>1 DEF KbInv, OrphansAreExplained, MayPurge, At, BucketOfUploads
  <1>10. SeenDiffer'
    BY <1>1 DEF KbInv, SeenDiffer, CopiesAreOver
  <1> QED
    BY <1>1, <1>2, <1>3, <1>4, <1>5, <1>6, <1>7, <1>8, <1>9, <1>10 DEF KbInv

\* A deletion deletes the base, unless another one has: it waits for the uploads
\* that have inserted their rows.
LEMMA DropRowKeepsInv ==
    ASSUME KbInv, NEW c \in Calls, DropRow(c)
    PROVE  KbInv'
  <1>1. /\ c \in DOMAIN calls /\ calls[c].kind = "drop" /\ calls[c].pc = "ready"
        /\ UNCHANGED <<copies, bucket, missed, flawed>>
        /\ \A d \in DOMAIN calls : calls[d].kind = "upload" /\ calls[d].pc = "open"
              => calls[d].base # calls[c].base
    BY DEF DropRow, At, Sharing, InBase
  <1>2. CASE Move(c, "over")
    <2>1. QuietStep(c)
      BY <1>1, <1>2, MoveStep DEF QuietStep, CallPc
    <2> QED
      BY <2>1, QuietStepKeepsInv
  <1>3. CASE Move(c, "open")
    <2>1. /\ c \in DOMAIN calls
          /\ CallsTyped' /\ DOMAIN calls' = DOMAIN calls
          /\ \A d \in DOMAIN calls : d # c => calls'[d] = calls[d]
          /\ calls'[c].kind = calls[c].kind /\ calls'[c].base = calls[c].base
          /\ calls'[c].content = calls[c].content
          /\ calls'[c].pc = "open" /\ calls'[c].keys = calls[c].keys
          /\ calls'[c].seen = calls[c].seen
      <3>1. "open" \in CallPc
        BY DEF CallPc
      <3>2. /\ StepOf(c) /\ calls'[c].pc = "open"
            /\ calls'[c].keys = calls[c].keys /\ calls'[c].seen = calls[c].seen
        BY <1>1, <1>3, <3>1, MoveStep
      <3> QED
        BY <3>2, StepKeepsCalls DEF StepOf
    <2>2. BucketOfUploads'
      BY <1>1, <2>1 DEF KbInv, BucketOfUploads
    <2>3. CopiesAreOver'
      BY <1>1, <2>1 DEF KbInv, CopiesAreOver
    <2>4. StoredHaveObjects'
      BY <1>1, <2>1 DEF KbInv, StoredHaveObjects
    <2>5. KeysWereCommitted'
      BY <1>1, <2>1 DEF KbInv, KeysWereCommitted
    <2>6. KeysAreComplete'
      BY <1>1, <2>1 DEF KbInv, KeysAreComplete, CopiesAreOver
    <2>7. PurgedHaveNoRows'
      BY <1>1, <2>1 DEF KbInv, PurgedHaveNoRows
    <2>8. DropsExclude'
      BY <1>1, <2>1 DEF KbInv, DropsExclude
    <2>9. OrphansAreExplained'
      BY <1>1, <2>1 DEF KbInv, OrphansAreExplained, BucketOfUploads, MayPurge, At
    <2>10. SeenDiffer'
      BY <1>1, <2>1 DEF KbInv, SeenDiffer, CopiesAreOver
    <2> QED
      BY <1>1, <2>1, <2>2, <2>3, <2>4, <2>5, <2>6, <2>7, <2>8, <2>9, <2>10 DEF KbInv
  <1> QED
    BY <1>2, <1>3 DEF DropRow

\* An upload that finds no copy goes on, and remembers what there was.
LEMMA FindCopyKeepsInv ==
    ASSUME KbInv, NEW c \in Calls, FindCopy(c)
    PROVE  KbInv'
  <1> DEFINE next == IF Refused(c) THEN "over" ELSE "ready"
  <1>1. /\ c \in DOMAIN calls
        /\ CallsTyped' /\ DOMAIN calls' = DOMAIN calls
        /\ \A d \in DOMAIN calls : d # c => calls'[d] = calls[d]
        /\ calls'[c].kind = calls[c].kind /\ calls'[c].base = calls[c].base
        /\ calls'[c].content = calls[c].content
        /\ calls[c].kind = "upload" /\ calls[c].pc = "checked"
        /\ calls'[c].pc = next /\ calls'[c].keys = calls[c].keys
        /\ calls'[c].seen = copies
        /\ UNCHANGED <<copies, bucket, missed, flawed>>
        /\ StepOf(c)
    <2>1. /\ c \in DOMAIN calls /\ calls \in [DOMAIN calls -> CallRow] /\ calls[c] \in CallRow
          /\ DOMAIN calls \subseteq Calls
      BY KbAssumption DEF KbInv, CallsTyped, FindCopy, At, Calls
    <2>2. copies \in SUBSET Calls /\ next \in CallPc
      BY <2>1 DEF KbInv, CopiesAreOver, CallPc
    <2>3. calls' = [calls EXCEPT ![c] = [calls[c] EXCEPT !.pc = next, !.seen = copies]]
      BY <2>1 DEF FindCopy
    <2>4. [calls[c] EXCEPT !.pc = next, !.seen = copies] \in CallRow
      BY <2>1, <2>2 DEF CallRow
    <2> HIDE DEF next
    <2>5. /\ calls[c].pc = "checked" /\ calls[c].kind = "upload"
          /\ calls'[c] = [calls[c] EXCEPT !.pc = next, !.seen = copies]
          /\ calls' \in [DOMAIN calls -> CallRow]
          /\ \A d \in DOMAIN calls : d # c => calls'[d] = calls[d]
      BY <2>1, <2>3, <2>4 DEF FindCopy, At
    <2>6. /\ calls'[c].pc = next /\ calls'[c].keys = calls[c].keys /\ calls'[c].seen = copies
          /\ calls'[c].kind = calls[c].kind /\ calls'[c].base = calls[c].base
          /\ calls'[c].content = calls[c].content
      BY <2>1, <2>5 DEF CallRow
    <2>7. StepOf(c)
      BY <2>1, <2>5, <2>6 DEF StepOf
    <2> QED
      BY <2>1, <2>5, <2>6, <2>7, StepKeepsCalls DEF FindCopy
  <1>2. CASE Refused(c)
    <2>1. QuietStep(c)
      BY <1>1, <1>2 DEF QuietStep
    <2> QED
      BY <2>1, QuietStepKeepsInv
  <1>3. CASE ~Refused(c)
    <2>1. calls'[c].pc = "ready"
      BY <1>1, <1>3
    <2> HIDE DEF next
    <2>2. BucketOfUploads'
      BY <1>1, <2>1 DEF KbInv, BucketOfUploads
    <2>3. CopiesAreOver'
      BY <1>1, <2>1 DEF KbInv, CopiesAreOver
    <2>4. StoredHaveObjects'
      BY <1>1, <2>1 DEF KbInv, StoredHaveObjects
    <2>5. KeysWereCommitted'
      BY <1>1, <2>1 DEF KbInv, KeysWereCommitted
    <2>6. KeysAreComplete'
      BY <1>1, <2>1 DEF KbInv, KeysAreComplete, CopiesAreOver
    <2>7. PurgedHaveNoRows'
      BY <1>1, <2>1 DEF KbInv, PurgedHaveNoRows
    <2>8. DropsExclude'
      BY <1>1, <2>1 DEF KbInv, DropsExclude
    <2>9. OrphansAreExplained'
      BY <1>1, <2>1 DEF KbInv, OrphansAreExplained, BucketOfUploads, MayPurge, At
    <2>10. SeenDiffer'
      BY <1>1, <1>3, <2>1 DEF KbInv, SeenDiffer, CopiesAreOver, Refused, Same, KeysOf, InBase
    <2> QED
      BY <1>1, <2>1, <2>2, <2>3, <2>4, <2>5, <2>6, <2>7, <2>8, <2>9, <2>10 DEF KbInv
  <1> QED
    BY <1>2, <1>3

\* A request begins, with the next number.
LEMMA BeginCallKeepsInv ==
    ASSUME KbInv, BeginCall
    PROVE  KbInv'
  <1>1. PICK n \in 0..MaxCalls : DOMAIN calls = 1..n
    BY DEF KbInv, CallsTyped
  <1>2. Cardinality(DOMAIN calls) = n
    BY <1>1, KbAssumption, FS_Interval
  <1> DEFINE c == n + 1
  <1>3. /\ c \in Calls /\ c \notin DOMAIN calls /\ 1..c = DOMAIN calls \union {c}
        /\ UNCHANGED <<copies, bucket, missed, flawed>>
    BY <1>1, <1>2, KbAssumption DEF BeginCall, Calls
  <1>4. PICK kind \in CallKinds, b \in Bases, m \in Names \union {"NONE"}, x \in Contents :
           /\ (kind = "create") => bases[b] = "NONE" /\ m \in Names
           /\ (kind = "create") => \A d \in DOMAIN calls :
                                      calls[d].kind = "create" => calls[d].base # b
           /\ kind \in {"drop", "upload"} => m = "NONE"
           /\ (kind # "create") => bases[b] # "NONE"
           /\ (kind # "upload") => x = CHOOSE y \in Contents : TRUE
           /\ calls' = [d \in 1..(Cardinality(DOMAIN calls) + 1) |->
                 IF d < Cardinality(DOMAIN calls) + 1 THEN calls[d] ELSE
                 [kind |-> kind, pc |-> "new", base |-> b, name |-> m, content |-> x,
                  keys |-> {}, seen |-> {}]]
    BY Zenon DEF BeginCall
  <1>5. /\ DOMAIN calls' = DOMAIN calls \union {c}
        /\ \A d \in DOMAIN calls : calls'[d] = calls[d]
        /\ calls'[c] = [kind |-> kind, pc |-> "new", base |-> b, name |-> m, content |-> x,
                         keys |-> {}, seen |-> {}]
    BY <1>1, <1>2, <1>3, <1>4
  <1>6. calls'[c] \in CallRow /\ calls'[c].pc = "new" /\ calls'[c].keys = {} /\ calls'[c].seen = {}
    BY <1>5 DEF CallRow, CallPc
  <1>7. CallsTyped'
    <2>1. \E k \in 0..MaxCalls : DOMAIN calls' = 1..k
      BY <1>1, <1>3, <1>5, KbAssumption DEF Calls
    <2>2. calls' \in [DOMAIN calls' -> CallRow]
      <3>1. \A d \in 1..c : calls'[d] \in CallRow
        BY <1>3, <1>5, <1>6 DEF KbInv, CallsTyped
      <3> QED
        BY <1>2, <1>3, <1>4, <1>5, <3>1
    <2> QED
      BY <2>1, <2>2 DEF CallsTyped
  <1> HIDE DEF c
  <1>8. BucketOfUploads'
    BY <1>3, <1>5, <1>6 DEF KbInv, BucketOfUploads
  <1>9. CopiesAreOver'
    BY <1>3, <1>5, <1>6 DEF KbInv, CopiesAreOver
  <1>10. StoredHaveObjects'
    BY <1>3, <1>5, <1>6 DEF KbInv, StoredHaveObjects
  <1>11. KeysWereCommitted'
    BY <1>3, <1>5, <1>6 DEF KbInv, KeysWereCommitted
  <1>12. KeysAreComplete'
    BY <1>3, <1>5, <1>6 DEF KbInv, KeysAreComplete, CopiesAreOver
  <1>13. PurgedHaveNoRows'
    BY <1>3, <1>5, <1>6 DEF KbInv, PurgedHaveNoRows
  <1>14. DropsExclude'
    BY <1>3, <1>5, <1>6 DEF KbInv, DropsExclude
  <1>15. OrphansAreExplained'
    BY <1>3, <1>5, <1>6 DEF KbInv, OrphansAreExplained, BucketOfUploads, MayPurge, At
  <1>16. SeenDiffer'
    BY <1>3, <1>5, <1>6 DEF KbInv, SeenDiffer, CopiesAreOver
  <1> QED
    BY <1>7, <1>8, <1>9, <1>10, <1>11, <1>12, <1>13, <1>14, <1>15, <1>16 DEF KbInv

\* The steps that touch neither rows nor objects are quiet.
LEMMA NamesAreQuiet ==
    ASSUME KbInv, NEW c \in Calls, CheckName(c) \/ WriteName(c) \/ CommitName(c)
    PROVE  QuietStep(c)
  <1>1. /\ c \in DOMAIN calls /\ calls \in [DOMAIN calls -> CallRow] /\ calls[c] \in CallRow
        /\ calls[c].kind \in {"create", "rename"} /\ calls[c].pc # "over"
        /\ UNCHANGED <<copies, bucket, missed, flawed>>
    BY DEF KbInv, CallsTyped, CheckName, WriteName, CommitName, At
  <1>2. NewName(c) \in Names \union {"NONE"}
    BY <1>1 DEF NewName, CallRow
  <1>3. CASE CommitName(c)
    <2>1. "over" \in CallPc /\ Move(c, "over")
      BY <1>3 DEF CommitName, CallPc
    <2> QED
      BY <1>1, <2>1, MoveStep DEF QuietStep
  <1>4. CASE \E pc \in CallPc : calls' = [calls EXCEPT ![c].pc = pc, ![c].name = NewName(c)]
    <2>1. PICK pc \in CallPc : calls' = [calls EXCEPT ![c] =
                                 [calls[c] EXCEPT !.pc = pc, !.name = NewName(c)]]
      BY <1>1, <1>4
    <2>2. [calls[c] EXCEPT !.pc = pc, !.name = NewName(c)] \in CallRow
      BY <1>1, <1>2 DEF CallRow
    <2>3. /\ calls' \in [DOMAIN calls -> CallRow]
          /\ calls'[c] = [calls[c] EXCEPT !.pc = pc, !.name = NewName(c)]
          /\ \A d \in DOMAIN calls : d # c => calls'[d] = calls[d]
      BY <1>1, <2>1, <2>2
    <2>4. /\ calls'[c].kind = calls[c].kind /\ calls'[c].base = calls[c].base
          /\ calls'[c].content = calls[c].content
      BY <1>1, <2>3 DEF CallRow
    <2> QED
      BY <1>1, <2>3, <2>4 DEF QuietStep, StepOf
  <1>5. CASE CheckName(c)
    <2>1. \E pc \in CallPc : calls' = [calls EXCEPT ![c].pc = pc, ![c].name = NewName(c)]
      BY <1>5 DEF CheckName, CallPc
    <2> QED
      BY <1>4, <2>1
  <1>6. CASE WriteName(c)
    <2>1. \E pc \in CallPc : calls' = [calls EXCEPT ![c].pc = pc, ![c].name = NewName(c)]
      BY <1>6 DEF WriteName, CallPc
    <2> QED
      BY <1>4, <2>1
  <1> QED
    BY <1>3, <1>5, <1>6

\* The look-ups, and the end of a purge, are quiet too.
LEMMA LookUpsAreQuiet ==
    ASSUME KbInv, NEW c \in Calls, FindBase(c) \/ FindTarget(c) \/ Purged(c)
    PROVE  QuietStep(c)
  <1>1. PICK pc \in {"checked", "over"} : Move(c, pc)
    BY DEF FindBase, FindTarget, Purged, FileVerdicts
  <1>2. /\ c \in DOMAIN calls
        /\ calls[c].kind = "drop" \/ (calls[c].kind = "upload" /\ calls[c].pc = "new")
        /\ calls[c].pc # "over"
        /\ calls[c].pc = "purging" => calls[c].keys = {}
        /\ UNCHANGED <<copies, bucket, missed, flawed>>
    BY DEF FindBase, FindTarget, Purged, At
  <1>3. pc \in CallPc
    BY DEF CallPc
  <1> QED
    BY <1>1, <1>2, <1>3, MoveStep DEF QuietStep
-----------------------------------------------------------------------------
(* The theorems *)

\* The invariant is inductive.
THEOREM InvariantHolds == KbSpec => []KbInv
  <1>1. KbInit => KbInv
    BY KbAssumption DEF KbInit, KbInv, CallsTyped, BucketOfUploads, CopiesAreOver,
       StoredHaveObjects, KeysWereCommitted, KeysAreComplete, PurgedHaveNoRows, DropsExclude,
       OrphansAreExplained, SeenDiffer
  <1>2. KbInv /\ [KbNext]_kbVars => KbInv'
    <2> SUFFICES ASSUME KbInv, [KbNext]_kbVars
                 PROVE  KbInv'
      OBVIOUS
    <2>1. CASE BeginCall
      BY <2>1, BeginCallKeepsInv
    <2>2. ASSUME NEW c \in Calls, CheckName(c) \/ WriteName(c) \/ CommitName(c)
          PROVE  KbInv'
      BY <2>2, NamesAreQuiet, QuietStepKeepsInv
    <2>3. ASSUME NEW c \in Calls, FindBase(c) \/ FindTarget(c) \/ Purged(c)
          PROVE  KbInv'
      BY <2>3, LookUpsAreQuiet, QuietStepKeepsInv
    <2>4. ASSUME NEW c \in Calls, ReadKeys(c) \/ DropRow(c) \/ CommitDrop(c) \/ Purge(c)
          PROVE  KbInv'
      BY <2>4, ReadKeysKeepsInv, DropRowKeepsInv, CommitDropKeepsInv, PurgeKeepsInv
    <2>5. ASSUME NEW c \in Calls, FindCopy(c) \/ PutObject(c) \/ InsertRows(c)
          PROVE  KbInv'
      BY <2>5, FindCopyKeepsInv, PutObjectKeepsInv, InsertRowsKeepsInv
    <2>6. ASSUME NEW c \in Calls, UndoUpload(c) \/ CommitRowsOf(c) \/ Abort(c)
          PROVE  KbInv'
      BY <2>6, UndoUploadKeepsInv, CommitRowsOfKeepsInv, AbortKeepsInv
    <2>7. CASE UNCHANGED kbVars
      BY <2>7 DEF kbVars, KbInv, CallsTyped, BucketOfUploads, CopiesAreOver,
         StoredHaveObjects, KeysWereCommitted, KeysAreComplete, PurgedHaveNoRows, DropsExclude,
         OrphansAreExplained, MayPurge, At, SeenDiffer
    <2> QED
      BY <2>1, <2>2, <2>3, <2>4, <2>5, <2>6, <2>7 DEF KbNext
  <1> QED
    BY <1>1, <1>2, PTL DEF KbSpec

\* No committed row lacks its object, whichever call fails (upload_document,
\* delete_knowledge_base).
THEOREM RowsAlwaysHaveObjects == KbSpec => []RowsHaveObjects
  <1>1. KbInv => RowsHaveObjects
    BY DEF KbInv, CopiesAreOver, RowsHaveObjects
  <1> QED
    BY <1>1, InvariantHolds, PTL

\* An object without a row has been spared by a fault or missed by a deletion, or
\* is about to go.
THEOREM OrphansAreAlwaysExplained == KbSpec => []OrphansAreExplained
  <1>1. KbInv => OrphansAreExplained
    BY DEF KbInv
  <1> QED
    BY <1>1, InvariantHolds, PTL

\* A base holds a content twice only if its uploads have raced
\* (find_version_by_checksum).
THEOREM OnlyRacesCopy == KbSpec => []CopiesHaveRaced
  <1>1. KbInv => CopiesHaveRaced
    BY DEF KbInv, SeenDiffer, CopiesAreOver, CopiesHaveRaced
  <1> QED
    BY <1>1, InvariantHolds, PTL
-----------------------------------------------------------------------------
(* The types of what the invariant does not need *)

MarksTyped ==
    /\ bases \in [Bases -> Names \union {"NONE", "GONE"}]
    /\ missed \subseteq Calls
    /\ flawed \subseteq Calls
    /\ kbFaults \in 0..MaxKbFaults

\* A fault is counted up to the bound.
LEMMA FaultsAreCounted ==
    ASSUME MarksTyped, NEW kind, KbFault(kind)
    PROVE  kbFaults' \in 0..MaxKbFaults
  BY KbAssumption DEF MarksTyped, KbFault

\* A request that exists is numbered, and what it has read are numbers of requests.
LEMMA CallShape ==
    ASSUME KbInv, NEW c \in DOMAIN calls
    PROVE  /\ c \in Calls /\ calls[c].base \in Bases /\ calls[c].keys \subseteq Calls
           /\ calls[c].name \in Names \union {"NONE"}
  <1>1. PICK n \in 0..MaxCalls : DOMAIN calls = 1..n
    BY DEF KbInv, CallsTyped
  <1>2. c \in Calls
    BY <1>1, KbAssumption DEF Calls
  <1>3. calls[c] \in CallRow
    BY DEF KbInv, CallsTyped
  <1> QED BY <1>2, <1>3 DEF CallRow

\* Only commits change the bases.
LEMMA CommitsKeepMarks ==
    ASSUME KbInv, MarksTyped, NEW c \in Calls, CommitName(c) \/ CommitDrop(c) \/ CommitRowsOf(c)
    PROVE  MarksTyped'
  <1>1. c \in DOMAIN calls
    BY DEF CommitName, CommitDrop, CommitRowsOf, At
  <1>2. calls[c].base \in Bases
    BY <1>1, CallShape
  <1>3. CASE CommitName(c)
    BY <1>2, <1>3 DEF CommitName, MarksTyped
  <1>4. CASE CommitDrop(c)
    BY <1>2, <1>4 DEF CommitDrop, MarksTyped
  <1>5. CASE CommitRowsOf(c)
    BY <1>5 DEF CommitRowsOf, MarksTyped
  <1> QED BY <1>3, <1>4, <1>5

\* Faults mark requests.
LEMMA FaultsKeepMarks ==
    ASSUME KbInv, MarksTyped, NEW c \in Calls,
           Purge(c) \/ PutObject(c) \/ InsertRows(c) \/ UndoUpload(c) \/ Abort(c)
    PROVE  MarksTyped'
  <1>1. c \in DOMAIN calls
    BY DEF Purge, MayPurge, PutObject, InsertRows, UndoUpload, Abort, At
  <1>2. calls[c].keys \subseteq Calls
    BY <1>1, CallShape
  <1>3. UNCHANGED <<bases, missed>>
    BY DEF Purge, PutObject, InsertRows, UndoUpload, Abort
  <1>4. UNCHANGED kbFaults \/ \E kind : KbFault(kind)
    BY DEF Purge, PutObject, InsertRows, UndoUpload, Abort
  <1>5. kbFaults' \in 0..MaxKbFaults
    BY <1>4, FaultsAreCounted DEF MarksTyped
  <1>6. flawed' \subseteq flawed \union {c} \union calls[c].keys
    BY DEF Purge, PutObject, InsertRows, UndoUpload, Abort
  <1> QED BY <1>2, <1>3, <1>5, <1>6 DEF MarksTyped

\* KbTypeOK: every variable keeps its type, for any number of requests and of faults.
THEOREM KbTypeCorrect == KbSpec => []KbTypeOK
  <1>1. KbInit => MarksTyped
    BY KbAssumption DEF KbInit, MarksTyped
  <1>2. KbInv /\ MarksTyped /\ [KbNext]_kbVars => MarksTyped'
    <2> SUFFICES ASSUME KbInv, MarksTyped, [KbNext]_kbVars
                 PROVE  MarksTyped'
      OBVIOUS
    <2>1. CASE BeginCall \/ UNCHANGED kbVars
      BY <2>1 DEF BeginCall, kbVars, MarksTyped
    <2>2. ASSUME NEW c \in Calls, CommitName(c) \/ CommitDrop(c) \/ CommitRowsOf(c)
          PROVE  MarksTyped'
      BY <2>2, CommitsKeepMarks
    <2>3. ASSUME NEW c \in Calls,
                 Purge(c) \/ PutObject(c) \/ InsertRows(c) \/ UndoUpload(c) \/ Abort(c)
          PROVE  MarksTyped'
      BY <2>3, FaultsKeepMarks
    <2>4. ASSUME NEW c \in Calls, \/ CheckName(c) \/ WriteName(c) \/ FindBase(c) \/ ReadKeys(c)
                                  \/ DropRow(c) \/ Purged(c) \/ FindTarget(c) \/ FindCopy(c)
          PROVE  MarksTyped'
      BY <2>4 DEF CheckName, WriteName, FindBase, ReadKeys, DropRow, Purged, FindTarget,
         FindCopy, MarksTyped
    <2> QED BY <2>1, <2>2, <2>3, <2>4 DEF KbNext
  <1>3. KbInv /\ MarksTyped => KbTypeOK
    <2> SUFFICES ASSUME KbInv, MarksTyped PROVE KbTypeOK
      OBVIOUS
    <2>1. DOMAIN calls \subseteq Calls /\ \A c \in DOMAIN calls : calls[c] \in CallRow
      BY CallShape DEF KbInv, CallsTyped
    <2>2. copies \subseteq DOMAIN calls /\ bucket \subseteq DOMAIN calls
      BY DEF KbInv, CopiesAreOver, BucketOfUploads
    <2> QED BY <2>1, <2>2 DEF MarksTyped, KbTypeOK
  <1> QED BY <1>1, <1>2, <1>3, InvariantHolds, PTL DEF KbSpec
=============================================================================
