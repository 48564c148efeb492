---------------------------- MODULE ObjectStore ----------------------------
(***************************************************************************)
(* Content-addressed objects, the database rows that point at them, and    *)
(* the clean-up of orphans.  A request or a job stores its objects before  *)
(* its transaction commits the rows (complete-source-upload.ts,            *)
(* complete-signing.ts, flatten-signature.ts); the worker's poll lists old *)
(* objects, asks the database whether a row points at each, and deletes    *)
(* the ones without (cleanup-orphaned-objects.ts).  Every remote call is   *)
(* one step.                                                               *)
(*                                                                         *)
(* Both persistent drivers are modelled.  S3 stores an object and its      *)
(* digest metadata in one call; the filesystem driver writes the body and  *)
(* then a sidecar, and removes them in the same order.  A key is a digest, *)
(* so two objects under one key have the same bytes and the                *)
(* immutable_key_conflict branch is never taken.  Rows that point at an    *)
(* object are never deleted.                                               *)
(***************************************************************************)
EXTENDS Naturals

CONSTANTS
    Keys,           \* object keys of the prefixes revisions/, artifacts/, signatures/
    SweptKeys,      \* those of the organizations a poll sweeps (the first 25 by id)
    Writers,        \* requests and jobs that store objects
    Cleaners,       \* worker processes running the clean-up
    Grace,          \* WORKER_ORPHAN_OBJECT_TTL_MS, in ticks
    NoKey,          \* the cleaner is not looking at a key
    MaxStoreFaults  \* bound: cleaners that die in the middle of a sweep

ASSUME KeysAssumption == SweptKeys \subseteq Keys /\ NoKey \notin Keys
ASSUME GraceAssumption == Grace \in Nat \ {0}
ASSUME StoreFaultsAssumption == MaxStoreFaults \in Nat

VARIABLES
    driver,      \* OBJECT_STORAGE_DRIVER
    body,        \* body[k]: the bytes are stored
    meta,        \* meta[k]: the digest metadata (S3) or the sidecar (filesystem) is
    age,         \* age[k]: ticks since k was stored, up to Grace; 0 while it is not
    refs,        \* keys some committed row points at
    writer,      \* progress of each request or job
    cleaner,     \* progress of each sweep
    stale,       \* history: keys that were once an orphan older than Grace
    storeFaults  \* how much of MaxStoreFaults is used

storeVars == <<driver, body, meta, age, refs, writer, cleaner, stale, storeFaults>>
stores == <<body, meta, age>>

Drivers == {"s3", "filesystem"}

\* Stages of a writer: "head", the existence test of putObject is next; "put",
\* the body; "sidecar", the filesystem sidecar; "readback", getObject; "commit",
\* the transaction.  `left` are the keys still to be put of `keys`, `open` the
\* ticks since the request began.
NotWriting == [stage |-> "idle", verify |-> FALSE, key |-> NoKey, left |-> {},
               keys |-> {}, open |-> 0]
\* Stages of a cleaner: "check" the next key of `todo`, "delete" and "unlink" it.
NotSweeping == [stage |-> "idle", todo |-> {}, key |-> NoKey]
NextKey(r) == [stage |-> "check", todo |-> r.todo, key |-> NoKey]

StoreInit ==
    /\ driver \in Drivers
    /\ body = [k \in Keys |-> FALSE]
    /\ meta = [k \in Keys |-> FALSE]
    /\ age = [k \in Keys |-> 0]
    /\ refs = {}
    /\ writer = [w \in Writers |-> NotWriting]
    /\ cleaner = [c \in Cleaners |-> NotSweeping]
    /\ stale = {}
    /\ storeFaults = 0

----------------------------------------------------------------------------
(* Reading.  The filesystem driver returns null unless body and sidecar    *)
(* are there.  The digest comparisons of drivers and callers only fail on  *)
(* bytes that changed under their key, which no operation of the code does. *)

S3GetObject(k) == IF body[k] THEN "object" ELSE "absent"
FsGetObject(k) == IF body[k] /\ meta[k] THEN "object" ELSE "absent"
GetObject(k) == IF driver = "s3" THEN S3GetObject(k) ELSE FsGetObject(k)

\* What the owner of a finalized document gets for its artifact.
DownloadFinalizedArtifact(k) ==
    IF k \notin refs THEN "artifact_not_ready"
    ELSE IF GetObject(k) = "object" THEN "served" ELSE "object_not_found"

----------------------------------------------------------------------------
(* Writing.                                                                 *)

\* A handler has its bytes and knows their keys: one for an upload, a revision
\* and an artifact for a flatten job that finalizes, the signature and the
\* initials for a submission.  The first two read back what they have put.
Begin(w, verify, ks) ==
    /\ writer[w].stage = "idle"
    /\ writer' = [writer EXCEPT ![w] =
                    [stage |-> "head", verify |-> verify, key |-> NoKey, left |-> ks,
                     keys |-> ks, open |-> 0]]
    /\ UNCHANGED <<driver, stores, refs, cleaner, stale, storeFaults>>

\* The key at hand is done: the next one, or the transaction.
KeyDone(r) == [r EXCEPT !.stage = IF r.left = {} THEN "commit" ELSE "head", !.key = NoKey]

\* putObject has returned for the key at hand.
AfterPut(r) == IF r.verify THEN [r EXCEPT !.stage = "readback"] ELSE KeyDone(r)

\* Variant: putObject writes the object again although it is there.
HeadOverwrites(w, k) ==
    /\ writer[w].stage = "head"
    /\ k \in writer[w].left
    /\ writer' = [writer EXCEPT ![w] =
                    [@ EXCEPT !.key = k, !.left = @ \ {k}, !.stage = "put"]]
    /\ UNCHANGED <<driver, stores, refs, cleaner, stale, storeFaults>>

\* The existence test: the digest metadata of S3's HEAD answer, or the sidecar;
\* one without a body counts as an object.
HeadDigest(k) == meta[k]

\* putObject up to its existence test: an object that is there is left as it
\* is, age included.
Head(w, k) ==
    LET r == [writer[w] EXCEPT !.key = k, !.left = @ \ {k}]
    IN  /\ writer[w].stage = "head"
        /\ k \in writer[w].left
        /\ writer' = [writer EXCEPT ![w] =
                        IF HeadDigest(k) THEN AfterPut(r) ELSE [r EXCEPT !.stage = "put"]]
        /\ UNCHANGED <<driver, stores, refs, cleaner, stale, storeFaults>>

\* PutObjectCommand stores body and metadata; the filesystem driver only the body.
PutBody(w) ==
    LET r == writer[w]
        k == r.key
    IN  /\ r.stage = "put"
        /\ body' = [body EXCEPT ![k] = TRUE]
        /\ \/ /\ driver = "s3"
              /\ meta' = [meta EXCEPT ![k] = TRUE]
              /\ age' = [age EXCEPT ![k] = 0]
              /\ writer' = [writer EXCEPT ![w] = AfterPut(r)]
           \/ /\ driver = "filesystem"
              /\ writer' = [writer EXCEPT ![w].stage = "sidecar"]
              /\ UNCHANGED <<meta, age>>
        /\ UNCHANGED <<driver, refs, cleaner, stale, storeFaults>>

PutSidecar(w) ==
    LET r == writer[w]
        k == r.key
    IN  /\ r.stage = "sidecar"
        /\ meta' = [meta EXCEPT ![k] = TRUE]
        /\ age' = [age EXCEPT ![k] = 0]
        /\ writer' = [writer EXCEPT ![w] = AfterPut(r)]
        /\ UNCHANGED <<driver, body, refs, cleaner, stale, storeFaults>>

\* getObject after the put: a missing object ends the write with an integrity
\* error.
ReadBack(w) ==
    LET r == writer[w]
    IN  /\ r.stage = "readback"
        /\ writer' = [writer EXCEPT ![w] =
                        IF GetObject(r.key) = "absent" THEN NotWriting
                        ELSE KeyDone(r)]
        /\ UNCHANGED <<driver, stores, refs, cleaner, stale, storeFaults>>

\* The transaction that creates the rows.
Commit(w) ==
    /\ writer[w].stage = "commit"
    /\ refs' = refs \cup writer[w].keys
    /\ writer' = [writer EXCEPT ![w] = NotWriting]
    /\ UNCHANGED <<driver, stores, cleaner, stale, storeFaults>>

\* The process dies, storage answers with an error or the transaction is
\* refused (a lost lease, a stale version): what is stored stays stored.
WriterFails(w) ==
    /\ writer[w].stage # "idle"
    /\ writer' = [writer EXCEPT ![w] = NotWriting]
    /\ UNCHANGED <<driver, stores, refs, cleaner, stale, storeFaults>>

----------------------------------------------------------------------------
(* Cleaning up.                                                             *)

\* What the drivers list: every object of the bucket, or the bodies that have a
\* sidecar.
S3Keys == {k \in Keys : body[k]}
CollectKeys == {k \in Keys : body[k] /\ meta[k]}
Stored == IF driver = "s3" THEN S3Keys ELSE CollectKeys

\* Variant: the clean-up lists objects of any age.
ListKeysAnyAge(c) ==
    /\ cleaner[c].stage = "idle"
    /\ cleaner' = [cleaner EXCEPT ![c] =
                    [stage |-> "check", key |-> NoKey,
                     todo |-> SweptKeys \cap Stored]]
    /\ UNCHANGED <<driver, stores, refs, writer, stale, storeFaults>>

\* listKeys with olderThan = now - olderThanMs.
ListKeys(c) ==
    /\ cleaner[c].stage = "idle"
    /\ cleaner' = [cleaner EXCEPT ![c] =
                    [stage |-> "check", key |-> NoKey,
                     todo |-> {k \in SweptKeys \cap Stored : age[k] = Grace}]]
    /\ UNCHANGED <<driver, stores, refs, writer, stale, storeFaults>>

\* Variant: one of the three reference queries is missing, so that a row may
\* point at the key unnoticed.
CheckUnasked(c, k) ==
    /\ cleaner[c].stage = "check"
    /\ k \in cleaner[c].todo
    /\ cleaner' = [cleaner EXCEPT ![c] =
                    [stage |-> "delete", key |-> k, todo |-> @.todo \ {k}]]
    /\ UNCHANGED <<driver, stores, refs, writer, stale, storeFaults>>

\* The transaction that looks for a revision, an artifact or a field.
Check(c, k) ==
    /\ cleaner[c].stage = "check"
    /\ k \in cleaner[c].todo
    /\ cleaner' = [cleaner EXCEPT ![c] =
                    [stage |-> IF k \in refs THEN "check" ELSE "delete",
                     key |-> IF k \in refs THEN NoKey ELSE k,
                     todo |-> cleaner[c].todo \ {k}]]
    /\ UNCHANGED <<driver, stores, refs, writer, stale, storeFaults>>

\* deleteObject: one call on S3; on the filesystem the body, then the sidecar.
DeleteObject(c) ==
    LET k == cleaner[c].key
    IN  /\ cleaner[c].stage = "delete"
        /\ body' = [body EXCEPT ![k] = FALSE]
        /\ \/ /\ driver = "s3"
              /\ meta' = [meta EXCEPT ![k] = FALSE]
              /\ age' = [age EXCEPT ![k] = 0]
              /\ cleaner' = [cleaner EXCEPT ![c] = NextKey(@)]
           \/ /\ driver = "filesystem"
              /\ cleaner' = [cleaner EXCEPT ![c].stage = "unlink"]
              /\ UNCHANGED <<meta, age>>
        /\ UNCHANGED <<driver, refs, writer, stale, storeFaults>>

UnlinkSidecar(c) ==
    LET k == cleaner[c].key
    IN  /\ cleaner[c].stage = "unlink"
        /\ meta' = [meta EXCEPT ![k] = FALSE]
        /\ age' = [age EXCEPT ![k] = 0]
        /\ cleaner' = [cleaner EXCEPT ![c] = NextKey(@)]
        /\ UNCHANGED <<driver, body, refs, writer, stale, storeFaults>>

\* The sweep of this poll is over.
SweepDone(c) ==
    /\ cleaner[c].stage = "check"
    /\ cleaner[c].todo = {}
    /\ cleaner' = [cleaner EXCEPT ![c] = NotSweeping]
    /\ UNCHANGED <<driver, stores, refs, writer, stale, storeFaults>>

\* The worker dies, or a call of the sweep throws and ends the poll.
CleanerDies(c) ==
    /\ cleaner[c].stage # "idle"
    /\ storeFaults < MaxStoreFaults
    /\ storeFaults' = storeFaults + 1
    /\ cleaner' = [cleaner EXCEPT ![c] = NotSweeping]
    /\ UNCHANGED <<driver, stores, refs, writer, stale>>

\* One unit of time.  A request or job is over before an object it stored
\* reaches the age limit (API_REQUEST_TIMEOUT_MS and the PDF timeout are 30
\* seconds by default, the limit is a day): it sees fewer than Grace ticks.
StoreTick ==
    /\ \A w \in Writers : writer[w].stage # "idle" => writer[w].open < Grace - 1
    /\ age' = [k \in Keys |-> IF meta[k] /\ age[k] < Grace THEN age[k] + 1 ELSE age[k]]
    /\ age' # age
    /\ writer' = [w \in Writers |->
                     IF writer[w].stage = "idle" THEN writer[w]
                     ELSE [writer[w] EXCEPT !.open = @ + 1]]
    /\ stale' = stale \cup {k \in Keys : age'[k] = Grace /\ meta[k] /\ k \notin refs}
    /\ UNCHANGED <<driver, body, meta, refs, cleaner, storeFaults>>

WriterStep(w) ==
    \/ \E k \in Keys : Head(w, k)
    \/ PutBody(w) \/ PutSidecar(w) \/ ReadBack(w) \/ Commit(w)

CleanerStep(c) ==
    \/ ListKeys(c)
    \/ \E k \in Keys : Check(c, k)
    \/ DeleteObject(c) \/ UnlinkSidecar(c) \/ SweepDone(c)

StoreNext ==
    \/ \E w \in Writers :
          \/ \E verify \in BOOLEAN, ks \in (SUBSET Keys) \ {{}} : Begin(w, verify, ks)
          \/ WriterStep(w)
          \/ WriterFails(w)
    \/ \E c \in Cleaners : CleanerStep(c) \/ CleanerDies(c)
    \/ StoreTick

StoreSpec == StoreInit /\ [][StoreNext]_storeVars

\* Requests and sweeps make progress, and time passes.  StoreTick has strong
\* fairness because new requests may keep arriving.
StoreFairSpec ==
    /\ StoreSpec
    /\ \A w \in Writers : WF_storeVars(WriterStep(w))
    /\ \A c \in Cleaners : WF_storeVars(CleanerStep(c))
    /\ SF_storeVars(StoreTick)

----------------------------------------------------------------------------
(* Properties.                                                              *)

\* Every committed row whose object was never an orphan past the age limit
\* (olderThan) can be read, although keys are shared: writes that fail, retries
\* that find half an object and sweeps that die or overlap take it away from
\* nobody.
NeverOrphanIsServed == \A k \in refs \ stale : DownloadFinalizedArtifact(k) = "served"

\* What the runbook says of the clean-up: an orphan is deleted only when no
\* revision, artifact or field points at its key.
DeletedIsUnreferenced ==
    [][\A k \in Keys : body[k] /\ ~body'[k] => k \notin refs]_storeVars

\* An orphan of a swept organization is deleted, or some retry makes a row
\* point at it: objects of failed transactions do not pile up.
OrphansAreCollected ==
    \A k \in SweptKeys :
        GetObject(k) = "object" /\ k \notin refs ~> GetObject(k) = "absent" \/ k \in refs
============================================================================
