-------------------------- MODULE ObjectStoreProofs -------------------------
(***************************************************************************)
(* Proofs about ObjectStore for both drivers, every number of keys,        *)
(* writers and sweeps, and every age limit.                                *)
(***************************************************************************)
EXTENDS ObjectStore, TLAPS

----------------------------------------------------------------------------
(* The inductive invariant.                                                *)

Writer == [stage: {"idle", "head", "put", "sidecar", "readback", "commit"}, verify: BOOLEAN,
           key: Keys \cup {NoKey}, left: SUBSET Keys, keys: SUBSET Keys, open: Nat]

Cleaner == [stage: {"idle", "check", "delete", "unlink"}, todo: SUBSET Keys,
            key: Keys \cup {NoKey}]

TypeOK ==
    /\ driver \in Drivers
    /\ body \in [Keys -> BOOLEAN] /\ meta \in [Keys -> BOOLEAN]
    /\ age \in [Keys -> Nat]
    /\ refs \in SUBSET Keys
    /\ writer \in [Writers -> Writer]
    /\ cleaner \in [Cleaners -> Cleaner]

\* The keys a write has put, and whether the next read of one succeeds.
Put(r) == r.keys \ (r.left \cup (IF r.stage \in {"put", "sidecar"} THEN {r.key} ELSE {}))
Readable(k) == body[k] /\ (driver = "s3" \/ meta[k])

\* Age: what is past the limit has a row or was seen as an orphan, so that a
\* sweep only looks at such keys and condemns an orphan.
SweepsHold ==
    /\ \A k \in Keys : age[k] = Grace => k \in stale \cup refs
    /\ \A c \in Cleaners :
          /\ cleaner[c].todo \subseteq stale \cup refs
          /\ cleaner[c].stage \in {"delete", "unlink"} => cleaner[c].key \in Keys \cap stale

\* A sidecar without a body is what a deletion has left or is about to meet.
LeftoversAreStale == \A k \in Keys : meta[k] /\ ~body[k] => k \in stale

\* What a write has put is readable unless it was an old orphan.
WriteHolds(r) ==
    /\ \A k \in Put(r) : Readable(k) \/ k \in stale
    /\ r.left \subseteq r.keys
    /\ r.stage \in {"put", "sidecar", "readback"} => r.key \in r.keys
    /\ r.stage = "sidecar" => driver = "filesystem" /\ (body[r.key] \/ r.key \in stale)
    /\ r.stage \in {"put", "sidecar", "readback"} => r.key \notin r.left
    /\ r.stage = "commit" => r.left = {}

WritesHold == \A w \in Writers : WriteHolds(writer[w])

RowsHold == \A k \in refs : Readable(k) \/ k \in stale

OInv == TypeOK /\ SweepsHold /\ LeftoversAreStale /\ WritesHold /\ RowsHold

----------------------------------------------------------------------------
(* The operators.                                                          *)

LEMMA GetObjectReads ==
    ASSUME TypeOK, NEW k \in Keys
    PROVE  GetObject(k) = IF Readable(k) THEN "object" ELSE "absent"
BY DEF TypeOK, Drivers, GetObject, S3GetObject, FsGetObject, Readable

LEMMA KeyDoneEffect ==
    ASSUME NEW r \in Writer, NEW e, e = KeyDone(r)
    PROVE  /\ e \in Writer
           /\ e.stage = IF r.left = {} THEN "commit" ELSE "head"
           /\ e.keys = r.keys /\ e.left = r.left
<1>1. PICK st \in {"commit", "head"} : st = IF r.left = {} THEN "commit" ELSE "head"
  OBVIOUS
<1>2. e = [r EXCEPT !.stage = st, !.key = NoKey]
  BY <1>1 DEF KeyDone
<1> QED BY <1>1, <1>2 DEF Writer

LEMMA AfterPutEffect ==
    ASSUME NEW r \in Writer, NEW e, e = AfterPut(r)
    PROVE  /\ e \in Writer
           /\ e.stage \in {"readback", "commit", "head"}
           /\ e.stage = "readback" => e.key = r.key
           /\ e.stage = "commit" => r.left = {}
           /\ e.keys = r.keys /\ e.left = r.left
<1>1. CASE r.verify
  <2>1. e = [r EXCEPT !.stage = "readback"]
    BY <1>1 DEF AfterPut
  <2>2. e \in Writer /\ e.stage = "readback" /\ e.key = r.key
        /\ e.keys = r.keys /\ e.left = r.left
    BY <2>1 DEF Writer
  <2> QED BY <2>2
<1>2. CASE ~r.verify
  <2>1. e = KeyDone(r)
    BY <1>2 DEF AfterPut
  <2> QED BY <2>1, KeyDoneEffect
<1> QED BY <1>1, <1>2

\* A write whose key at hand has just been put or found.
LEMMA AfterPutHolds ==
    ASSUME NEW r \in Writer, NEW e, e = AfterPut(r), r.key \in r.keys, r.key \notin r.left,
           r.left \subseteq r.keys,
           \A k \in r.keys \ r.left : Readable(k) \/ k \in stale
    PROVE  e \in Writer /\ WriteHolds(e)
<1>1. /\ e \in Writer
      /\ e.stage \in {"readback", "commit", "head"}
      /\ e.stage = "readback" => e.key = r.key
      /\ e.stage = "commit" => r.left = {}
      /\ e.keys = r.keys /\ e.left = r.left
  BY AfterPutEffect
<1> QED BY <1>1 DEF WriteHolds, Put

----------------------------------------------------------------------------
(* Steps that store.                                                       *)

\* A step of one writer under which no object is lost.
LEMMA StoresInv ==
    ASSUME OInv, NEW w \in Writers, NEW rec \in Writer,
           writer' = [writer EXCEPT ![w] = rec],
           body' \in [Keys -> BOOLEAN], meta' \in [Keys -> BOOLEAN], age' \in [Keys -> Nat],
           \A k \in Keys : body[k] => body'[k],
           \A k \in Keys : meta[k] => meta'[k],
           \A k \in Keys : age'[k] # age[k] => age'[k] = 0,
           LeftoversAreStale',
           UNCHANGED <<driver, refs, cleaner, stale>>,
           WriteHolds(rec)'
    PROVE  OInv'
<1> USE DEF OInv
<1>1. TypeOK'
  BY DEF TypeOK
<1>2. SweepsHold'
  BY GraceAssumption DEF SweepsHold, TypeOK
<1>3. \A k \in Keys : Readable(k) => Readable(k)'
  BY DEF Readable
<1>4. WritesHold'
  <2>1. ASSUME NEW v \in Writers PROVE WriteHolds(writer[v])'
    <3>1. CASE v = w
      <4>1. writer'[v] = rec
        BY <3>1 DEF TypeOK
      <4> QED BY <4>1 DEF WriteHolds, Put, Readable
    <3>2. CASE v # w
      <4>1. writer'[v] = writer[v] /\ writer[v] \in Writer
        BY <3>2 DEF TypeOK
      <4>2. WriteHolds(writer[v])
        BY DEF WritesHold
      <4>3. writer[v].stage = "sidecar" => writer[v].key \in Keys
        BY <4>1, <4>2 DEF WriteHolds, Writer
      <4>4. Put(writer[v]) \subseteq Keys /\ Put(writer[v])' = Put(writer[v])
        BY <4>1 DEF Put, Writer
      <4> QED BY <1>3, <4>1, <4>2, <4>3, <4>4 DEF WriteHolds
    <3> QED BY <3>1, <3>2
  <2> QED BY <2>1 DEF WritesHold
<1>5. RowsHold'
  BY <1>3 DEF RowsHold, TypeOK
<1> QED BY <1>1, <1>2, <1>4, <1>5

\* The writer begins or is over: it has put nothing.
LEMMA IdleInv ==
    ASSUME OInv, NEW w \in Writers, NEW rec \in Writer,
           writer' = [writer EXCEPT ![w] = rec],
           rec.stage \in {"idle", "head"}, rec.keys = rec.left,
           UNCHANGED <<driver, stores, refs, cleaner, stale>>
    PROVE  OInv'
<1>1. UNCHANGED <<body, meta, age>>
  BY DEF stores
<1>2. WriteHolds(rec)'
  BY DEF WriteHolds, Put
<1>3. LeftoversAreStale'
  BY <1>1 DEF OInv, LeftoversAreStale
<1>4. body \in [Keys -> BOOLEAN] /\ meta \in [Keys -> BOOLEAN] /\ age \in [Keys -> Nat]
  BY DEF OInv, TypeOK
<1> QED BY <1>1, <1>2, <1>3, <1>4, StoresInv

LEMMA NotWritingType == NotWriting \in Writer
BY DEF NotWriting, Writer

LEMMA BeginInv ==
    ASSUME OInv, NEW w \in Writers, NEW verify \in BOOLEAN, NEW ks \in SUBSET Keys,
           Begin(w, verify, ks)
    PROVE  OInv'
<1>1. PICK rec : rec = [stage |-> "head", verify |-> verify, key |-> NoKey, left |-> ks,
                        keys |-> ks, open |-> 0]
  OBVIOUS
<1>2. rec \in Writer /\ rec.stage = "head" /\ rec.keys = rec.left
  BY <1>1 DEF Writer
<1>3. /\ writer' = [writer EXCEPT ![w] = rec]
      /\ UNCHANGED <<driver, stores, refs, cleaner, stale>>
  BY <1>1 DEF Begin
<1> QED BY <1>2, <1>3, IdleInv

LEMMA WriterFailsInv ==
    ASSUME OInv, NEW w \in Writers, WriterFails(w)
    PROVE  OInv'
<1>1. NotWriting.stage = "idle" /\ NotWriting.keys = NotWriting.left
  BY DEF NotWriting
<1>2. /\ writer' = [writer EXCEPT ![w] = NotWriting]
      /\ UNCHANGED <<driver, stores, refs, cleaner, stale>>
  BY DEF WriterFails
<1> QED BY <1>1, <1>2, IdleInv, NotWritingType

\* putObject finds the object, with its body or without, or goes on to put it.
LEMMA HeadInv ==
    ASSUME OInv, NEW w \in Writers, NEW k \in Keys, Head(w, k)
    PROVE  OInv'
<1>1. /\ writer[w] \in Writer /\ WriteHolds(writer[w]) /\ LeftoversAreStale
      /\ body \in [Keys -> BOOLEAN] /\ meta \in [Keys -> BOOLEAN] /\ age \in [Keys -> Nat]
  BY DEF OInv, TypeOK, WritesHold
<1>3. PICK r : r = [writer[w] EXCEPT !.key = k, !.left = @ \ {k}]
  OBVIOUS
<1>4. meta[k] => body[k] \/ k \in stale
  BY <1>1 DEF LeftoversAreStale
<1>5. /\ r \in Writer /\ r.key = k /\ r.left = writer[w].left \ {k}
      /\ r.keys = writer[w].keys
  BY <1>1, <1>3 DEF Writer
<1>6. /\ writer[w].stage = "head" /\ k \in writer[w].left
      /\ writer' = [writer EXCEPT ![w] =
                       IF meta[k] THEN AfterPut(r) ELSE [r EXCEPT !.stage = "put"]]
      /\ UNCHANGED <<driver, body, meta, age, refs, cleaner, stale>>
  BY <1>3 DEF Head, HeadDigest, stores
<1>7. \A x \in writer[w].keys \ writer[w].left : Readable(x) \/ x \in stale
  BY <1>1, <1>6 DEF WriteHolds, Put
<1>8. LeftoversAreStale'
  BY <1>1, <1>6 DEF LeftoversAreStale
<1>9. ASSUME NEW rec \in Writer, WriteHolds(rec), writer' = [writer EXCEPT ![w] = rec]
      PROVE  OInv'
  <2>1. WriteHolds(rec)'
    BY <1>6, <1>9 DEF WriteHolds, Put, Readable
  <2> QED BY <1>1, <1>6, <1>8, <1>9, <2>1, StoresInv
<1>10. CASE ~meta[k]
  <2>1. PICK rec : rec = [r EXCEPT !.stage = "put"]
    OBVIOUS
  <2>2. /\ rec \in Writer /\ rec.stage = "put" /\ rec.key = k /\ rec.left = r.left
        /\ rec.keys = r.keys
    BY <1>5, <2>1 DEF Writer
  <2>3. k \in writer[w].keys \/ k \notin rec.keys
    BY <1>5, <2>2
  <2>4. Put(rec) \subseteq writer[w].keys \ writer[w].left
    BY <1>5, <1>6, <2>2 DEF Put
  <2>5. writer[w].left \subseteq writer[w].keys
    BY <1>1 DEF WriteHolds
  <2>6. WriteHolds(rec)
    BY <1>5, <1>6, <1>7, <2>2, <2>4, <2>5 DEF WriteHolds
  <2> QED BY <1>6, <1>9, <1>10, <2>1, <2>2, <2>6
<1>11. CASE meta[k]
  <2>1. PICK rec : rec = AfterPut(r)
    OBVIOUS
  <2>2. writer[w].left \subseteq writer[w].keys
    BY <1>1 DEF WriteHolds
  <2>3. \A x \in r.keys \ r.left : Readable(x) \/ x \in stale
    BY <1>4, <1>5, <1>6, <1>7, <1>11 DEF Readable
  <2>4. r.left \subseteq r.keys /\ r.key \in r.keys /\ r.key \notin r.left
    BY <1>5, <1>6, <2>2
  <2>5. rec \in Writer /\ WriteHolds(rec)
    BY <1>5, <1>7, <2>1, <2>3, <2>4, AfterPutHolds
  <2> QED BY <1>6, <1>9, <1>11, <2>1, <2>5
<1> QED BY <1>10, <1>11

LEMMA PutBodyInv ==
    ASSUME OInv, NEW w \in Writers, PutBody(w)
    PROVE  OInv'
<1>1. PICK r : r = writer[w]
  OBVIOUS
<1>2. /\ r \in Writer /\ WriteHolds(r) /\ LeftoversAreStale
      /\ body \in [Keys -> BOOLEAN] /\ meta \in [Keys -> BOOLEAN] /\ age \in [Keys -> Nat]
  BY <1>1 DEF OInv, TypeOK, WritesHold
<1>3. /\ r.stage = "put" /\ body' = [body EXCEPT ![r.key] = TRUE]
      /\ UNCHANGED <<driver, refs, cleaner, stale>>
  BY <1>1 DEF PutBody
<1>4. r.key \in r.keys /\ r.key \in Keys /\ r.key \notin r.left
  BY <1>2, <1>3 DEF WriteHolds, Writer
<1>5. /\ body' \in [Keys -> BOOLEAN] /\ body'[r.key]
      /\ \A k \in Keys \ {r.key} : body'[k] = body[k]
  BY <1>2, <1>3, <1>4
<1>6. CASE /\ driver = "s3" /\ meta' = [meta EXCEPT ![r.key] = TRUE]
           /\ age' = [age EXCEPT ![r.key] = 0]
           /\ writer' = [writer EXCEPT ![w] = AfterPut(r)]
  <2>1. /\ meta' \in [Keys -> BOOLEAN] /\ meta'[r.key]
        /\ \A k \in Keys \ {r.key} : meta'[k] = meta[k]
        /\ age' \in [Keys -> Nat] /\ \A k \in Keys : age'[k] # age[k] => age'[k] = 0
    BY <1>2, <1>4, <1>6
  <2>2. LeftoversAreStale'
    BY <1>2, <1>3, <1>5, <2>1 DEF LeftoversAreStale
  <2>3. PICK rec : rec = AfterPut(r)
    OBVIOUS
  <2>4. /\ rec \in Writer
        /\ rec.stage \in {"readback", "commit", "head"}
        /\ rec.stage = "readback" => rec.key = r.key
        /\ rec.stage = "commit" => r.left = {}
        /\ rec.keys = r.keys /\ rec.left = r.left
    BY <1>2, <2>3, AfterPutEffect
  <2>5. \A k \in r.keys \ r.left : Readable(k)' \/ k \in stale
    BY <1>2, <1>3, <1>5, <2>1 DEF WriteHolds, Put, Readable, Writer
  <2>6. WriteHolds(rec)'
    BY <1>2, <1>3, <1>4, <2>4, <2>5 DEF WriteHolds, Put
  <2> QED BY <1>3, <1>5, <1>6, <2>1, <2>2, <2>3, <2>4, <2>6, StoresInv
<1>7. CASE /\ driver = "filesystem" /\ UNCHANGED <<meta, age>>
           /\ writer' = [writer EXCEPT ![w].stage = "sidecar"]
  <2>1. PICK rec : rec = [r EXCEPT !.stage = "sidecar"]
    OBVIOUS
  <2>2. /\ rec \in Writer /\ rec.stage = "sidecar" /\ rec.key = r.key
        /\ rec.keys = r.keys /\ rec.left = r.left
    BY <1>2, <2>1 DEF Writer
  <2>3. writer' = [writer EXCEPT ![w] = rec]
    BY <1>1, <1>7, <2>1
  <2>4. LeftoversAreStale'
    BY <1>2, <1>3, <1>5, <1>7 DEF LeftoversAreStale
  <2>5. Put(rec) = Put(r) /\ Put(r) \subseteq Keys
    BY <1>2, <1>3, <2>2 DEF Put, Writer
  <2>6. \A k \in Put(r) : Readable(k)' \/ k \in stale
    BY <1>2, <1>3, <1>5, <1>7, <2>5 DEF WriteHolds, Readable
  <2>7. WriteHolds(rec)'
    BY <1>2, <1>3, <1>4, <1>5, <1>7, <2>2, <2>5, <2>6 DEF WriteHolds
  <2> QED BY <1>2, <1>3, <1>5, <1>7, <2>2, <2>3, <2>4, <2>7, StoresInv
<1> QED BY <1>1, <1>6, <1>7 DEF PutBody

LEMMA PutSidecarInv ==
    ASSUME OInv, NEW w \in Writers, PutSidecar(w)
    PROVE  OInv'
<1>1. PICK r : r = writer[w]
  OBVIOUS
<1>2. /\ r \in Writer /\ WriteHolds(r) /\ LeftoversAreStale
      /\ body \in [Keys -> BOOLEAN] /\ meta \in [Keys -> BOOLEAN] /\ age \in [Keys -> Nat]
  BY <1>1 DEF OInv, TypeOK, WritesHold
<1>3. /\ r.stage = "sidecar" /\ meta' = [meta EXCEPT ![r.key] = TRUE]
      /\ age' = [age EXCEPT ![r.key] = 0]
      /\ writer' = [writer EXCEPT ![w] = AfterPut(r)]
      /\ UNCHANGED <<driver, body, refs, cleaner, stale>>
  BY <1>1 DEF PutSidecar
<1>4. /\ r.key \in r.keys /\ r.key \in Keys /\ r.key \notin r.left
      /\ body[r.key] \/ r.key \in stale
  BY <1>2, <1>3 DEF WriteHolds, Writer
<1>5. /\ meta' \in [Keys -> BOOLEAN] /\ meta'[r.key]
      /\ \A k \in Keys \ {r.key} : meta'[k] = meta[k]
      /\ age' \in [Keys -> Nat] /\ \A k \in Keys : age'[k] # age[k] => age'[k] = 0
  BY <1>2, <1>3, <1>4
<1>6. LeftoversAreStale'
  BY <1>2, <1>3, <1>4, <1>5 DEF LeftoversAreStale, WriteHolds
<1>7. PICK rec : rec = AfterPut(r)
  OBVIOUS
<1>8. /\ rec \in Writer
      /\ rec.stage \in {"readback", "commit", "head"}
      /\ rec.stage = "readback" => rec.key = r.key
      /\ rec.stage = "commit" => r.left = {}
      /\ rec.keys = r.keys /\ rec.left = r.left
  BY <1>2, <1>7, AfterPutEffect
<1>9. \A k \in r.keys \ r.left : Readable(k)' \/ k \in stale
  BY <1>2, <1>3, <1>4, <1>5 DEF WriteHolds, Put, Readable, Writer
<1>10. WriteHolds(rec)'
  BY <1>2, <1>3, <1>4, <1>8, <1>9 DEF WriteHolds, Put
<1> QED BY <1>2, <1>3, <1>5, <1>6, <1>7, <1>8, <1>10, StoresInv

LEMMA ReadBackInv ==
    ASSUME OInv, NEW w \in Writers, ReadBack(w)
    PROVE  OInv'
<1>1. PICK r : r = writer[w]
  OBVIOUS
<1>2. /\ r \in Writer /\ WriteHolds(r) /\ LeftoversAreStale
      /\ body \in [Keys -> BOOLEAN] /\ meta \in [Keys -> BOOLEAN] /\ age \in [Keys -> Nat]
  BY <1>1 DEF OInv, TypeOK, WritesHold
<1>3. /\ r.stage = "readback"
      /\ UNCHANGED <<driver, body, meta, age, refs, cleaner, stale>>
  BY <1>1 DEF ReadBack, stores
<1>4. CASE writer' = [writer EXCEPT ![w] = NotWriting]
  <2>1. NotWriting.stage = "idle" /\ NotWriting.keys = NotWriting.left
    BY DEF NotWriting
  <2> QED BY <1>3, <1>4, <2>1, IdleInv, NotWritingType DEF stores
<1>5. CASE writer' = [writer EXCEPT ![w] = KeyDone(r)]
  <2>1. PICK rec : rec = KeyDone(r)
    OBVIOUS
  <2>2. /\ rec \in Writer
        /\ rec.stage = IF r.left = {} THEN "commit" ELSE "head"
        /\ rec.keys = r.keys /\ rec.left = r.left
    BY <1>2, <2>1, KeyDoneEffect
  <2>3. LeftoversAreStale'
    BY <1>2, <1>3 DEF LeftoversAreStale
  <2>4. WriteHolds(rec)'
    BY <1>2, <1>3, <2>2 DEF WriteHolds, Put, Readable
  <2> QED BY <1>2, <1>3, <1>5, <2>1, <2>2, <2>3, <2>4, StoresInv
<1> QED BY <1>1, <1>4, <1>5 DEF ReadBack

\* The transaction: everything was put, so that what cannot be read any more was
\* an old orphan.
LEMMA CommitInv ==
    ASSUME OInv, NEW w \in Writers, Commit(w)
    PROVE  OInv'
<1>1. PICK r : r = writer[w]
  OBVIOUS
<1>2. /\ r.stage = "commit" /\ refs' = refs \cup r.keys
      /\ writer' = [writer EXCEPT ![w] = NotWriting]
      /\ UNCHANGED <<driver, body, meta, age, cleaner, stale>>
  BY <1>1 DEF Commit, stores
<1>3. r \in Writer /\ WriteHolds(r)
  BY <1>1 DEF OInv, TypeOK, WritesHold
<1>4. TypeOK'
  BY <1>2, <1>3, NotWritingType DEF OInv, TypeOK, Writer
<1>5. SweepsHold'
  <2>1. \A k \in Keys : age'[k] = Grace => k \in stale' \cup refs'
    BY <1>2 DEF OInv, SweepsHold
  <2> QED BY <1>2, <2>1 DEF OInv, SweepsHold
<1>6. LeftoversAreStale'
  BY <1>2 DEF OInv, LeftoversAreStale
<1>7. WritesHold'
  <2>1. ASSUME NEW v \in Writers PROVE WriteHolds(writer[v])'
    <3>1. CASE v = w
      <4>1. writer'[v] = NotWriting
        BY <1>2, <3>1 DEF OInv, TypeOK
      <4> QED BY <4>1 DEF WriteHolds, Put, NotWriting
    <3>2. CASE v # w
      <4>1. writer'[v] = writer[v]
        BY <1>2, <3>2 DEF OInv, TypeOK
      <4>2. WriteHolds(writer[v])
        BY DEF OInv, WritesHold
      <4> QED BY <1>2, <4>1, <4>2 DEF WriteHolds, Put, Readable
    <3> QED BY <3>1, <3>2
  <2> QED BY <2>1 DEF WritesHold
<1>8. RowsHold'
  <2>1. \A k \in r.keys : Readable(k) \/ k \in stale
    BY <1>2, <1>3 DEF WriteHolds, Put
  <2>2. \A k \in refs : Readable(k) \/ k \in stale
    BY <1>2 DEF OInv, RowsHold
  <2> QED BY <1>2, <2>1, <2>2 DEF RowsHold, Readable
<1> QED BY <1>4, <1>5, <1>6, <1>7, <1>8 DEF OInv

----------------------------------------------------------------------------
(* Steps of a sweep.                                                       *)

\* What a sweep may hold: keys that are past the age limit, and a condemned key
\* that was an orphan.
SweepHolds(r) ==
    /\ r.todo \subseteq stale \cup refs
    /\ r.stage \in {"delete", "unlink"} => r.key \in Keys \cap stale

\* A step of one sweep that deletes nothing.
LEMMA SweepInv ==
    ASSUME OInv, NEW c \in Cleaners, NEW rec \in Cleaner, SweepHolds(rec),
           cleaner' = [cleaner EXCEPT ![c] = rec],
           UNCHANGED <<driver, stores, refs, writer, stale>>
    PROVE  OInv'
<1>1. UNCHANGED <<driver, body, meta, age, refs, writer, stale>>
  BY DEF stores
<1>2. TypeOK'
  BY <1>1 DEF OInv, TypeOK
<1>3. SweepsHold'
  BY <1>1 DEF OInv, TypeOK, SweepsHold, SweepHolds
<1>4. LeftoversAreStale' /\ RowsHold'
  BY <1>1 DEF OInv, LeftoversAreStale, RowsHold, Readable
<1>5. WritesHold'
  BY <1>1 DEF OInv, WritesHold, WriteHolds, Put, Readable
<1> QED BY <1>2, <1>3, <1>4, <1>5 DEF OInv

LEMMA ListKeysInv ==
    ASSUME OInv, NEW c \in Cleaners, ListKeys(c)
    PROVE  OInv'
<1>1. PICK todo : todo = {k \in SweptKeys \cap Stored : age[k] = Grace}
  OBVIOUS
<1>2. PICK rec : rec = [stage |-> "check", key |-> NoKey, todo |-> todo]
  OBVIOUS
<1>3. todo \subseteq Keys /\ todo \subseteq stale \cup refs
  BY <1>1, KeysAssumption DEF OInv, SweepsHold
<1>4. rec \in Cleaner /\ SweepHolds(rec)
  BY <1>2, <1>3 DEF Cleaner, SweepHolds
<1>5. /\ cleaner' = [cleaner EXCEPT ![c] = rec]
      /\ UNCHANGED <<driver, stores, refs, writer, stale>>
  BY <1>1, <1>2 DEF ListKeys
<1> QED BY <1>4, <1>5, SweepInv

\* A key without a row that a sweep looks at is past the age limit.
LEMMA CheckInv ==
    ASSUME OInv, NEW c \in Cleaners, NEW k \in Keys, Check(c, k)
    PROVE  OInv'
<1>1. PICK rec : rec = [stage |-> IF k \in refs THEN "check" ELSE "delete",
                        key |-> IF k \in refs THEN NoKey ELSE k,
                        todo |-> cleaner[c].todo \ {k}]
  OBVIOUS
<1>2. /\ cleaner[c] \in Cleaner /\ k \in cleaner[c].todo
      /\ cleaner[c].todo \subseteq stale \cup refs
  BY DEF OInv, TypeOK, SweepsHold, Check
<1>3. rec \in Cleaner /\ SweepHolds(rec)
  <2>1. CASE k \in refs
    BY <1>1, <1>2, <2>1 DEF Cleaner, SweepHolds
  <2>2. CASE k \notin refs
    BY <1>1, <1>2, <2>2 DEF Cleaner, SweepHolds
  <2> QED BY <2>1, <2>2
<1>4. /\ cleaner' = [cleaner EXCEPT ![c] = rec]
      /\ UNCHANGED <<driver, stores, refs, writer, stale>>
  BY <1>1 DEF Check
<1> QED BY <1>3, <1>4, SweepInv

\* The sweep is over, or its process dies.
LEMMA SweepEndsInv ==
    ASSUME OInv, NEW c \in Cleaners, SweepDone(c) \/ CleanerDies(c)
    PROVE  OInv'
<1>1. NotSweeping \in Cleaner /\ SweepHolds(NotSweeping)
  BY DEF NotSweeping, Cleaner, SweepHolds
<1>2. /\ cleaner' = [cleaner EXCEPT ![c] = NotSweeping]
      /\ UNCHANGED <<driver, stores, refs, writer, stale>>
  BY DEF SweepDone, CleanerDies
<1> QED BY <1>1, <1>2, SweepInv

\* A step that removes the body or the sidecar of a condemned key, an old orphan.
LEMMA DeletionInv ==
    ASSUME OInv, NEW c \in Cleaners, NEW k \in Keys \cap stale, NEW rec \in Cleaner,
           SweepHolds(rec), cleaner' = [cleaner EXCEPT ![c] = rec],
           body' \in [Keys -> BOOLEAN], meta' \in [Keys -> BOOLEAN], age' \in [Keys -> Nat],
           \A x \in Keys \ {k} : body'[x] = body[x] /\ meta'[x] = meta[x],
           \A x \in Keys : meta'[x] => meta[x],
           \A x \in Keys : age'[x] # age[x] => age'[x] = 0,
           UNCHANGED <<driver, refs, writer, stale>>
    PROVE  OInv'
<1>1. \A x \in Keys : Readable(x) => Readable(x)' \/ x \in stale
  BY DEF Readable
<1>2. ASSUME NEW w \in Writers PROVE WriteHolds(writer[w])'
  <2>1. writer[w] \in Writer /\ WriteHolds(writer[w])
    BY DEF OInv, TypeOK, WritesHold
  <2>2. Put(writer[w]) \subseteq Keys /\ Put(writer[w])' = Put(writer[w])
    BY <2>1 DEF Put, Writer
  <2>3. writer[w].stage = "sidecar" => writer[w].key \in Keys
    BY <2>1 DEF WriteHolds, Writer
  <2> QED BY <1>1, <2>1, <2>2, <2>3 DEF WriteHolds
<1>3. TypeOK'
  BY DEF OInv, TypeOK
<1>4. SweepsHold'
  BY GraceAssumption DEF OInv, TypeOK, SweepsHold, SweepHolds
<1>5. LeftoversAreStale'
  BY DEF OInv, LeftoversAreStale
<1>6. WritesHold'
  BY <1>2 DEF WritesHold
<1>7. RowsHold'
  BY <1>1 DEF OInv, TypeOK, RowsHold
<1> QED BY <1>3, <1>4, <1>5, <1>6, <1>7 DEF OInv

LEMMA NextKeyHolds ==
    ASSUME NEW r \in Cleaner, SweepHolds(r)
    PROVE  NextKey(r) \in Cleaner /\ SweepHolds(NextKey(r))
BY DEF NextKey, Cleaner, SweepHolds

LEMMA DeleteObjectInv ==
    ASSUME OInv, NEW c \in Cleaners, DeleteObject(c)
    PROVE  OInv'
<1>1. PICK k : k = cleaner[c].key
  OBVIOUS
<1>2. /\ cleaner[c] \in Cleaner /\ SweepHolds(cleaner[c])
      /\ body \in [Keys -> BOOLEAN] /\ meta \in [Keys -> BOOLEAN] /\ age \in [Keys -> Nat]
  BY DEF OInv, TypeOK, SweepsHold, SweepHolds
<1>3. /\ cleaner[c].stage = "delete" /\ body' = [body EXCEPT ![k] = FALSE]
      /\ UNCHANGED <<driver, refs, writer, stale>>
  BY <1>1 DEF DeleteObject
<1>4. k \in Keys \cap stale
  BY <1>1, <1>2, <1>3 DEF SweepHolds
<1>5. body' \in [Keys -> BOOLEAN] /\ \A x \in Keys \ {k} : body'[x] = body[x]
  BY <1>2, <1>3, <1>4
<1>6. CASE /\ meta' = [meta EXCEPT ![k] = FALSE] /\ age' = [age EXCEPT ![k] = 0]
           /\ cleaner' = [cleaner EXCEPT ![c] = NextKey(@)]
  <2>1. /\ meta' \in [Keys -> BOOLEAN] /\ age' \in [Keys -> Nat]
        /\ \A x \in Keys \ {k} : meta'[x] = meta[x]
        /\ \A x \in Keys : meta'[x] => meta[x]
        /\ \A x \in Keys : age'[x] # age[x] => age'[x] = 0
    BY <1>2, <1>4, <1>6
  <2>2. PICK rec : rec = NextKey(cleaner[c])
    OBVIOUS
  <2>3. rec \in Cleaner /\ SweepHolds(rec) /\ cleaner' = [cleaner EXCEPT ![c] = rec]
    BY <1>2, <1>6, <2>2, NextKeyHolds
  <2> QED BY <1>3, <1>4, <1>5, <2>1, <2>3, DeletionInv
<1>7. CASE UNCHANGED <<meta, age>> /\ cleaner' = [cleaner EXCEPT ![c].stage = "unlink"]
  <2>1. PICK rec : rec = [cleaner[c] EXCEPT !.stage = "unlink"]
    OBVIOUS
  <2>2. rec \in Cleaner /\ SweepHolds(rec) /\ cleaner' = [cleaner EXCEPT ![c] = rec]
    BY <1>2, <1>3, <1>7, <2>1 DEF Cleaner, SweepHolds
  <2>3. /\ meta' \in [Keys -> BOOLEAN] /\ age' \in [Keys -> Nat]
        /\ \A x \in Keys : meta'[x] = meta[x] /\ age'[x] = age[x]
    BY <1>2, <1>7
  <2> QED BY <1>3, <1>4, <1>5, <2>2, <2>3, DeletionInv
<1> QED BY <1>1, <1>6, <1>7 DEF DeleteObject

LEMMA UnlinkSidecarInv ==
    ASSUME OInv, NEW c \in Cleaners, UnlinkSidecar(c)
    PROVE  OInv'
<1>1. PICK k : k = cleaner[c].key
  OBVIOUS
<1>2. /\ cleaner[c] \in Cleaner /\ SweepHolds(cleaner[c])
      /\ body \in [Keys -> BOOLEAN] /\ meta \in [Keys -> BOOLEAN] /\ age \in [Keys -> Nat]
  BY DEF OInv, TypeOK, SweepsHold, SweepHolds
<1>3. /\ cleaner[c].stage = "unlink"
      /\ meta' = [meta EXCEPT ![k] = FALSE] /\ age' = [age EXCEPT ![k] = 0]
      /\ cleaner' = [cleaner EXCEPT ![c] = NextKey(@)]
      /\ UNCHANGED <<driver, body, refs, writer, stale>>
  BY <1>1 DEF UnlinkSidecar
<1>4. k \in Keys \cap stale
  BY <1>1, <1>2, <1>3 DEF SweepHolds
<1>5. /\ meta' \in [Keys -> BOOLEAN] /\ age' \in [Keys -> Nat] /\ body' \in [Keys -> BOOLEAN]
      /\ \A x \in Keys \ {k} : body'[x] = body[x] /\ meta'[x] = meta[x]
      /\ \A x \in Keys : meta'[x] => meta[x]
      /\ \A x \in Keys : age'[x] # age[x] => age'[x] = 0
  BY <1>2, <1>3, <1>4
<1>6. PICK rec : rec = NextKey(cleaner[c])
  OBVIOUS
<1>7. rec \in Cleaner /\ SweepHolds(rec) /\ cleaner' = [cleaner EXCEPT ![c] = rec]
  BY <1>2, <1>3, <1>6, NextKeyHolds
<1> QED BY <1>3, <1>4, <1>5, <1>7, DeletionInv

----------------------------------------------------------------------------
(* Time.                                                                   *)

LEMMA TickInv ==
    ASSUME OInv, StoreTick
    PROVE  OInv'
<1>1. /\ age' = [k \in Keys |-> IF meta[k] /\ age[k] < Grace THEN age[k] + 1 ELSE age[k]]
      /\ stale' = stale \cup {k \in Keys : age'[k] = Grace /\ meta[k] /\ k \notin refs}
      /\ writer' = [w \in Writers |->
                     IF writer[w].stage = "idle" THEN writer[w]
                     ELSE [writer[w] EXCEPT !.open = @ + 1]]
      /\ UNCHANGED <<driver, body, meta, refs, cleaner>>
  BY DEF StoreTick
<1>2. ASSUME NEW w \in Writers
      PROVE  writer'[w] \in Writer /\ WriteHolds(writer[w])'
  <2>1. writer[w] \in Writer /\ WriteHolds(writer[w])
    BY DEF OInv, TypeOK, WritesHold
  <2>2. /\ writer'[w] \in Writer
        /\ writer'[w].stage = writer[w].stage /\ writer'[w].key = writer[w].key
        /\ writer'[w].left = writer[w].left /\ writer'[w].keys = writer[w].keys
    BY <1>1, <2>1 DEF Writer
  <2> QED BY <1>1, <2>1, <2>2 DEF WriteHolds, Put, Readable
<1>3. TypeOK'
  BY <1>1, <1>2 DEF OInv, TypeOK
<1>4. SweepsHold'
  <2>1. ASSUME NEW k \in Keys, age'[k] = Grace PROVE k \in stale' \cup refs
    <3>1. CASE meta[k]
      BY <1>1, <2>1, <3>1
    <3>2. CASE ~meta[k]
      <4>1. age[k] = Grace
        BY <1>1, <2>1, <3>2
      <4> QED BY <1>1, <4>1 DEF OInv, SweepsHold
    <3> QED BY <3>1, <3>2
  <2>2. stale \subseteq stale'
    BY <1>1
  <2>3. \A c \in Cleaners :
          /\ cleaner[c].todo \subseteq stale' \cup refs
          /\ cleaner[c].stage \in {"delete", "unlink"} => cleaner[c].key \in Keys \cap stale'
    BY <2>2 DEF OInv, SweepsHold
  <2> QED BY <1>1, <2>1, <2>3 DEF SweepsHold
<1>5. LeftoversAreStale' /\ RowsHold'
  BY <1>1 DEF OInv, LeftoversAreStale, RowsHold, Readable
<1>6. WritesHold'
  BY <1>2 DEF WritesHold
<1> QED BY <1>3, <1>4, <1>5, <1>6 DEF OInv

----------------------------------------------------------------------------
(* The theorems.                                                           *)

LEMMA InitInv == StoreInit => OInv
<1> SUFFICES ASSUME StoreInit PROVE OInv
  OBVIOUS
<1>1. TypeOK
  BY NotWritingType DEF StoreInit, TypeOK, NotSweeping, Cleaner
<1>2. SweepsHold
  BY GraceAssumption DEF StoreInit, SweepsHold, NotSweeping
<1>3. LeftoversAreStale /\ RowsHold
  BY DEF StoreInit, LeftoversAreStale, RowsHold
<1>4. WritesHold
  BY DEF StoreInit, WritesHold, WriteHolds, Put, NotWriting
<1> QED BY <1>1, <1>2, <1>3, <1>4 DEF OInv

LEMMA StutterInv ==
    ASSUME OInv, UNCHANGED storeVars
    PROVE  OInv'
<1>1. UNCHANGED <<driver, body, meta, age, refs, writer, cleaner, stale>>
  BY DEF storeVars
<1>2. TypeOK' /\ SweepsHold' /\ LeftoversAreStale' /\ RowsHold'
  BY <1>1 DEF OInv, TypeOK, SweepsHold, LeftoversAreStale, RowsHold, Readable
<1>3. WritesHold'
  BY <1>1 DEF OInv, WritesHold, WriteHolds, Put, Readable
<1> QED BY <1>2, <1>3 DEF OInv

LEMMA NextInv == OInv /\ [StoreNext]_storeVars => OInv'
<1> SUFFICES ASSUME OInv, [StoreNext]_storeVars PROVE OInv'
  OBVIOUS
<1>1. ASSUME NEW w \in Writers, NEW verify \in BOOLEAN, NEW ks \in (SUBSET Keys) \ {{}},
             Begin(w, verify, ks)
      PROVE  OInv'
  BY <1>1, BeginInv
<1>2. ASSUME NEW w \in Writers, WriterStep(w) PROVE OInv'
  BY <1>2, HeadInv, PutBodyInv, PutSidecarInv, ReadBackInv, CommitInv DEF WriterStep
<1>3. ASSUME NEW w \in Writers, WriterFails(w) PROVE OInv'
  BY <1>3, WriterFailsInv
<1>4. ASSUME NEW c \in Cleaners, CleanerStep(c) \/ CleanerDies(c) PROVE OInv'
  BY <1>4, ListKeysInv, CheckInv, DeleteObjectInv, UnlinkSidecarInv, SweepEndsInv
  DEF CleanerStep
<1>5. CASE StoreTick
  BY <1>5, TickInv
<1>6. CASE UNCHANGED storeVars
  BY <1>6, StutterInv
<1> QED BY <1>1, <1>2, <1>3, <1>4, <1>5, <1>6 DEF StoreNext

\* The joint invariant of rows, objects, writes in progress and sweeps.
THEOREM StoreInvariant == StoreSpec => []OInv
<1> QED BY InitInv, NextInv, PTL DEF StoreSpec

\* A row whose object was never an orphan past the age limit can be read: the
\* age limit of listKeys and the reference check protect it, with either driver,
\* however many sweeps and writers run at the same time.
THEOREM StoreNeverOrphanIsServed == StoreSpec => []NeverOrphanIsServed
<1>1. OInv => NeverOrphanIsServed
  <2> SUFFICES ASSUME OInv, NEW k \in refs \ stale
               PROVE  DownloadFinalizedArtifact(k) = "served"
    BY DEF NeverOrphanIsServed
  <2>1. TypeOK /\ k \in Keys /\ Readable(k)
    BY DEF OInv, TypeOK, RowsHold
  <2>2. GetObject(k) = "object"
    BY <2>1, GetObjectReads
  <2> QED BY <2>2 DEF DownloadFinalizedArtifact
<1> QED BY <1>1, StoreInvariant, PTL
=============================================================================
