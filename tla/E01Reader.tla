----------------------------- MODULE E01Reader -----------------------------
(***************************************************************************)
(* The EWF reader: it opens an image once and then serves concurrent       *)
(* read_at_offset calls, each split into one task per chunk, with a pool   *)
(* of workers and an optional cache of decoded chunks that the calls share *)
(* (e01_reader.rs, readworker.rs).                                         *)
(*                                                                         *)
(* A configuration is a record [files, glob, auth, bad, cut, faults,       *)
(* policy, ignore, decoded, parallel, traced]: the segment files, how they *)
(* are found, whether the credentials resolve where the image needs some,  *)
(* the chunks whose stored bytes fail their checksum or do not inflate,    *)
(* the compressed chunks whose stream does not end in their stored bytes,  *)
(* whether the source may fail, and the reader's options.  glob is Absent  *)
(* when the files are listed by the caller, or a record [proto, dir,       *)
(* unclear, gone, scheme]: the extension given, the files by name, the     *)
(* names a probe of which has no answer, those whose file is gone when it  *)
(* is opened, and the scheme of the URL.  A byte is the place it was       *)
(* stored at, <<segment, data_offset, position>>, or Zero.  A worker is    *)
(* what the decoder would get out of its buffer as it is, which is nothing *)
(* while it is fresh, or Absent once its buffer is lost.  Chunks count     *)
(* from 1, bytes of the image from 0.                                      *)
(***************************************************************************)
EXTENDS E01Open, E01SegPath

CONSTANTS
    Configs,                     \* what may be opened, and how
    Threads,                     \* callers of read_at_offset
    Reads,                       \* the reads they make, <<offset, length>>
    MaxCalls,                    \* bound: calls in all
    DECODED_CHUNK_CACHE_CHUNKS,  \* capacity of the decoded-chunk cache
    Zero, Unread

ASSUME E01Assumption ==
    /\ Reads \subseteq Nat \X Nat
    /\ MaxCalls \in Nat
    /\ DECODED_CHUNK_CACHE_CHUNKS \in Nat
    /\ IsFiniteSet(Threads)
    /\ Zero # Unread

VARIABLES
    config,   \* the configuration being read
    img,      \* what open_impl made of it, Absent before
    pool,     \* worker_pool: workers at rest
    chunks,   \* DecodedChunkCache: payloads by chunk
    lru,      \* its order of use, oldest first
    poisoned, \* a task has panicked with the cache's lock held
    call      \* per thread: the call it is in, or the last one it made

cache == <<chunks, lru, poisoned>>

vars == <<config, img, pool, cache, call>>

NoCall == [st |-> "idle", off |-> 0, len |-> 0, n |-> 0, made |-> 0,
           workers |-> <<>>, task |-> <<>>, out |-> <<>>]

Init ==
    /\ config \in Configs
    /\ img = Absent
    /\ pool = <<>>
    /\ chunks = <<>>
    /\ lru = <<>>
    /\ poisoned = FALSE
    /\ call = [t \in Threads |-> NoCall]

\* The segment files in the order of the walk over their names.
FoundFiles(g) ==
    LET found == validated_segment_paths(g.proto, DOMAIN g.dir, g.unclear)
    IN  [k \in DOMAIN found.names |-> g.dir[found.names[k]]]

\* open_glob is over before a segment is read: a scheme nobody serves, a walk that
\* could not be finished, or a file that is gone by the time it is opened.
GlobFails(g) ==
    LET found == validated_segment_paths(g.proto, DOMAIN g.dir, g.unclear)
    IN  \/ g.scheme \notin {"file", "s3"}
        \/ ~found.ok
        \/ \E k \in DOMAIN found.names : found.names[k] \in g.gone

\* The files an image is read from.
FilesOf(c) == IF c.glob = Absent THEN c.files ELSE FoundFiles(c.glob)

open_glob(g, ignore) == IF GlobFails(g) THEN Refused ELSE open_impl(FoundFiles(g), ignore)

\* What opening configuration c comes to.
Outcome(c) ==
    IF ~c.auth THEN Refused
    ELSE IF c.glob = Absent THEN open_impl(c.files, c.ignore)
    ELSE open_glob(c.glob, c.ignore)

\* An entry of the chunk table.
Chunk == [segment : Nat, data_offset : Nat, end_offset : Nat, compressed : BOOLEAN]

\* The numbers in an image are unsigned.
ASSUME ImageAssumption ==
    \A c \in Configs : Outcome(c) # Refused =>
        /\ Outcome(c).chunk_size \in Nat /\ Outcome(c).image_size \in Nat
        /\ Outcome(c).chunks \in Seq(Chunk)

Open ==
    /\ img = Absent
    /\ img' = Outcome(config)
    /\ UNCHANGED <<config, pool, cache, call>>

-----------------------------------------------------------------------------
(* DecodedChunkCache.                                                      *)

\* retain: what is left of s without k.
Without(s, k) ==
    LET kept[n \in 0 .. Len(s)] ==
            IF n = 0 THEN <<>>
            ELSE IF s[n] = k THEN kept[n - 1] ELSE Append(kept[n - 1], s[n])
    IN  kept[Len(s)]

Touched(s, k) == Append(Without(s, k), k)

\* The order of use s after a get of each of ks.
AllTouched(s, ks) ==
    LET after[n \in 0 .. Len(ks)] == IF n = 0 THEN s ELSE Touched(after[n - 1], ks[n])
    IN  after[Len(ks)]

\* Mutant: a chunk that is inserted again is queued twice.
QueuedTwice(k) == Append(lru, k)

\* The order of use with k inserted, before anything is evicted.
Queued(k) == Append(IF k \in DOMAIN chunks THEN Without(lru, k) ELSE lru, k)

\* Chunks that go to make room for k: the shortest run of the oldest that brings
\* the count down to the capacity.
EvictedBy(k) ==
    LET q       == Queued(k)
        Left(n) == (DOMAIN chunks \cup {k}) \ Range(SubSeq(q, 1, n))
    IN  Min({n \in 0 .. Len(q) :
                n = Len(q) \/ Cardinality(Left(n)) <= DECODED_CHUNK_CACHE_CHUNKS})

Insert(k, p) ==
    LET q    == Queued(k)
        n    == EvictedBy(k)
        keep == (DOMAIN chunks \cup {k}) \ Range(SubSeq(q, 1, n))
    IN  IF DECODED_CHUNK_CACHE_CHUNKS = 0 THEN UNCHANGED <<chunks, lru>>
        ELSE /\ chunks' = [j \in keep |-> IF j = k THEN p ELSE chunks[j]]
             /\ lru' = SubSeq(q, n + 1, Len(q))

-----------------------------------------------------------------------------
(* What a worker makes of a chunk.                                         *)

\* Bytes of the image in chunk k.
DecodedLen(k) == Min({img.image_size - (k - 1) * img.chunk_size, img.chunk_size})

StoredLen(k) == img.chunks[k].end_offset - img.chunks[k].data_offset

\* The bounds are in order and the stored bytes fit a worker's buffer.
checked_chunk_len(k) == StoredLen(k) \in 0 .. img.chunk_size + 4

Stored(k) == LET c == img.chunks[k]
             IN  [i \in 1 .. StoredLen(k) |-> <<c.segment, c.data_offset, i - 1>>]

Zeros(n) == [i \in 1 .. n |-> Zero]

\* The stream of chunk k does not end in its stored bytes, of which there may be none:
\* the decoder goes on in what the buffer held behind them.
CutShort(k) == img.chunks[k].compressed /\ (k \in config.cut \/ StoredLen(k) = 0)

\* The first n bytes that chunk k inflates to.
Own(k, n) == [i \in 1 .. n |-> <<img.chunks[k].segment, img.chunks[k].data_offset, i - 1>>]

\* A chunk that does not inflate.
GivenUp(n) == IF config.policy = "Error" THEN Absent ELSE Zeros(n)

\* read_compressed_decompress_full into a buffer of the decoded length.  A stream that
\* ends, or fails, in the chunk's stored bytes comes to the same whatever is behind
\* them; one that is cut short is as long as the buffer w makes it.
Inflated(k, w) ==
    LET n == DecodedLen(k)
    IN  IF ~CutShort(k) /\ k \notin config.bad THEN Own(k, n)
        ELSE IF CutShort(k) /\ w # Absent /\ Len(w) >= n THEN SubSeq(w, 1, n)
        ELSE GivenUp(n)

\* Mutant: a checksum that does not match is only logged.
verify_uncompressed_payload_logged(k) ==
    IF StoredLen(k) < 5 THEN Absent ELSE SubSeq(Stored(k), 1, StoredLen(k) - 4)

\* The stored bytes less their checksum, as the policy has it.
verify_uncompressed_payload(k) ==
    LET n == StoredLen(k) - 4
    IN  IF StoredLen(k) < 5 THEN Absent
        ELSE IF k \notin config.bad \/ config.policy = "RawIfPossible"
        THEN SubSeq(Stored(k), 1, n)
        ELSE GivenUp(n)

\* The payload of chunk k, read with a worker that then has w; Absent is an error.
Payload(k, w) ==
    IF img.chunks[k].compressed THEN Inflated(k, w) ELSE verify_uncompressed_payload(k)

-----------------------------------------------------------------------------
(* read_at_offset.                                                         *)

\* Mutant: the buffer is cut to the image's end even if it ends before.
ClampToEnd(off, len) == img.image_size - off

Clamp(off, len) == Min({len, img.image_size - off})

\* Indices of the first chunk of a read and of the one after its last, from 0.
BegChunk(off) == off \div img.chunk_size

EndChunk(end) == end \div img.chunk_size + Min({end % img.chunk_size, 1})

\* Chunks with a task, in order: an empty read has none.
TaskChunks(off, n) ==
    IF n = 0 THEN <<>>
    ELSE [i \in 1 .. (off + n - 1) \div img.chunk_size - BegChunk(off) + 1 |->
            BegChunk(off) + i]

\* The part of chunk k that a read of n bytes at off takes, as positions in it.
BegIn(k, off) == Max({off - (k - 1) * img.chunk_size, 0})

EndIn(k, off, n) == Min({off + n - (k - 1) * img.chunk_size, DecodedLen(k)})

\* Mutant: workers are built and the pooled ones left where they are.
checkout_workers_new(n) == [taken |-> [i \in 1 .. n |-> <<>>], left |-> pool]

\* The last n of the pool, and new ones for what it lacks.
checkout_workers(n) ==
    LET keep == Max({Len(pool) - n, 0})
        old  == SubSeq(pool, keep + 1, Len(pool))
    IN  [taken |-> old \o [i \in 1 .. n - Len(old) |-> <<>>],
         left  |-> SubSeq(pool, 1, keep)]

\* The trace looks the chunks of the read up, stopping at the first miss.
TraceHits(off, n) ==
    LET ks   == [i \in 1 .. EndChunk(off + n) - BegChunk(off) |-> BegChunk(off) + i]
        hits == {m \in 0 .. Len(ks) : \A i \in 1 .. m : ks[i] \in DOMAIN chunks}
    IN  SubSeq(ks, 1, Max(hits))

Trace(off, n) ==
    lru' = IF config.traced /\ config.decoded
           THEN AllTouched(lru, TraceHits(off, n)) ELSE lru

Called(t, off, len) ==
    [NoCall EXCEPT !.off = off, !.len = len, !.made = call[t].made + 1]

\* Every task finds its chunk in the table and a worker of its own.
TasksFit(off, n, workers) ==
    /\ Range(TaskChunks(off, n)) \subseteq DOMAIN img.chunks
    /\ Len(TaskChunks(off, n)) <= Len(workers)

\* read_at_offset up to the point where the tasks are ready to run.
Begin(t, off, len) ==
    LET n  == Clamp(off, len)
        w  == checkout_workers(EndChunk(off + n) - BegChunk(off))
        cl == Called(t, off, len)
    IN  /\ img # Absent /\ img.ok
        /\ call[t].st # "running"
        /\ SumFunction([u \in Threads |-> call[u].made]) < MaxCalls
        /\ \/ /\ off > img.image_size
              /\ call' = [call EXCEPT ![t] = [cl EXCEPT !.st = "err"]]
              /\ UNCHANGED <<pool, cache>>
           \/ /\ off <= img.image_size
              /\ config.traced /\ config.decoded /\ poisoned
              /\ call' = [call EXCEPT ![t] = [cl EXCEPT !.st = "panic"]]
              /\ UNCHANGED <<pool, cache>>
           \/ /\ off <= img.image_size
              /\ ~(config.traced /\ config.decoded /\ poisoned)
              /\ call' = [call EXCEPT ![t] =
                    IF TasksFit(off, n, w.taken)
                    THEN [cl EXCEPT !.st = "running", !.n = n, !.workers = w.taken,
                                    !.task = [i \in DOMAIN TaskChunks(off, n) |-> "todo"],
                                    !.out = [i \in 1 .. n |-> Unread]]
                    ELSE [cl EXCEPT !.st = "panic"]]
              /\ pool' = w.left
              /\ Trace(off, n)
              /\ UNCHANGED <<chunks, poisoned>>
        /\ UNCHANGED <<config, img>>

-----------------------------------------------------------------------------
(* run_chunk_task.                                                         *)

ChunkOf(t, i) == BegChunk(call[t].off) + i

BegInChunk(t, i) == BegIn(ChunkOf(t, i), call[t].off)

EndInChunk(t, i) == EndIn(ChunkOf(t, i), call[t].off, call[t].n)

FansOut(t) == config.parallel /\ Len(call[t].task) > 1

\* Task i may run: its turn has come, or the tasks run side by side.
Runs(t, i) ==
    /\ call[t].st = "running"
    /\ i \in DOMAIN call[t].task
    /\ FansOut(t) \/ \A j \in 1 .. i - 1 : call[t].task[j] = "ok"

SetTask(t, i, st) == call' = [call EXCEPT ![t].task[i] = st]

\* Task i copies its part of payload p into its part of the buffer.
Copied(t, i, p) ==
    LET k    == ChunkOf(t, i)
        base == (k - 1) * img.chunk_size - call[t].off
        part == {j \in 1 .. call[t].n :
                    j - base \in BegInChunk(t, i) + 1 .. EndInChunk(t, i)}
    IN  [j \in 1 .. call[t].n |-> IF j \in part THEN p[j - base] ELSE call[t].out[j]]

CopyAndSet(t, i, p, w, st) ==
    call' = [call EXCEPT ![t] = [@ EXCEPT !.task[i] = st, !.workers[i] = w,
                                          !.out = Copied(t, i, p)]]

\* The chunk's bounds are checked and, with a cache of decoded chunks, the chunk is
\* looked up.  A hit is copied with the lock held.
Start(t, i) ==
    LET k == ChunkOf(t, i)
    IN  /\ Runs(t, i)
        /\ call[t].task[i] = "todo"
        /\ \/ /\ ~checked_chunk_len(k)
              /\ SetTask(t, i, "err")
              /\ UNCHANGED cache
           \/ /\ checked_chunk_len(k)
              /\ config.decoded /\ poisoned
              /\ SetTask(t, i, "panic")
              /\ UNCHANGED cache
           \/ /\ checked_chunk_len(k)
              /\ ~config.decoded \/ (~poisoned /\ k \notin DOMAIN chunks)
              /\ SetTask(t, i, "fetch")
              /\ UNCHANGED cache
           \/ /\ checked_chunk_len(k)
              /\ config.decoded /\ ~poisoned /\ k \in DOMAIN chunks
              /\ lru' = Touched(lru, k)
              /\ IF EndInChunk(t, i) > Len(chunks[k])
                 THEN SetTask(t, i, "panic") /\ poisoned' = TRUE
                 ELSE CopyAndSet(t, i, chunks[k], call[t].workers[i], "ok") /\ UNCHANGED poisoned
              /\ UNCHANGED chunks
        /\ UNCHANGED <<config, img, pool>>

\* The cached uncompressed path has a buffer of its own.
UsesBuffer(k) == img.chunks[k].compressed \/ ~config.decoded

\* The stored bytes of chunk k fit what worker w has to read them into.
HasRoom(k, w) ==
    \/ ~UsesBuffer(k)
    \/ StoredLen(k) = 0
    \/ w # Absent /\ StoredLen(k) <= img.chunk_size + 4

\* What is left in its buffer matters only to an image with a chunk that is cut short,
\* and is followed only there.
Followed == \E k \in DOMAIN img.chunks : CutShort(k)

\* Buffers that held w and of which chunk k has overwritten only the beginning: its
\* stream goes on in the old bytes, or breaks off at them.
Overlaid(k, w) ==
    LET cuts == 0 .. DecodedLen(k) - 1
    IN  {Own(k, m) : m \in cuts} \cup {Own(k, m) \o SubSeq(w, m + 1, Len(w)) : m \in cuts}

\* What may be in the buffer of worker w once chunk k is read into it.  Raw bytes
\* are no stream.
Refilled(k, w) ==
    IF ~Followed \/ ~UsesBuffer(k) \/ StoredLen(k) = 0 THEN {w}
    ELSE IF ~img.chunks[k].compressed THEN {<<>>}
    ELSE IF CutShort(k) THEN Overlaid(k, w)
    ELSE IF k \in config.bad THEN {Own(k, m) : m \in 0 .. DecodedLen(k) - 1}
    ELSE {Own(k, DecodedLen(k))}

\* And once the source has failed.
Spoiled(k, w) ==
    IF ~Followed \/ ~UsesBuffer(k) \/ StoredLen(k) = 0 THEN {w} ELSE Overlaid(k, w)

\* An early return of read_uncompressed does not give the buffer back.
LosesBuffer(k) == ~img.chunks[k].compressed /\ ~config.decoded

FailTask(t, i, w) ==
    LET kept == IF LosesBuffer(ChunkOf(t, i)) THEN Absent ELSE w
    IN  call' = [call EXCEPT ![t] = [@ EXCEPT !.task[i] = "err", !.workers[i] = kept]]

\* The stored bytes are in: decode them and copy out what is asked for.
Decode(t, i, w) ==
    LET k == ChunkOf(t, i)
        p == Payload(k, w)
    IN  \/ /\ p = Absent
           /\ FailTask(t, i, w)
        \/ /\ p # Absent
           /\ EndInChunk(t, i) > Len(p)
           /\ SetTask(t, i, "panic")
        \/ /\ p # Absent
           /\ EndInChunk(t, i) <= Len(p)
           /\ CopyAndSet(t, i, p, w, IF config.decoded THEN "insert" ELSE "ok")

\* Read the stored bytes into what the worker has, and go on from there.
Fetch(t, i) ==
    LET k == ChunkOf(t, i)
        w == call[t].workers[i]
    IN  /\ Runs(t, i)
        /\ call[t].task[i] = "fetch"
        /\ \/ /\ ~HasRoom(k, w)
              /\ SetTask(t, i, "panic")
           \/ /\ HasRoom(k, w) /\ config.faults
              /\ \E v \in Spoiled(k, w) : FailTask(t, i, v)
           \/ /\ HasRoom(k, w)
              /\ \E v \in Refilled(k, w) : Decode(t, i, v)
        /\ UNCHANGED <<config, img, pool, cache>>

\* The decoded chunk is put into the cache.
Remember(t, i) ==
    LET k == ChunkOf(t, i)
    IN  /\ Runs(t, i)
        /\ call[t].task[i] = "insert"
        /\ \/ /\ poisoned
              /\ SetTask(t, i, "panic")
              /\ UNCHANGED <<chunks, lru>>
           \/ /\ ~poisoned
              /\ SetTask(t, i, "ok")
              /\ Insert(k, Payload(k, call[t].workers[i]))
        /\ UNCHANGED <<config, img, pool, poisoned>>

\* try_for_each starts no task once it has seen one fail.
Skip(t, i) ==
    /\ Runs(t, i) /\ FansOut(t)
    /\ call[t].task[i] = "todo"
    /\ \E j \in DOMAIN call[t].task : call[t].task[j] = "err"
    /\ SetTask(t, i, "skipped")
    /\ UNCHANGED <<config, img, pool, cache>>

Final == {"ok", "err", "panic", "skipped"}

\* Tasks that run one by one stop at the first failure.
Over(t) ==
    \/ \A i \in DOMAIN call[t].task : call[t].task[i] \in Final
    \/ ~FansOut(t) /\ \E i \in DOMAIN call[t].task : call[t].task[i] \in {"err", "panic"}

Ended(t, st) == \E i \in DOMAIN call[t].task : call[t].task[i] = st

return_workers(t) == pool \o call[t].workers

\* The call returns.  A panic unwinds past the return of the workers.
Finish(t) ==
    /\ call[t].st = "running"
    /\ Over(t)
    /\ \/ /\ Ended(t, "panic")
          /\ call' = [call EXCEPT ![t] = [@ EXCEPT !.st = "panic", !.workers = <<>>]]
          /\ UNCHANGED pool
       \/ /\ ~Ended(t, "panic")
          /\ call' = [call EXCEPT ![t] =
                [@ EXCEPT !.st = IF Ended(t, "err") THEN "err" ELSE "ok", !.workers = <<>>]]
          /\ pool' = return_workers(t)
    /\ UNCHANGED <<config, img, cache>>

-----------------------------------------------------------------------------
TaskStep(t, i) == Start(t, i) \/ Fetch(t, i) \/ Remember(t, i) \/ Skip(t, i)

CallStep(t) == (\E i \in DOMAIN call[t].task : TaskStep(t, i)) \/ Finish(t)

\* Nobody calls: the reader rests.  A call under way never does.
Rest ==
    /\ img # Absent
    /\ \A t \in Threads : call[t].st # "running"
    /\ UNCHANGED vars

Next ==
    \/ Open
    \/ \E t \in Threads : (\E r \in Reads : Begin(t, r[1], r[2])) \/ CallStep(t)
    \/ Rest

Spec == Init /\ [][Next]_vars

-----------------------------------------------------------------------------
Bytes == {Zero, Unread} \cup (Nat \X Nat \X Nat)

Workers == Seq(Bytes) \cup {Absent}

\* A worker that has lost its buffer can be told from one that has it.
ASSUME AbsentAssumption == Absent \notin Seq(Bytes)

TypeOK ==
    /\ config \in Configs
    /\ img = Absent \/ img.ok \in BOOLEAN
    /\ pool \in Seq(Workers)
    /\ DOMAIN chunks \subseteq Nat
    /\ lru \in Seq(Nat)
    /\ poisoned \in BOOLEAN
    /\ \A t \in Threads :
        /\ call[t].st \in {"idle", "running", "ok", "err", "panic"}
        /\ call[t].off \in Nat /\ call[t].len \in Nat /\ call[t].n \in 0 .. call[t].len
        /\ call[t].made \in 0 .. MaxCalls
        /\ call[t].workers \in Seq(Workers)
        /\ call[t].task \in Seq(Final \cup {"todo", "fetch", "insert"})
        /\ call[t].out \in Seq(Bytes)

\* The byte of the image at pos, told from its files and the policy alone: what is
\* stored at its place in its chunk, or zero if the chunk is damaged and the policy
\* or the compression gives its bytes up.
ByteAt(pos) ==
    LET k == pos \div img.chunk_size + 1
        c == Layout(FilesOf(config), k)
        keeps == config.policy = "RawIfPossible" /\ ~c.compressed
    IN  IF k \in config.bad /\ ~keeps THEN Zero
        ELSE <<c.segment, c.data_offset, pos % img.chunk_size>>

\* Every image that opens has its chunks where its files have them.
TableIsLayout ==
    \A c \in Configs : Outcome(c) # Refused =>
        \A k \in DOMAIN Outcome(c).chunks :
            LET entry == Outcome(c).chunks[k]
                place == Layout(FilesOf(c), k)
            IN  /\ entry.segment = place.segment
                /\ entry.data_offset = place.data_offset
                /\ entry.compressed = place.compressed

\* A read that succeeds fills its buffer up to the end of the image with the bytes of
\* the image at those offsets, whatever order its tasks ran in, whatever the buffers of
\* its workers held and whether they came from the cache, and no byte of a damaged
\* chunk under the Error policy.  Only a chunk that is cut short is excepted: read with
\* a worker that was used before, it may have the bytes of the chunk read then, under
\* any policy (read_at_offset, ReadWorker, the chunk tables read at open).
ReadsFollowPolicy ==
    \A t \in Threads : call[t].st = "ok" =>
        LET c == call[t]
            n == Min({c.len, img.image_size - c.off})
        IN  /\ Len(c.out) = n
            /\ \A j \in 1 .. n :
                LET pos == c.off + j - 1
                    k   == pos \div img.chunk_size + 1
                IN  ~CutShort(k) =>
                        /\ c.out[j] = ByteAt(pos)
                        /\ config.policy = "Error" => k \notin config.bad

\* The decoded-chunk cache: its two halves agree, it keeps to its capacity, and it
\* holds whole payloads, whichever tasks raced to fill it (DecodedChunkCache).
CacheConsistent ==
    /\ Len(lru) = Cardinality(Range(lru))
    /\ Range(lru) = DOMAIN chunks
    /\ Len(lru) <= DECODED_CHUNK_CACHE_CHUNKS
    /\ \A k \in DOMAIN chunks :
        IF CutShort(k) THEN Len(chunks[k]) = DecodedLen(k)
        ELSE chunks[k] = Payload(k, <<>>)

\* The files of the image and nothing else are in the directory, every probe has an
\* answer, and the name given begins like the image's first.
Findable(g) ==
    /\ {g.dir[n] : n \in DOMAIN g.dir} = Range(config.files)
    /\ Cardinality(DOMAIN g.dir) = Len(config.files)
    /\ g.unclear = {} /\ g.gone = {} /\ g.scheme \in {"file", "s3"}
    /\ valid_proto_segment_ext(g.proto)
    /\ \A n \in DOMAIN g.dir : n.ext[1] = g.proto[1]

\* An image found by its names has every chunk of it or is not opened: a hole or an
\* unanswered probe never makes a shorter image, and an image that is all there opens
\* from any of its names, past the last number and in either case.  Two things the code
\* cannot tell: a tail of files that hold no chunk may be missing, and with it no more
\* than the stored hashes, since a walk without a done section is only warned of; and a
\* file of another image is taken where it stands under the due name with the due
\* number (validated_segment_paths, open_glob, process_segments).
GlobOpensWhole ==
    LET found   == FoundFiles(config.glob)
        whole   == open_impl(config.files, config.ignore)
        missing == Range(config.files) \ Range(found)
        Stranger(k) == found[k] \notin Range(config.files)
    IN  config.glob # Absent /\ img # Absent =>
            IF img = Refused THEN ~(config.auth /\ Findable(config.glob))
            ELSE \/ \E k \in DOMAIN found : Stranger(k) /\ found[k].number = k
                 \/ /\ \A k \in DOMAIN found : ~Stranger(k)
                    /\ img.chunks = whole.chunks
                    /\ img.chunk_size = whole.chunk_size
                    /\ img.image_size = whole.image_size
                    /\ missing = {} => img = whole

CheckedOut == SumFunction([t \in Threads |-> Len(call[t].workers)])

\* Workers are reused: however many calls fail or overlap, no more exist than the
\* calls under way at one time could need (checkout_workers, return_workers).
WorkersBounded ==
    img \notin {Absent, Refused} =>
        Len(pool) + CheckedOut <= Cardinality(Threads) * Len(img.chunks)

\* A read panics only over a chunk of its own whose payload is shorter than the part
\* it wants: a failure or a panic in one read does no harm to another
\* (ReadWorker, read_at_offset).
PanicsAreContained ==
    \A t \in Threads :
        /\ call[t].st = "panic" => Ended(t, "panic")
        /\ \A i \in DOMAIN call[t].task :
            call[t].task[i] = "panic" =>
                LET p == Payload(ChunkOf(t, i), <<>>)
                IN  ~CutShort(ChunkOf(t, i)) /\ p # Absent /\ EndInChunk(t, i) > Len(p)
=============================================================================
