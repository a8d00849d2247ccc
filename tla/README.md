# A TLA+ model of imagereader-rs

imagereader-rs reads forensic disk images (EWF/E01, VMDK, raw and split raw)
from files or S3, through one block cache, and serves them as libraries, command
line tools and an NBD server. This directory models the parts of it that carry
state: TLA+ modules translated from the source, TLC runs over small instances,
and proofs, checked by TLAPS, about each of those parts. `PROJECT.json` is the index:
it maps each definition to the lines it models and lists runs, mutants, hazards,
findings and theorems.

## The system

```
 NBD clients --> diskimage-nbd --> E01 / VMDK / raw reader --> Cache trait --> FoyerCache --> BytesSource (file, S3)
                 (sessions)        (read_at_offset)                            (tiers, latch, permits)
```

| Part | State it keeps | Operations | What is hard about it |
|---|---|---|---|
| Block cache (`imagesource/src/foyercache.rs`, `fetch_limit.rs`, `cache.rs`) | one or two foyer tiers, `GroupLatch.inflight`, the permits of `FetchLimiter`, the phase flag | `read`, readahead, group fetches, sibling inserts, the phase flip of SIGUSR1, eviction | every miss is a task of its own; tasks share fetches and permits; the store fails, answers short or panics |
| NBD server (`diskimage-nbd/src/server.rs`, `nbd_protocol.rs`, `io_log.rs`) | slot counter, the reader's lock, the byte stream and counters of each session | accept, lock, handshake, requests, panics, end of session | clients hang up at any moment; a poisoned lock; a stream that must stay in step |
| E01 opening (`e01/src/sec_read.rs`, `e01_reader.rs`) | chunk table, volume, hashes | section walk, tables, merge of segments, checks | sizes that contradict one another |
| E01 reading (`e01/src/e01_reader.rs`, `readworker.rs`) | pool of workers, cache of decoded chunks | `read_at_offset`, one task per chunk | parallel tasks, early returns, panics under a lock |
| VMDK (`vmdk/src/vmdk_reader.rs`, `spans.rs`, `extents.rs`, `header.rs`, `storage.rs`) | span map, uncovered map, extents, source indexes | walk up the parent chain, insert and remove spans, reads | overlapping spans of several images in hash order; the same index counted in two places |
| Raw images (`rawdisk/src/*`, `imagesource/src/exists.rs`) | segment list, segment map | probe for segments, open, read across boundaries | a probe that cannot tell; holes; numbers at their limits |
| S3 sources (`imagesource/src/s3_creds.rs`, `s3source.rs`, `urlsource.rs`, `exists.rs`) | shared credentials, refresh lock, credentials and lock of each bucket | resolve, probe, open, refresh, range GET | copies of a credential that expires while tasks wait; answers that are not the range asked for |
| E01 names (`e01/src/seg_path.rs`) | none | the walk over `.E01` ... `.ZZZ` | a probe that cannot tell; the carry from numbers to letters |
| Hashing tools (`e01/src/hasher.rs`, `*/src/main.rs`) | two buffers, two channels per worker, digests | read, update, finalize, compare | buffers that go round between threads; joins; the exit code |
| C APIs (`*/src/capi.rs`) | handles, errors, the memory behind them | open, read, close, free | panics at the boundary; ownership by hand |
| NBD binary (`diskimage-nbd/src/bin/diskimage-nbd.rs`, `server.rs`) | how far the start has come, SIGUSR1 handler | format, logs, handler, bind, open, serve | each step may end the process with clients waiting |
| Not modelled (below) | | generated parsers, text of descriptors and URLs, file I/O, log lines, benchmark | |

A reader calls `Cache::read` and nothing else of the cache; the cache calls
`BytesSource::read`. So the cache is modelled on its own and shown to implement
the trait's promise (`ReadService`), and the readers are modelled over sources
that answer or fail, which is what that promise leaves them.

## Modules

| Module | Models | Remarks |
|---|---|---|
| `FetchGeometry` | the arithmetic of blocks, groups, readahead and copying | pure operators |
| `FoyerCache` | the cache | extends `FetchGeometry` |
| `ReadService` | what the `Cache` trait promises | abstract specification |
| `FoyerCacheProofs` | proofs about the cache | |
| `NbdServer` | accept loop, sessions, protocol | |
| `NbdStartup` | the start of the server process | extends `NbdServer`, composes the start with it |
| `NbdProofs` | proofs about both | |
| `E01Open`, `E01SegPath`, `E01Reader` | opening, finding the files, reading | `E01Reader` extends both others; proofs in `E01ReaderProofs` |
| `VmdkSpans`, `VmdkReader` | the span maps, the reader | `VmdkReader` extends `VmdkSpans`; proofs in `VmdkProofs` |
| `RawdiskReader` | discovery and reading of raw images | proofs in `RawdiskProofs` |
| `S3Source` | credentials, probes, sources and reads of an image on S3 | proofs in `S3SourceProofs` |
| `HashVerify` | the hashing tools | proofs in `HashVerifyProofs` |
| `CApi` | the C interfaces | proofs in `CApiProofs` |
| `MC*` | values of the constants for the runs | |

Throughout, a byte of data is the place it was stored at (source and offset), so
that "the right bytes" can be said without contents, and a definition written
`\* Mutant:` is a plausible bug of the definition after it: no action uses it, and
each property is known to fail when one of them takes its original's place.

### FoyerCache

* `read[r]` is where reader `r` stands in `Cache::read`: the leader pass over the
  groups of a large read, the demand pass, the copy, the readahead loop.
* `task` holds the runs of `route_block`: the demanded blocks of a read, and the
  prefetches, each named after the permit it was spawned with. `LoadPhase`,
  `GetMetadata`, `GetContent` and `GetOrFetch` are its await points; between them
  anything may happen.
* `flight` is what foyer's `get_or_fetch` keeps per tier and key. `OpenGet`,
  `JoinGet`, `FillSiblings` and `Finish` are the steps of the future that
  `make_fetch` builds.
* `get` is the read of the store behind it, shared through `GroupLatch` if a group
  has several blocks. `AcquirePermit`, `SourceRead` and `Retire` are
  `fetch_range` and the end of `GroupLatch::fetch`.
* `free` and `waiting` are the semaphore, with tokio's first-in-first-out queue.

Assumptions about foyer, which is not part of the repository, from how it is used:
at most one fetch per tier and key; a call that joins drops its own closure, with
the permit in it, at once; the fetch runs on a task of its own, so that a caller
who leaves does not cancel it; `get` is a plain lookup; an entry may vanish at any
time. A panic of the store is modelled on the latch path, where the code catches
it; on the one-block path it would be caught by foyer's own task, of which the
code says nothing.

Requests lie inside the source (`RequestAssumption`). The raw reader sees to that; the
E01 and VMDK readers take offsets from chunk tables, grain tables and descriptors, and a
damaged image can make them ask for blocks past the end of a file. What the cache does then
(a size that wraps, see the hazard at `foyercache.rs:406`) is outside the model.

### NbdServer

`pc[c]` is the state of the connection and its thread. The accept loop looks at the
slot counter (`Accept`) and swaps it (`TakeSlot`) in two steps. A session holds
`owner`, the reader's lock, from the handshake to its end, as in the code. Replies
are appended to `sent[c]`, whose data are image offsets; `owed[c]` counts payload
bytes a refused write has left in the stream. `HangUp` may come at any time, after
which the next step of the thread that touches the stream is `StreamFails`. `io_log` is the log's
flag and its count of reads: the first session has it opened anew, which may fail, an error
`serve_connection` ignores; the log then counts nothing until a later session succeeds.

### NbdStartup

`boot` is how far `run` and `run_serve` have come. Each step goes on or ends the
process, which closes the listener and with it every connection nobody accepted. A
Unix socket listens from `BindUnix` on, while the image is opened; a TCP socket only
once the image is open. `Sigusr1` may come at any moment of the start: with the handler
registered it sets the flag, without it kills. Once the start is over the process is
`NbdServer` (`MainNext`), so that the runs of the server begin in every state the start
can leave.

### E01Open, E01SegPath and E01Reader

`E01Open` is the function from segment files to an image or a refusal. `Layout`, at
its end, says from the files alone where the k-th chunk is, and is what reads are
compared with. `E01SegPath` is the function from a name and a directory to the list of
files, with probes that may have no answer; an extension is a sequence of a letter and
a number or of three letters, over small alphabets. An image is opened from its files
or found by a name (`open_glob`), and a file found may be gone when it is opened. In
`E01Reader` each call checks out workers, runs one task per chunk
(in any order if it fans out, else one after the other), and returns the workers.
A task takes the lock of the decoded-chunk cache in separate steps for the lookup
(`Start`) and the insert (`Remember`). Deflate and checksums are abstracted to
whether a chunk is bad or its stream cut short; what each corruption policy then does is
not. A worker is what is left in its decoder's buffer, since the decoder is given the whole
of that buffer and not only the chunk's bytes: the stream of a chunk that is cut short, or
that has no stored bytes at all, goes on in what the worker read before (`Inflated`,
`Refilled`, `Overlaid`). A stream that ends or fails within its chunk comes to the same
whatever is behind it. Bytes of a raw chunk are taken for no stream, and a stream goes on in
another one at the position it broke off. The names in `dir` are those a probe sees: a
segment on S3 that is answered with 403 is not among them.

### VmdkSpans and VmdkReader

One turn of the loop of `insert_span` or `remove_span` is one step, and grains of an
extent come in any order, as from the code's hash map. A header is a record of the
fields that decide something (type, capacity, granularity, table length,
compression, zero grains) and `HeaderFails` has the checks on it. Reading bytes of
headers, tables and compressed grains is abstracted to its outcome. VMDK3 headers
have a granularity of at least 1 here; see the hazard at `header.rs:202`.

### RawdiskReader

Each probe of `segment_paths` is a step with three outcomes: there, not there,
cannot tell (`Undetermined`, which refuses the image). A name S3 answers with 403 is
not `Visible`: counting it as absent is the code's stated policy, so that
`OpenedIsImage` is about what is visible, and `MissingIsUnseen` says of a name that is
reported missing that no probe can see it, not that it is absent. Numbers are written to the base `RADIX`,
and `U64_MAX` and `USIZE` are small, so that widths run over, numbers reach their
limit and a length exceeds a `usize` within the bounds. As in the code, an image
opened at `.01` runs on from `.99` to `.100`, while `.100` named by itself is a
three-digit name and opens alone.

### S3Source

The opener resolves credentials, probes for the segments and opens a source for each;
then fetches read. `auth.shared` is `shared_creds`; `bucket[b]` is the copy each bucket
signs with (0 is that of the probes); `refresh` is the refresh lock, held over the call
to the provider; `waiting[b]` and `reading[b]` are the fair read-write lock around a
bucket. `Clone`, `Compare` and `WriteCredentials` are the await points of
`sync_credentials`, between which another fetch may write a newer or an older copy.
A credential has the expiry the provider tells (or keeps back) and the time the service
stops accepting it. The code bounds no wait; the model does what `EXPIRY_SKEW` is
chosen for and lets no task wait longer than `Delay` between its freshness check and
its signature. The margin has to be `2 * Delay` (`DelayAssumption`): with a margin of
`Delay` alone TLC finds a GET signed with an expired credential, because a task may
sign with the copy another task cloned just inside its own margin.

### HashVerify

The reading thread (`main`), the workers with a `full` and an `empty` channel of one
place each, and the two buffers between them. A byte is its position in the image, a
digest is the sequence of bytes it was fed, and a short read leaves the old tail in the
buffer, as in the code. `Recv` has the panic of `Arc::into_inner` as a state. `finalize`
is the lazy iterator it is in the code: the channels of one worker are dropped, then it
is joined, then the next. The rawdisk and vmdk tools are the loop without workers.

### CApi

A piece of memory is named after what it belongs to and its role; `heap` is what is
allocated. Callers keep to the "Safety" sections of the entry points: own error slot,
one close, no close under a read, one free. They may pass null anywhere, policies out
of range, and a slot that still holds an error, which is then lost to them (`dropped`),
as the documentation of the entry points says. A read is two steps, so that the calls
of other threads fall between.

## Runs

| Run | Question | Checks |
|---|---|---|
| `cache_live` | one tier, two readers, one permit, groups of two blocks of which the last is short, failing lookups, panicking store reads: do permits and latch stay exact, does every call return and every permit come back? | `TypeOK`, `PermitsConserved`, `LatchConsistent`, `ImplementsReadService` (refinement, liveness included), `PermitsReturn` |
| `cache_dual` | two tiers while the phase flips, store reads come back short, entries are evicted; a fetch size that is no multiple of the block size, a read across two groups against one of a block of it | `EntriesAreWhole`, `ReadsAreExact`, `MetadataIsRouted`, `FailuresHaveCauses` |
| `nbd_server` | the start with faults, signals and early clients; then three clients, two slots, one lock, panics, hang-ups and a log that cannot be opened again | `TypeOK`, `StreamInSync`, `LogCountsSession`, `SlotsMatchSessions`, `LockIsTaken`, `AllComesBack`, `SignalSurvived` |
| `e01_read` | images found by name, with holes, strangers, missing tails, unanswered probes and files that vanish; two threads, overlapping reads, images of each kind and policy, chunks cut short | `TypeOK`, `ReadsFollowPolicy`, `CacheConsistent`, `WorkersBounded`, `PanicsAreContained`, `GlobOpensWhole` |
| `e01_pool`, `e01_poison` | does a failed or panicking read harm another? (violated) | `PanicsAreContained` |
| `vmdk` | chains of up to three images of all kinds of extent, whole, cyclic and broken | `TypeOK`, `UncoveredExact`, `SpansTile`, `ImagesOnce`, `ReadsMatchChain` |
| `vmdk_split` | does the walk stop once every sector is covered? (violated, by an empty extent) | `StopsWhenCovered` |
| `rawdisk` | every subset of a few segment names, opened at every name | `OpenedIsImage`, `MissingIsUnseen`, `ReadsMatchSegments` |
| `s3_source` | two objects, two fetches, credentials that expire, segments denied, faults of provider, probes, lengths and GETs | `SignedWhileValid`, `OpenedWhole`, `AnswersAreExact`, `TasksFinish` |
| `hash_verify` | three hash types, images of 0, 1 and 5 bytes through buffers of 2, all stored hashes, failing opens and reads | `BufferIsSole`, `DigestsWhole`, `ExitTellsMismatch`, `Terminates` |
| `capi` | two threads, two handles, the three formats, good and bad arguments, failures and panics | `NothingLeaks`, `ErrorTells` |

`S3Source`, `HashVerify`, `CApi` and `RawdiskReader` state their types in `TypeOK` too;
it documents the state and belongs to no run.

### Bounds

* Cache: a block is 2 bytes, the least at which it can be short or a read can start
  inside it. Two readers are enough for a task to find a fetch running, just ended, failed
  or evicted. One permit makes everyone compete for it. Readers repeat their reads without
  limit. In `cache_live` a source has one group of 2 blocks, the second one byte long, and
  readers read ahead. In `cache_dual` it has 3 blocks in two groups, of 2 and 1: a fetch
  size of 5 that was not rounded would start the second group at 5, off the blocks; a read
  of bytes 3 to 5 starts inside a block, leads both groups and is copied in two turns; a
  store read of 3 bytes has one whole block of the first group and half of the next.
  Readahead and failing lookups are left to `cache_live`, to keep this run small; the theorems
  have them in both modes.
* S3: two objects give a walk with a middle; a lifetime of 3 on a clock of 3 lets a
  credential run out and be renewed; two fetches give each other stale copies.
* Hashing: 5 bytes through buffers of 2 bring each buffer back into use and end on a
  short one. Three workers show every order of their replies.
* C API: three errors for two slots leave one to be overwritten; `MaxPaths` = 2.
* NBD: three connections for two slots and one lock give a holder, a waiter and a
  refused one; a buffer of 2 bytes under an image of 4 gives reads and writes of
  two buffers, whole and partial; a flush, which is answered at once like a command nobody
  knows but without an error, is left out; `MaxRequests` = 2 gives every command a successor in
  the stream. Each connection is made once.
* E01: chunks of 2 bytes, an image of 5 in two files: a full raw chunk, a full
  compressed and a partial one, and in two configurations a compressed chunk that is cut
  short or empty between two others; the cache of decoded chunks holds 1, so that it
  evicts. `MaxCalls` = 3 is the least with two calls overlapping and one after
  them. The threads are symmetric.
* VMDK: sectors of 2 bytes, disks of a few sectors, grains of 1 and 2 sectors with
  tables of two entries; enough for each overlap of a span with its neighbours.
* Raw: four or five names in each of three families (two digits with the run-over to three,
  three digits, the largest number), one segment longer than a `usize` can say.

### Fairness and deadlock

* `cache_live`: weak fairness of each reader, task, flight and store read. The tokio
  runtime polls every ready task, each runs until it awaits, and a store read is
  taken to end in some way. Nobody is obliged to start a read, flip the phase or
  evict. Tokio's semaphore is fair by its queue, which is in the model, so that no
  strong fairness is needed.
* `nbd_server`: weak fairness of the accept loop and of the steps of a session thread
  that wait for no client. A client owes nothing. `std::sync::Mutex` is not fair, so
  nothing is said about a particular waiter, only that the lock does not stay free
  (`LockIsTaken`). A quiet client holds the lock for as long as it likes; nothing in
  the code times out. The run does not check deadlock because a server all of
  whose clients are done or quiet rests.
* `nbd_server` also has weak fairness of the start: `main` runs on to its end.
* `s3_source`: weak fairness of the opener and of each fetch; provider and service answer
  or time out. The fair lock is in the model as its queue.
* `hash_verify`: weak fairness of the reading thread and of each worker: the operating
  system runs threads that can run.
* E01, VMDK, raw, C API: safety only. A reader at rest stutters explicitly (`Rest`), so that
  TLC's deadlock check says that an opening or a read under way always has a
  next step.

## Findings

* `e01_pool`: `read_uncompressed` returns early on a failed read or a bad checksum
  without giving the worker its buffer back. The worker goes back into the pool and
  the next read that gets it panics over a sound chunk. This needs the decoded-chunk
  cache to be off.
* `e01_poison`: a raw chunk shorter than a read wants makes the slice of a cache hit
  panic with the cache's lock held; every later read of the image then panics at
  `lock().unwrap()`, which contradicts the recovery the NBD server relies on.

* `vmdk_split`: an extent of 0 sectors, which the parser of descriptors takes, splits the
  uncovered part of the disk into two spans that touch. `remove_span` goes on from the end
  of the first with `Excluded`, and so misses the second one. The walk up the chain then
  does not stop when every sector is covered, as the comment at `vmdk_reader.rs:323` says,
  but opens every further image, and fails if one of them is missing that nobody needs.

### Where comments and code disagree

* `foyercache.rs` 529 to 532, at the head of `route_block`, says that siblings of a
  coalesced fetch go into whichever cache the block is being routed to. They go to the
  content tier in both phases: the three calls of `make_fetch` (542, 570, 583) pass it as
  the sink, and the comment on the metadata phase (549 to 555) gives the reason.
  `MetadataIsRouted` is what the code and that second comment say; under the first one
  it would be false of a read in the metadata phase.
* `exists.rs` 109 to 113, on `S3Checker::sync_credentials`, says that the checker refuses to
  read a 403 as absent, so that an open fails rather than truncates. It does read it so
  (149 to 157, 200 to 224), with a warning that a permission problem opens a short image.
  `OpenedWhole` says how far the damage goes: a 403 of a credential that ran out is harmless,
  since the HEAD that follows fails too; a 403 that denies a good credential the segment
  after the last one served is the one way to a short image.
* `foyercache.rs` 394 to 401 says that with one block per group foyer already fetches a key
  only once, and that the latch earns its keep with two tiers; but with one block per group
  it is skipped with two tiers as well, so that a read from before the phase flip and one from
  after it fetch the same block at once. The cost is a second GET.

### What the code does without saying

* A compressed chunk that is cut short, or whose table entry has a length of 0
  (`sec_read.rs` takes equal offsets, `checked_chunk_len` a length of 0), is inflated into
  the leftovers of its worker (`readworker.rs` 86 to 106). On a worker that was used before,
  a read of it can succeed with another chunk's bytes, under `CorruptChunkPolicy::Error`
  too. The configurations `Broken` of `e01_read` reach this; `ReadsFollowPolicy` excepts just
  these chunks.
* An image found by name may lack a tail of files that hold no chunk: a walk without a done
  section is only warned of (`e01_reader.rs` 396 to 398). It then has all its bytes and not
  its stored hashes. A file of another image is taken if it has the due name and number,
  as nothing else tells files apart. Both are in the configurations of `e01_read` and in
  what `GlobOpensWhole` says.
* If the log of the NBD server cannot be opened anew for the first session, that session is
  not counted at all (`io_log.rs` 106 to 128, `server.rs:254`). `LogCountsSession` says so.
* A segment of a raw image that S3 answers with 403 is reported missing though it is there
  (`MissingIsUnseen`).

## What is proved

The theorems hold for every value of the constants that the named assumptions of a
module allow; fairness plays no part in them. TLC checks the properties
themselves on the runs' instances.

### The cache

For `FoyerCache` with any sources, block size, fetch size, readahead, set of readers,
finite set of permits, one tier or two, and any of the faults. Assumed: sizes are
natural numbers and the block size and length are not 0, requests lie inside the
source, and `None` is no permit, no number and no bytes.

| Theorem | States | Rests on |
|---|---|---|
| `TypeCorrect` | `Spec => []TypeOK` | `TypeInv` |
| `LatchIsConsistent` | `Spec => []LatchConsistent` | `TypeInv`, `LatchInv` |
| `QueueIsExact` | `Spec => []QueueMatchesReads` | `TypeInv`, `LatchInv` |
| `PermitsAreConserved` | `Spec => []PermitsConserved` | and `PermitInv` |
| `StoreReadsAreBounded` | `Spec => []StoreReadsBounded` | and an injection from store reads to permits |
| `EntriesStayWhole` | `Spec => []EntriesAreWhole` | `TypeInv`, `DataInv` |
| `ReadsStayExact` | `Spec => []ReadsAreExact` | `CallerInv` |
| `ImplementsReadServiceSafety` | `Spec => Service!Safety` | `CallerInv` |
| `MetadataStaysRouted` | `Spec => MetadataIsRouted` | `TypeInv` |
| `FailuresAlwaysHaveCauses` | `Spec => FailuresHaveCauses` | `TypeInv`, `DataInv` |

None of the properties is inductive by itself, and the invariant is built in layers,
each of which takes the ones before it for granted:

* `TypeInv` adds to the types that a task in progress has a key (that of its own block
  if it is a demand), that a read in progress has a request of its reader's, and that
  a store read that runs has a permit.
* `LatchInv` is `LatchConsistent`, `QueueMatchesReads` and `Shape`: a flight has a permit
  only before it starts, a store read only while it runs, and a prefetch is never
  parked on a flight. The first two need each other, since `Retire` wakes whoever is
  joined and `OpenGet` enters a read in latch and queue at once.
* `PermitInv` is that each permit is held somewhere and that each holder is the only
  one, place by place. It is what makes moves from task to flight to store read, and
  the drops on joining, keep the count.
* `DataInv` is that bytes on their way, in store reads, flights and tasks, are what
  the store has at the start of their group or block; with the lemma `CutIsWhole`
  (what `make_fetch` cuts out of a group is a whole block) every insert keeps
  entries whole.
* `Answers` ties the buffer to the request. The lemma `CopyIsExact` is the heart: the
  copy loop over whole blocks yields exactly the bytes asked for. `CallerInv` is the
  conjunction of the layers a caller depends on.

`QueueMatchesReads` and `StoreReadsBounded` are proved and in no run. The lemma
`GroupSizeFacts` shows for every size what `FailuresHaveCauses` depends on: a group is a
multiple of the block size. So a block starts on the grid of its group and is cut out of
bytes that reach to the end of the group (`WholeGroupServes`), and whole blocks can always be
copied out (`CopySucceeds`), to the last byte of an empty or unaligned read. The refinement maps the passes of a read to `busy`, the
readahead loop to `answered`, and every step of the other actors to a stutter.
The first lemmas are the arithmetic: alignment, group sizes and `step_by` ranges.

### The NBD server

For `NbdStartup` with the server it starts: any set of connections, limit of sessions,
image size, buffer size and set of requests (`NbdAssumption`: sizes are numbers, limit
and buffer are not 0, requests are records of the protocol's fields).

| Theorem | States | Rests on |
|---|---|---|
| `NbdTypeCorrect` | `MainSpec => []TypeOK` | `TypeInv` |
| `SlotsStayExact` | `MainSpec => []SlotsMatchSessions` | `AcceptInv` |
| `OneSessionTalks` | two sessions never talk at once | `LockInv` |
| `StreamStaysInSync` | `MainSpec => []StreamInSync` | `SessionInv` |
| `LogStaysExact` | `MainSpec => []LogCountsSession` | `LockInv`, `SessionInv` |
| `SignalIsSurvived` | `MainSpec => SignalSurvived` | `BootInv` |

`StreamInSync` looks at whole replies only; inductive is what a session owes at each
step: between two requests nothing (`HeaderInv`), in `drain` exactly the rest of the
payload (`DrainInv`), in `serve_read` either no reply yet or a successful one that lacks
exactly `remaining` bytes (`ServeInv`). The log is shared by all sessions, so its count, if it
counts, is preserved only because one session talks at a time, which is `LockInv`: the states in
which a session talks are those in which it owns the reader. `BootInv` says that
nothing of the server has moved before it is up and that the signal handler is there
before the socket is.

### The E01 reader

For `E01Reader` with any images, files and options, any finite set of threads, any reads
and any capacity of the cache of decoded chunks. Assumed (`E01Assumption`,
`ImageAssumption`): lengths and offsets are natural numbers, and an image that opens has
a table of such numbers.

| Theorem | States | Rests on |
|---|---|---|
| `TypeCorrect` | `Spec => []TypeOK` | `Inv` |
| `CacheIsConsistent` | `Spec => []CacheConsistent` | `CacheShape`, `Holds` |
| `WorkersAreBounded` | `Spec => []WorkersBounded` | `PoolBound` |
| `ReadsAreOfTheTable` | `Spec => []ReadsFollowTable` | `CallsInv` |
| `ReadsAreOfTheImage` | `Spec => []ReadsFollowPolicy` if `TableIsLayout` | the one before |
| `PanicsStayContained` | `Spec /\ []NothingSpills => []PanicsAreContained` | `Inv`, `Told` |

`ReadsFollowPolicy` speaks of reads that are over. Inductive is what each task has done at
each moment, in whatever order they run (`CallsInv`): the tasks' chunks cover the buffer
without a gap (`InRange`), and the part of a task that has copied holds the bytes of
its chunk (`Filled`), which the copies of the other tasks do not touch. That needs
what the cache hands out to be the chunk's payload (`Holds`), and so the cache's part of
the invariant needs the calls' and the other way round. The lemmas `ChunkOfByte`,
`TaskFacts` and `PartFacts` are the arithmetic: which chunk a byte is in, that
a read has one task for each chunk it touches and no more than it has workers, that
the parts meet. `PoolBound` sums the workers of all threads; that a step of one of them
moves the sum by what its own share moves is `SumChange`.

`ReadsAreOfTheTable` says that the bytes are those of the chunk table, for every chunk but
a compressed one that is cut short. For the others it takes that what they come to does not
depend on the worker they are read with, whatever its buffer holds. That the table has
the chunks where the files have them is what `process_segments` computes from the
sections; `TableIsLayout` says so, is supposed by `ReadsAreOfTheImage`, and
TLC evaluates it for the images of all E01 runs (`MCAssumption`).

`PanicsAreContained` is false of the code as it stands (`e01_pool`, `e01_poison`).
`PanicsStayContained` says that those two findings are all there is to it: where every
payload that may be cached is as long as its part of the image, and
`read_uncompressed` has no reason to return early (`NothingSpills`), no lock is
ever poisoned, no worker comes back without its buffer, and the only panics are those
over a chunk too short for the read. `NothingSpills` holds in every state of `e01_read` and
fails as soon as the image is open in the two other runs.

The recursive functions of the model (`Without`, `AllTouched`, the fold in
`SumFunction`) are reasoned about by induction over a set of numbers: a theorem
that takes a predicate cannot be used here, but the least-element principle of a
well-founded relation can (`LeastNatural`, `Induction`), and with it the existence of the
recursive function (`AddsExists`, `KeepsExists`, `TouchesExists`) and what it computes.

### VMDK images

For `VmdkReader` over any disks: chains of any length, any extents, headers and tables,
grains in any order. Assumed (`VmdkAssumption`, `ImagesAssumption`, `DisksAssumption`,
`TablesAssumption`): sectors and offsets are numbers, sizes are not 0 where the code
divides by them, a VMDK3 header has a granularity of at least 1, there are finitely many
images, and a second-level table of a header that is not refused has one number per
grain, which is what the parser reads (`l2_len` entries) or fails.

| Theorem | States | Rests on |
|---|---|---|
| `WalkInvariance` | `Spec => []Inv` | |
| `UncoveredIsExact` | `Spec => []UncoveredExact` | `Inv` |
| `StopsUnlessEmpty` | `Spec => [](ExtentsHaveSectors => StopsWhenCovered)` | `Inv` |
| `ImagesAreTiled` | `Spec => []SpansTile` | `Inv` |
| `ChainsAreOnce` | `Spec => []ImagesOnce` | `ChainOnce` |
| `PlacesInvariance` | `Spec => []Placed` | `Inv`, `ImagesOnce` |
| `ReadInvariance` | `Spec => []ReadRight` | `Inv`, `Placed` |
| `ReadsTheChain` | `Spec => []ReadsMatchChain` | `Inv`, `ReadRight` |
| `TypesHold` | `Spec => []TypeOK` | `Inv`, `Placed`, `ReadRight` |

A map is read as the set of its sectors, `Has(m, s)`, and a span of the map of extents as
one owned by an extent, `Owns(m, s, v)`. Two lemmas are the heart: `TurnRemoves` and
`TurnInserts` say what one turn of `remove_span` and of `insert_span` does to a map of
disjoint spans, in each of their cases: what is removed or filled, what stays, and where
the next turn goes on. A turn leaves a map in order, and moves `sbeg` to where everything
before it is done. `Inv` has the same for the walk around the turns:

* `AllThere`: at any moment each sector of the disk is in a span, uncovered, or in the gap
  that is being filled with zeros; and of the piece at hand, what is behind `sbeg` is
  in a span already, all of it before any is taken from uncovered. So no sector is lost
  to both maps. `FirstThere` is the same for a disk of no sectors, which has a span too.
* `TodoWhole`, `CurFits`, `SpansFit` and `UncoveredFits`: the extents to come, the piece at
  hand and what is uncovered lie on the disk, and each span of the map lies within the
  extent it leads to.
* `CutExactly`, if no extent is empty: no sector is in a span and uncovered, bar the
  piece under way. It takes that two uncovered spans never touch, which is what an empty
  extent breaks: the first attempt to prove the maps to be complements failed on that
  case and led to the finding of `vmdk_split`. `UncoveredExact` says so: the
  inclusion that reads depend on is unconditional, the equality is for extents that
  have sectors.

That the map tiles the disk follows once the gaps are filled: every sector is owned, spans
are disjoint and not empty, and so, listed in order (`Ranks`, `StartsFacts`), each begins
where the one before ends (`OpenTiles`). Where an extent starts is a recursive function over
the descriptors (`StartFacts`), reasoned about by the least-element principle as in the E01
proofs.

`Inv` says that a sector has a span, not whether it is the right one. `Placed` does:

* `Chained`: the chain is the line of parents, from the image opened to the one at hand,
  all of one size, and what nobody has is made zeros only after the last of them.
  `LineageIs` shows that it is then the `Lineage` that the property speaks of, a recursive
  function over the parent hints that knows nothing of the walk.
* `Sourced` and `PiecesAre`: the extents in the map have source numbers below `idx`,
  those to come have theirs from there on, and each leads to the file of its extent. The
  index is counted twice in the code, by `read_extents` and by the loop over the images;
  that the two agree is this part.
* `Nearest`: each sector that a span has leads to the nearest image that has it, or to zeros
  if none of them has it. `NothingMissed`: a sector without a span is had by no image so
  far but the one at hand, where it is still to come. Each needs the other: a span is only
  put where there is none, so what is put must be what nothing nearer has.

A read is then followed from the map to the byte. `SectorSpans` and `ByteSector` take a
byte to its sector and span, `StoredIs`, `FlattenIs` and `EntryIs` a sector of a sparse
extent to the entry of the grain tables laid in a row, and `StorageReads` says of each kind
of storage that it returns the bytes of its extent or fails for one that cannot be had.
`FirstSpan` and `NextSpan` say that the loop of `read_at_offset` starts at the span that
has its offset and finds the next one not empty, which is where it counts
that the spans tile the disk. `ReadRight` is the invariant of the loop: what a read has is
the bytes of the chain from its offset on, as many as it has advanced. It speaks of a
failed read too: it began past the end, or some byte it was asked for lies in a part of
a file that cannot be read.

### Raw images

For `RawdiskReader` with any files and names, any base of the numbers, any width of a
`usize` and any reads that fit one (`RawdiskAssumption`, `ImagesAssumption`).
`OpensWholeImage`, `ReportsMissing` and `ReadsAreOfTheSegments` state the three
invariants of the run. `Discovery` is what each probe knows from the ones before it:
above all that every name from `first` to `n` is there while the walk lasts (`Walked`),
that neither `0` nor `1` is on the way down, and that `near` tells of the neighbour
below. It does not depend on how a number is written, only on the number being part of the
name, so that a step can be followed without knowing the widths. The set `Joined`
of the specification is bounded by the number of files; `JoinedIs` shows that the walk
never leaves that bound, by mapping the numbers it passed into the files. `Registered`
says that the segments opened so far are the first of those found, none of several
empty, and `Reading` that what a read has is what `Content` has at its offset.
`AccFacts` and `FlattenFacts` put byte `k` of segment `i` at `starts[i] + k`, and
`LocateFacts` shows that whichever segment the search comes up with has a byte at
the offset, which is why `take` is never 0. That is where the refusal of empty
segments is needed.

### The C interfaces

For `CApi` with any number of threads, handles, errors and segments
(`CApiAssumption`: addresses of handles and errors differ, and null is none).
`NothingEverLeaks` states `NothingLeaks`, `ErrorsAlwaysTell` the action property
`ErrorTells`. `NothingLeaks` equates two sets of memory; inductive is the same said
address by address (`MemoryInv`) with the fact that an error has one owner, a slot or
the heap of what the caller overwrote (`SoleOwner`): with two, freeing one would free
the other's memory. `MemoryInvariance` is that invariant. Neither says anything of a call
under way: an open is one step, and allocates nothing before it returns.

### The hashing tools

For `HashVerify` with any finite set of hash types, any length of the buffers but 0 and
any image (`HashAssumption`, `BufAssumption`, `NoneAssumption`). `BufferStaysSole`,
`DigestsAreWhole` and `ExitCodeTells` state the three invariants of the run.
`BufferIsSole` speaks of the moment in which the reading thread fills its buffer. What
is inductive is where both buffers are for each worker at every moment (`PlaceInv`):
a worker the reading thread has not got to yet in its round has one buffer, one it has
sent to has two, with the older always ahead of the newer, and one whose channels are
dropped hashes what it has left and ends. `DigestInv` then says that a digest is the image
up to what was sent less what is at hand and queued, and that those buffers carry what
comes next. `DigestsWhole` follows when both are zero, and the exit code from the
digests.

### S3

For `S3Source` with any number of fetches and segments, any lifetimes and clock.
`AlwaysSignedWhileValid`, `AlwaysOpenedWhole` and `AnswersStayExact` state the three
invariants of the run. Assumed (`DelayAssumption`): `EXPIRY_SKEW` is at least
twice `Delay`, the longest wait between the freshness check and the signature, and new
credentials live longer than that; the code has no such bound on waits, only a skew that
is large against them. One `Delay` would not do: a fetch may be overtaken by another
one that puts its own, older snapshot into the bucket. `FetchInv` therefore gives more
than `2 * Delay` of validity to the snapshot a task takes and more than `Delay` to the
bucket's copy it signs with. `CredsInv` (a credential is known by its id) is
what makes "the bucket has the same id" mean "the same credential". `OpenedWhole`,
despite walks that end early on a 403, rests on `WalkInv`: such a walk ended either with
a segment denied to a good credential, which is what the property admits, or with a
credential that is refused and never renewed, so that no HEAD can succeed after it. The
queues of the two locks play no part in any of this.

### Only model-checked

* All liveness, which is out of the prover's reach: `ImplementsReadService`'s liveness
  half, `PermitsReturn`, `LockIsTaken`, `AllComesBack`, `TasksFinish`, `Terminates`.
* What opening computes from the files: `SectionWalk` and the merge of segments
  (`TableIsLayout`), which nest several recursions.
* `GlobOpensWhole`, for the configurations of `e01_read`: an image found by its names has all
  its chunks or is refused, but for a stranger under the due name and number. Its proof would
  need the merge of the segments, as above.
* `TypeOK` of `RawdiskReader`, which is in no run: that a name's width is a number rests on
  what exponentiation does, of which the provers know nothing.

## Not modelled

* The parsing of paths, URLs and endpoints, and file I/O: string handling and system
  calls. A read of a file is a store read with all the outcomes the cache handles.
* The text of VMDK descriptors and the bytes of headers, tables and sections; the
  Kaitai-generated parsers; inflating; checksums.
* The cursor of `CacheReadSeek` (each read takes its own), the lock of the source table,
  the benchmark, the wording of errors, build information, and log lines other than the
  counters of the NBD server and the start of the trace.
* Sizes near 2^64 in E01 and VMDK volumes: numbers are unbounded there.

## Plan

Done, in this order: the block cache and its promise with proofs; the NBD server; E01
opening and reading; VMDK; raw images; S3 credentials and sources; E01 segment names;
hashing; the C APIs; the start of the NBD server.

Proved in the end: that reads of a VMDK image return the bytes of its chain.

Not done: the readers over `ReadService`, so that a read of an image would be composed
with the promise of the cache.

## Running

`tlc -config cache_live.cfg MCFoyerCache` checks a run; `PROJECT.json` lists the module
and configuration of each. `tlapm FoyerCacheProofs.tla` checks the proofs of a
module.
