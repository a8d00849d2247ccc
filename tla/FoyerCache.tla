----------------------------- MODULE FoyerCache -----------------------------
(***************************************************************************)
(* imagesource::FoyerCache: the block cache every image reader reads       *)
(* through (imagesource/src/foyercache.rs, fetch_limit.rs).                *)
(*                                                                         *)
(* Actors, all interleaved:                                                *)
(*   readers    threads inside Cache::read;                                *)
(*   tasks      one run of Tiers::route_block each: the demanded blocks of *)
(*              a read, polled together by try_join_all, and the prefetch  *)
(*              tasks a read spawns and leaves behind;                     *)
(*   flights    the fetch of one key into one tier.  foyer's get_or_fetch  *)
(*              (external) keeps at most one per (tier, key) and drives it *)
(*              on a task of its own, so no reader can cancel it;          *)
(*   gets       reads of the backing store.  With several blocks per group *)
(*              a get is an entry of GroupLatch.inflight, shared by the    *)
(*              flights of that group; with one block per group the latch  *)
(*              is skipped and each flight has a get of its own;           *)
(*   the signal thread that ends the metadata phase, and foyer's eviction. *)
(*                                                                         *)
(* A permit of FetchLimiter is a token, so that who holds which permit can *)
(* be told: a prefetch task is named after the permit it was spawned with. *)
(***************************************************************************)
EXTENDS FetchGeometry, FiniteSets, Sequences

CONSTANTS
    Readers,    \* threads that call Cache::read
    Sources,    \* indexes of the registered sources
    End,        \* length in bytes of every source
    Chlen,      \* block size in bytes
    FetchSize,  \* requested fetch size in bytes
    Readahead,  \* blocks to prefetch after a read
    Permits,    \* the tokens of the FetchLimiter semaphore
    Dual,       \* TRUE: dual_hybrid, FALSE: single_memory
    Requests,   \* per reader, the reads it may make: records [idx, off, len]
    Faults,     \* what may go wrong: subset of FaultKinds
    ShortReads, \* lengths at which the store may cut an answer off
    MayEvict,   \* whether foyer may evict
    None        \* absent entry, absent permit, failed fetch

FaultKinds == {"error", "panic", "long", "lookup"}

ASSUME GeometryAssumption ==
    /\ End \in Nat \ {0}
    /\ Chlen \in Nat \ {0}
    /\ FetchSize \in Nat
    /\ Readahead \in Nat

ASSUME RequestAssumption ==
    \A r \in Readers : \A q \in Requests[r] :
        /\ q.idx \in Sources
        /\ q.off \in Nat
        /\ q.len \in Nat
        /\ q.off + q.len <= End

ASSUME ModeAssumption ==
    /\ Dual \in BOOLEAN
    /\ MayEvict \in BOOLEAN
    /\ Faults \subseteq FaultKinds
    /\ ShortReads \subseteq Nat

ASSUME PermitsAssumption == IsFiniteSet(Permits)

ASSUME NoneAssumption ==
    /\ None \notin Permits
    /\ None \notin Nat
    /\ None \notin [src : Sources, beg : Nat, len : Nat]
    /\ "readahead" \notin Readers

\* Tiers.fetch_size, normalised by both constructors.
Group == group_size(FetchSize, Chlen)

Coalesced == Group # Chlen

Offs == StepBy(0, End, Chlen)

Keys == Sources \X Offs

Tiers == {"content", "metadata"}

Flights == Tiers \X Keys

\* The store read that serves flight f: the latch entry of its fetch group, or,
\* with one block per group, a read of its own.
GetOf(f) ==
    IF Coalesced THEN <<"latch", <<f[2][1], AlignDown(f[2][2], Group)>>>> ELSE f

Gets == {GetOf(f) : f \in Flights}

Demands == Readers \X Offs

Prefetches == {"readahead"} \X Permits

Tasks == Demands \cup Prefetches

VARIABLES
    read,          \* per reader: where it is in Cache::read
    buf,           \* per reader: the caller's buffer once the blocks are copied
    task,          \* per task: where it is in route_block
    flight,        \* per (tier, key): the get_or_fetch in progress
    get,           \* the store reads in progress; GroupLatch.inflight if Coalesced
    free,          \* permits in the semaphore
    waiting,       \* gets queued for a permit, first in first out
    cache,         \* per (tier, key): the resident block or None
    regular_phase  \* the flag SIGUSR1 sets

vars == <<read, buf, task, flight, get, free, waiting, cache, regular_phase>>

NoTask == [pc |-> "none", key |-> None, regular |-> FALSE, data |-> None]

NoFlight == [pc |-> "none", permit |-> None, owner |-> FALSE, bytes |-> None]

NoGet == [pc |-> "none", permit |-> None, bytes |-> None]

IdleRead == [pc |-> "idle", req |-> None, cur |-> None, last |-> None]

Init ==
    /\ read = [r \in Readers |-> IdleRead]
    /\ buf = [r \in Readers |-> None]
    /\ task = [i \in Tasks |-> NoTask]
    /\ flight = [f \in Flights |-> NoFlight]
    /\ get = [g \in Gets |-> NoGet]
    /\ free = Permits
    /\ waiting = <<>>
    /\ cache = [f \in Flights |-> None]
    /\ regular_phase = FALSE

-----------------------------------------------------------------------------
(* Tiers::route_block, the part before the fetch.                          *)

NewTask(k) == [NoTask EXCEPT !.pc = IF Dual THEN "phase" ELSE "content", !.key = k]

\* Where a miss of this task is fetched into.
TierOf(tk) == IF Dual /\ ~tk.regular THEN "metadata" ELSE "content"

FlightOf(tk) == <<TierOf(tk), tk.key>>

\* Task i once route_block returned: a demand keeps the block (None: an error)
\* for its read, a prefetch is gone and its permit, if it still had it, is back.
Settled(i, d) ==
    IF i \in Prefetches
    THEN NoTask
    ELSE [task[i] EXCEPT !.pc = IF d = None THEN "err" ELSE "done", !.data = d]

Settle(i, d) == task' = [task EXCEPT ![i] = Settled(i, d)]

\* Mutant: a prefetch that ends without fetching leaks its permit.
PermitLeaked(i) == {}

\* The permit a task gives back when it ends without fetching.
PermitOf(i) == IF i \in Prefetches THEN {i[2]} ELSE {}

\* regular_phase is loaded once; the task acts on this value to its end.
LoadPhase(i) ==
    /\ task[i].pc = "phase"
    /\ task' = [task EXCEPT ![i].pc = "metadata", ![i].regular = regular_phase]
    /\ UNCHANGED <<read, buf, flight, get, free, waiting, cache, regular_phase>>

GetMetadata(i) ==
    /\ task[i].pc = "metadata"
    /\ LET d == cache[<<"metadata", task[i].key>>]
       IN  \/ /\ d # None
              /\ Settle(i, d)
              /\ free' = free \cup PermitOf(i)
           \/ /\ d = None
              /\ task' = [task EXCEPT ![i].pc = "content"]
              /\ UNCHANGED free
    /\ UNCHANGED <<read, buf, flight, get, waiting, cache, regular_phase>>

\* A content hit in the metadata phase is promoted to the metadata tier.
GetContent(i) ==
    /\ task[i].pc = "content"
    /\ LET d == cache[<<"content", task[i].key>>]
       IN  \/ /\ d # None
              /\ Settle(i, d)
              /\ free' = free \cup PermitOf(i)
              /\ cache' = IF TierOf(task[i]) = "metadata"
                          THEN [cache EXCEPT ![<<"metadata", task[i].key>>] = d]
                          ELSE cache
           \/ /\ d = None
              /\ task' = [task EXCEPT ![i].pc = "fetch"]
              /\ UNCHANGED <<free, cache>>
    /\ UNCHANGED <<read, buf, flight, get, waiting, regular_phase>>

\* The disk half of a hybrid tier may fail a lookup.
LookupFails(i) ==
    /\ "lookup" \in Faults
    /\ task[i].pc \in {"metadata", "content"}
    /\ Settle(i, None)
    /\ free' = free \cup PermitOf(i)
    /\ UNCHANGED <<read, buf, flight, get, waiting, cache, regular_phase>>

\* A task that waits for a flight; a prefetch has nothing left to do.
Parked(i) == IF i \in Prefetches THEN NoTask ELSE [task[i] EXCEPT !.pc = "wait"]

\* foyer's get_or_fetch: a hit, or join the flight of this key (the unused fetch
\* closure is dropped, and the permit in it), or start the flight.
GetOrFetch(i) ==
    /\ task[i].pc = "fetch"
    /\ LET f == FlightOf(task[i])
       IN  \/ /\ cache[f] # None
              /\ Settle(i, cache[f])
              /\ free' = free \cup PermitOf(i)
              /\ UNCHANGED flight
           \/ /\ cache[f] = None /\ flight[f].pc # "none"
              /\ task' = [task EXCEPT ![i] = Parked(i)]
              /\ free' = free \cup PermitOf(i)
              /\ UNCHANGED flight
           \/ /\ cache[f] = None /\ flight[f].pc = "none"
              /\ task' = [task EXCEPT ![i] = Parked(i)]
              /\ flight' = [flight EXCEPT ![f] =
                    [NoFlight EXCEPT !.pc = "start",
                                     !.permit = IF i \in Prefetches THEN i[2] ELSE None]]
              /\ UNCHANGED free
    /\ UNCHANGED <<read, buf, get, waiting, cache, regular_phase>>

-----------------------------------------------------------------------------
(* make_fetch, GroupLatch::fetch and FetchLimiter, run by the flight.      *)

GroupBeg(f) == AlignDown(f[2][2], Group)

GroupRange(g) ==
    LET f == CHOOSE f \in Flights : GetOf(f) = g
    IN  [src |-> f[2][1], beg |-> GroupBeg(f), end |-> GroupEnd(GroupBeg(f), Group, End)]

\* Mutant: a demand that joins a group releases a permit it never had.
FlightPermitUnchecked(f) == {flight[f].permit}

\* Mutant: the permit of a prefetch that joins a group is not handed back.
FlightPermitKept(f) == {}

\* drop(permit) of a flight that joins.
FlightPermit(f) == {flight[f].permit} \ {None}

\* The group is already being read: join it, handing back the permit.
JoinGet(f) ==
    /\ Coalesced
    /\ flight[f].pc = "start"
    /\ get[GetOf(f)].pc # "none"
    /\ free' = free \cup FlightPermit(f)
    /\ flight' = [flight EXCEPT ![f] = [NoFlight EXCEPT !.pc = "joined"]]
    /\ UNCHANGED <<read, buf, task, get, waiting, cache, regular_phase>>

\* fetch_range: read with the permit at hand, or queue for one.
FirstPc(p) == IF p = None THEN "queued" ELSE "reading"

Enqueue(p, g) == IF p = None THEN Append(waiting, g) ELSE waiting

\* Start the read of the group, in fetch_range: with the permit the prefetch came
\* with, or queueing for one.  Owner is set for the flight that installed it.
OpenGet(f) ==
    /\ flight[f].pc = "start"
    /\ Coalesced => get[GetOf(f)].pc = "none"
    /\ LET p == flight[f].permit
       IN  /\ get' = [get EXCEPT ![GetOf(f)] =
                        [NoGet EXCEPT !.pc = FirstPc(p), !.permit = p]]
           /\ waiting' = Enqueue(p, GetOf(f))
    /\ flight' = [flight EXCEPT ![f] = [NoFlight EXCEPT !.pc = "joined", !.owner = TRUE]]
    /\ UNCHANGED <<read, buf, task, free, cache, regular_phase>>

\* FetchLimiter::run gets its permit; tokio's semaphore hands them out in the order
\* of the queue.
AcquirePermit(g) ==
    /\ waiting # <<>>
    /\ g = Head(waiting)
    /\ \E p \in free :
        /\ free' = free \ {p}
        /\ get' = [get EXCEPT ![g] = [@ EXCEPT !.pc = "reading", !.permit = p]]
    /\ waiting' = Tail(waiting)
    /\ UNCHANGED <<read, buf, task, flight, cache, regular_phase>>

\* What BytesSource::read (external) may come back with.  A panic is caught inside
\* the latch only, and there it becomes an error.
Outcomes(g) ==
    LET rg   == GroupRange(g)
        want == rg.end - rg.beg
    IN  {Slice(rg.src, rg.beg, want)}
        \cup {Slice(rg.src, rg.beg, n) : n \in {m \in ShortReads : m < want}}
        \cup (IF "long" \in Faults THEN {Slice(rg.src, rg.beg, want + 1)} ELSE {})
        \cup (IF "error" \in Faults \/ (Coalesced /\ "panic" \in Faults) THEN {None} ELSE {})

\* The store read ends and its permit goes back.
SourceRead(g) ==
    /\ get[g].pc = "reading"
    /\ \E bytes \in Outcomes(g) :
        get' = [get EXCEPT ![g] = [pc |-> "done", permit |-> None, bytes |-> bytes]]
    /\ free' = free \cup {get[g].permit}
    /\ UNCHANGED <<read, buf, task, flight, waiting, cache, regular_phase>>

\* Mutant: the waiters are woken and the entry stays in the latch.
RetireTooLate(g) ==
    /\ get[g].pc = "done"
    /\ flight' = [f \in Flights |->
                    IF flight[f].pc = "joined" /\ GetOf(f) = g
                    THEN [flight[f] EXCEPT !.pc = "got", !.bytes = get[g].bytes]
                    ELSE flight[f]]
    /\ UNCHANGED <<read, buf, task, get, free, waiting, cache, regular_phase>>

\* The entry leaves the latch, then everyone awaiting the read sees its result.
Retire(g) ==
    /\ get[g].pc = "done"
    /\ get' = [get EXCEPT ![g] = NoGet]
    /\ flight' = [f \in Flights |->
                    IF flight[f].pc = "joined" /\ GetOf(f) = g
                    THEN [flight[f] EXCEPT !.pc = "got", !.bytes = get[g].bytes]
                    ELSE flight[f]]
    /\ UNCHANGED <<read, buf, task, free, waiting, cache, regular_phase>>

\* The blocks of f's group that came back whole.
Cut(f) ==
    CutOffs(flight[f].bytes, GroupBeg(f), GroupEnd(GroupBeg(f), Group, End), Chlen)

CutOut(f, boff) ==
    CutBlock(flight[f].bytes, boff, GroupBeg(f), GroupEnd(GroupBeg(f), Group, End), Chlen)

\* The flight that issued the read, and only that one, has siblings to insert.
FillsSiblings(f) == Coalesced /\ flight[f].owner /\ flight[f].bytes # None

\* Mutant: siblings go to the tier that is meant to be protected.
SinkProtected == "metadata"

\* Siblings go to the content tier, whichever tier the demanded block goes to: each call
\* of make_fetch passes it as the sink.
Sink == "content"

FillSiblings(f) ==
    /\ flight[f].pc = "got"
    /\ FillsSiblings(f)
    /\ cache' = [e \in Flights |->
                    IF /\ e[1] = Sink
                       /\ e[2][1] = f[2][1]
                       /\ e[2][2] \in Cut(f) \ {f[2][2]}
                    THEN CutOut(f, e[2][2])
                    ELSE cache[e]]
    /\ flight' = [flight EXCEPT ![f].pc = "filled"]
    /\ UNCHANGED <<read, buf, task, get, free, waiting, regular_phase>>

\* The demanded block, or None: the store failed or came back short of it.
Demanded(f) ==
    IF flight[f].bytes # None /\ f[2][2] \in Cut(f) THEN CutOut(f, f[2][2]) ELSE None

\* The fetch future is ready: foyer inserts the block and wakes the waiters.
Finish(f) ==
    /\ \/ flight[f].pc = "filled"
       \/ flight[f].pc = "got" /\ ~FillsSiblings(f)
    /\ cache' = IF Demanded(f) # None THEN [cache EXCEPT ![f] = Demanded(f)] ELSE cache
    /\ task' = [i \in Tasks |->
                    IF task[i].pc = "wait" /\ FlightOf(task[i]) = f
                    THEN Settled(i, Demanded(f))
                    ELSE task[i]]
    /\ flight' = [flight EXCEPT ![f] = NoFlight]
    /\ UNCHANGED <<read, buf, get, free, waiting, regular_phase>>

-----------------------------------------------------------------------------
(* Cache::read.                                                            *)

ReqOffs(q) == DemandOffs(q.off, q.len, Chlen)

\* route_block started for the blocks S of reader r; tasks it had are dropped.
Spawn(r, q, S) ==
    task' = [i \in Tasks |->
                IF i[1] = r
                THEN IF i[2] \in S THEN NewTask(<<q.idx, i[2]>>) ELSE NoTask
                ELSE task[i]]

NeedsLeaders(q) == Coalesced /\ Cardinality(ReqOffs(q)) # 1

ReqLeaders(q) == Leaders(q.off, q.len, Chlen, Group)

StartRead(r, q) ==
    /\ read[r].pc = "idle"
    /\ read' = [read EXCEPT ![r] =
                    [IdleRead EXCEPT !.pc = IF NeedsLeaders(q) THEN "leaders" ELSE "demand",
                                     !.req = q]]
    /\ Spawn(r, q, IF NeedsLeaders(q) THEN ReqLeaders(q) ELSE ReqOffs(q))
    /\ UNCHANGED <<buf, flight, get, free, waiting, cache, regular_phase>>

\* try_join_all over the blocks S: all of them are there, or one has failed.
AllDone(r, S) == \A o \in S : task[<<r, o>>].pc = "done"

SomeFailed(r, S) == \E o \in S : task[<<r, o>>].pc = "err"

\* Mutant: a failed leader is waited for.
LeadersAllDone(r, q) == AllDone(r, ReqLeaders(q))

LeadersOver(r, q) == AllDone(r, ReqLeaders(q)) \/ SomeFailed(r, ReqLeaders(q))

\* The leaders only warm the cache: their results and errors are dropped.
RouteAll(r) ==
    LET q == read[r].req
    IN  /\ read[r].pc = "leaders"
        /\ LeadersOver(r, q)
        /\ read' = [read EXCEPT ![r].pc = "demand"]
        /\ Spawn(r, q, ReqOffs(q))
        /\ UNCHANGED <<buf, flight, get, free, waiting, cache, regular_phase>>

ReadFails(r) ==
    /\ read[r].pc = "demand"
    /\ SomeFailed(r, ReqOffs(read[r].req))
    /\ read' = [read EXCEPT ![r] = IdleRead]
    /\ Spawn(r, read[r].req, {})
    /\ UNCHANGED <<buf, flight, get, free, waiting, cache, regular_phase>>

CopyOut(r) ==
    LET q == read[r].req
        offs == ReqOffs(q)
    IN  IF Cardinality(offs) = 1
        THEN LET choff == CHOOSE o \in offs : TRUE
             IN  fill_from_block(q.off, q.len, choff, task[<<r, choff>>].data)
        ELSE CopyChunks(q.off, q.len, Chlen, [o \in offs |-> task[<<r, o>>].data])

ReadaheadRange(q) == readahead_block_range(q.off + q.len, Chlen, Readahead, End)

\* The blocks are copied out; a short one fails the read, else readahead starts.
CopyBlocks(r) ==
    LET q == read[r].req
        res == CopyOut(r)
    IN  /\ read[r].pc = "demand"
        /\ AllDone(r, ReqOffs(q))
        /\ read' = [read EXCEPT ![r] =
                        IF res.ok
                        THEN [@ EXCEPT !.pc = "readahead", !.cur = ReadaheadRange(q)[1]]
                        ELSE IdleRead]
        /\ buf' = [buf EXCEPT ![r] = IF res.ok THEN res.buf ELSE None]
        /\ Spawn(r, q, {})
        /\ UNCHANGED <<flight, get, free, waiting, cache, regular_phase>>

ReadaheadKey(r) == <<read[r].req.idx, read[r].cur>>

Resident(k) == \E t \in Tiers : cache[<<t, k>>] # None

\* The readahead loop is at a block it has not skipped.
ReadaheadAt(r) ==
    /\ read[r].pc = "readahead"
    /\ read[r].cur < ReadaheadRange(read[r].req)[2]

\* Resident, or in the group this pass enqueued last.
SkipsReadahead(r) ==
    \/ Resident(ReadaheadKey(r))
    \/ read[r].last = AlignDown(read[r].cur, Group)

ReadaheadSkip(r) ==
    /\ ReadaheadAt(r)
    /\ SkipsReadahead(r)
    /\ read' = [read EXCEPT ![r].cur = @ + Chlen]
    /\ UNCHANGED <<buf, task, flight, get, free, waiting, cache, regular_phase>>

\* try_permit: a permit is free and nobody is queued for it.
ReadaheadSpawn(r, p) ==
    /\ ReadaheadAt(r)
    /\ ~SkipsReadahead(r)
    /\ p \in free /\ waiting = <<>>
    /\ free' = free \ {p}
    /\ task' = [task EXCEPT ![<<"readahead", p>>] = NewTask(ReadaheadKey(r))]
    /\ read' = [read EXCEPT ![r].cur = @ + Chlen, ![r].last = AlignDown(read[r].cur, Group)]
    /\ UNCHANGED <<buf, flight, get, waiting, cache, regular_phase>>

\* The loop is through, or gives up because no permit is to spare.
ReadReturns(r) ==
    /\ read[r].pc = "readahead"
    /\ \/ ~ReadaheadAt(r)
       \/ ReadaheadAt(r) /\ ~SkipsReadahead(r) /\ (free = {} \/ waiting # <<>>)
    /\ read' = [read EXCEPT ![r] = IdleRead]
    /\ buf' = [buf EXCEPT ![r] = None]
    /\ UNCHANGED <<task, flight, get, free, waiting, cache, regular_phase>>

-----------------------------------------------------------------------------
\* foyer drops an entry of either tier when it pleases.
Evict(f) ==
    /\ MayEvict
    /\ cache[f] # None
    /\ cache' = [cache EXCEPT ![f] = None]
    /\ UNCHANGED <<read, buf, task, flight, get, free, waiting, regular_phase>>

\* SIGUSR1: the metadata phase is over.
FlipPhase ==
    /\ Dual /\ ~regular_phase
    /\ regular_phase' = TRUE
    /\ UNCHANGED <<read, buf, task, flight, get, free, waiting, cache>>

RouteStep(i) ==
    LoadPhase(i) \/ GetMetadata(i) \/ GetContent(i) \/ LookupFails(i) \/ GetOrFetch(i)

FlightStep(f) == JoinGet(f) \/ OpenGet(f) \/ FillSiblings(f) \/ Finish(f)

GetStep(g) == AcquirePermit(g) \/ SourceRead(g) \/ Retire(g)

ReaderStep(r) ==
    \/ RouteAll(r) \/ ReadFails(r) \/ CopyBlocks(r)
    \/ ReadaheadSkip(r) \/ (\E p \in Permits : ReadaheadSpawn(r, p)) \/ ReadReturns(r)

Next ==
    \/ \E r \in Readers : ReaderStep(r) \/ \E q \in Requests[r] : StartRead(r, q)
    \/ \E i \in Tasks : RouteStep(i)
    \/ \E f \in Flights : FlightStep(f) \/ Evict(f)
    \/ \E g \in Gets : GetStep(g)
    \/ FlipPhase

Spec == Init /\ [][Next]_vars

\* The runtime polls every ready task and the store answers every read.  Nobody
\* has to start a read, evict, or flip the phase.
Fairness ==
    /\ \A r \in Readers : WF_vars(ReaderStep(r))
    /\ \A i \in Tasks : WF_vars(RouteStep(i))
    /\ \A f \in Flights : WF_vars(FlightStep(f))
    /\ \A g \in Gets : WF_vars(GetStep(g))

FairSpec == Spec /\ Fairness

-----------------------------------------------------------------------------
(* What makes the cache correct.                                           *)

AllRequests == UNION {Requests[r] : r \in Readers}

Data == [src : Sources, beg : Nat, len : Nat]

ReadState == [pc : {"idle", "leaders", "demand", "readahead"},
              req : AllRequests \cup {None},
              cur : Nat \cup {None},
              last : Nat \cup {None}]

TaskState == [pc : {"none", "phase", "metadata", "content", "fetch", "wait", "done", "err"},
              key : Keys \cup {None},
              regular : BOOLEAN,
              data : Data \cup {None}]

FlightState == [pc : {"none", "start", "joined", "got", "filled"},
                permit : Permits \cup {None},
                owner : BOOLEAN,
                bytes : Data \cup {None}]

GetState == [pc : {"none", "queued", "reading", "done"},
             permit : Permits \cup {None},
             bytes : Data \cup {None}]

TypeOK ==
    /\ read \in [Readers -> ReadState]
    /\ DOMAIN buf = Readers
    /\ task \in [Tasks -> TaskState]
    /\ flight \in [Flights -> FlightState]
    /\ get \in [Gets -> GetState]
    /\ free \subseteq Permits
    /\ waiting \in Seq(Gets)
    /\ cache \in [Flights -> Data \cup {None}]
    /\ regular_phase \in BOOLEAN

\* A read that succeeds has filled the whole buffer with exactly the bytes of the
\* source it asked for, whatever was evicted, came back short or was fetched by
\* somebody else meanwhile (Cache::read, fill_from_block and the copy loop).
ReadsAreExact ==
    \A r \in Readers : read[r].pc = "readahead" =>
        LET q == read[r].req IN buf[r] = ExactBuf(q.idx, q.off, q.len)

\* An entry of either tier is the whole block of its key: never a short tail,
\* never a neighbour's bytes (make_fetch's slicing and truncation).
EntriesAreWhole ==
    \A f \in Flights : cache[f] # None =>
        cache[f] = WholeBlock(f[2][1], f[2][2], Chlen, End)

\* Everything that can hold permit p: the semaphore, the prefetch task spawned
\* with it, a flight that has not yet used it, a store read.
Holders(p) ==
    (IF p \in free THEN {<<"semaphore", p>>} ELSE {})
    \cup (IF task[<<"readahead", p>>].pc # "none" THEN {<<"task", p>>} ELSE {})
    \cup {<<"flight", f>> : f \in {e \in Flights : flight[e].permit = p}}
    \cup {<<"get", g>> : g \in {e \in Gets : get[e].permit = p}}

\* A permit is always in exactly one place: it is neither lost on an early
\* return, a join or a failed read, nor used twice (fetch_range, GroupLatch::fetch).
PermitsConserved ==
    \A p \in Permits : \E h \in Holders(p) : Holders(p) = {h}

\* Never more reads of the backing store than FetchLimiter has permits.
StoreReadsBounded ==
    Cardinality({g \in Gets : get[g].pc = "reading"}) <= Cardinality(Permits)

\* Flight f installed store read g and awaits it.
Owns(f, g) == GetOf(f) = g /\ flight[f].pc = "joined" /\ flight[f].owner

\* A latch entry lives exactly as long as the flight that installed it is parked
\* on it, there is one such flight, and nobody is parked on an entry that is
\* gone: retired too late a failed read would be served again, too early its
\* waiters would hang (GroupLatch::fetch).
LatchConsistent ==
    /\ \A f \in Flights : flight[f].pc = "joined" => get[GetOf(f)].pc # "none"
    /\ \A g \in Gets : get[g].pc # "none" =>
        \E f \in Flights : Owns(f, g) /\ \A e \in Flights : Owns(e, g) => e = f

\* The queue of the semaphore is exactly the set of reads waiting for a permit.
QueueMatchesReads ==
    /\ \A g \in Gets : get[g].pc = "queued" <=> \E n \in 1 .. Len(waiting) : waiting[n] = g
    /\ \A m, n \in 1 .. Len(waiting) : waiting[m] = waiting[n] => m = n

\* A block enters the metadata tier only because a lookup that saw the metadata
\* phase asked for that very block: siblings of a coalesced fetch stay out, and a
\* lookup that saw the regular phase adds nothing.  So do the code and its comment on the
\* metadata phase (foyercache.rs:549-555); the comment at the head of route_block
\* (529-532) says otherwise, that siblings go into whichever cache the block is being
\* routed to, which all three calls of make_fetch contradict by passing the content tier.
MetadataIsRouted ==
    [][\A k \in Keys :
        cache[<<"metadata", k>>] = None /\ cache'[<<"metadata", k>>] # None =>
            \/ flight[<<"metadata", k>>].pc \in {"got", "filled"}
            \/ \E i \in Tasks : /\ task[i].pc = "content" /\ task[i].key = k
                                /\ ~task[i].regular]_vars

\* A read fails only for a reason: a lookup failed, or the store did not deliver the
\* whole group.  No interleaving of eviction, readahead and phase flip and no
\* alignment of the fetch size turns blocks that came back whole into an error
\* (route_block, make_fetch, the copy loop of Cache::read).
FailuresHaveCauses ==
    [][/\ \A i \in Tasks :
            task[i].pc \notin {"metadata", "content", "err"} /\ task'[i].pc = "err" =>
                LET f  == FlightOf(task[i])
                    rg == GroupRange(GetOf(f))
                IN  flight[f].bytes = None \/ flight[f].bytes.len < rg.end - rg.beg
       /\ \A r \in Readers : read[r].pc = "demand" /\ read'[r].pc = "idle" =>
            SomeFailed(r, ReqOffs(read[r].req))]_vars

\* What the caller of read r can see.
ServicePhase ==
    [r \in Readers |-> CASE read[r].pc = "idle" -> "idle"
                         [] read[r].pc \in {"leaders", "demand"} -> "busy"
                         [] read[r].pc = "readahead" -> "answered"]

ServiceReq == [r \in Readers |-> read[r].req]

Service == INSTANCE ReadService WITH
    Clients <- Readers, NoValue <- None,
    phase <- ServicePhase, req <- ServiceReq, answer <- buf

\* FoyerCache keeps the promise of the Cache trait: every call of read is answered
\* by the exact bytes or by an error, and every call returns.
ImplementsReadService == Service!Spec

\* Every permit comes back: nobody keeps one while waiting for somebody who waits
\* for a permit (the drop(permit) on joining a group).
PermitsReturn == \A p \in Permits : p \notin free ~> p \in free
=============================================================================
