-------------------------- MODULE FoyerCacheProofs --------------------------
(***************************************************************************)
(* Proofs about FoyerCache, for every geometry, set of readers, requests,  *)
(* permits and faults.  They come in layers, each an inductive invariant   *)
(* that uses the ones before it:                                           *)
(*   TypeInv    types, and which key a task works on;                      *)
(*   PermitInv  the latch, the queue of the semaphore and the permits;     *)
(*   DataInv    where the bytes in gets, flights, tasks and cache entries  *)
(*              come from.                                                 *)
(* The action properties at the end use the first and the last.            *)
(***************************************************************************)
EXTENDS FoyerCache, FiniteSetTheorems, TLAPS

-----------------------------------------------------------------------------
(* Arithmetic: alignment, group sizes and step_by ranges.                  *)

\* Euclidean division of naturals: the quotient times the divisor is the last multiple
\* at or below the dividend.
LEMMA DivBounds ==
    ASSUME NEW a \in Nat, NEW b \in Nat \ {0}
    PROVE  /\ a \div b \in Nat
           /\ (a \div b) * b <= a
           /\ a < (a \div b) * b + b
BY SMT

\* AlignDown gives the last multiple of the unit at or below the offset.
LEMMA AlignDownFacts ==
    ASSUME NEW off \in Nat, NEW unit \in Nat \ {0}
    PROVE  /\ AlignDown(off, unit) \in Nat
           /\ AlignDown(off, unit) <= off
           /\ off < AlignDown(off, unit) + unit
           /\ \E n \in Nat : AlignDown(off, unit) = n * unit
<1>1. off \div unit \in Nat /\ (off \div unit) * unit <= off /\ off < (off \div unit) * unit + unit
  BY DivBounds
<1>2. (off \div unit) * unit \in Nat
  BY <1>1, SMT
<1>3. QED
  BY <1>1, <1>2 DEF AlignDown

\* group_size is a positive whole number of blocks, whatever fetch size was asked for.
LEMMA GroupSizeFacts ==
    ASSUME NEW fetch_size \in Nat, NEW chlen \in Nat \ {0}
    PROVE  /\ group_size(fetch_size, chlen) \in Nat \ {0}
           /\ \E m \in Nat \ {0} : group_size(fetch_size, chlen) = m * chlen
<1>1. fetch_size \div chlen \in Nat
  BY DivBounds
<1>2. Greater(fetch_size \div chlen, 1) \in Nat \ {0}
  BY <1>1 DEF Greater
<1>3. \A m \in Nat \ {0} : m * chlen \in Nat \ {0}
  BY SMT
<1>4. QED
  BY <1>2, <1>3 DEF group_size

\* step_by visits only offsets of the range that are whole steps away ...
LEMMA StepByMember ==
    ASSUME NEW beg \in Nat, NEW end \in Nat, NEW step \in Nat \ {0},
           NEW o \in StepBy(beg, end, step)
    PROVE  o \in Nat /\ beg <= o /\ o < end /\ \E n \in Nat : o = beg + n * step
<1>1. o \in beg .. end - 1 /\ \E n \in 0 .. end - beg : o = beg + n * step
  BY DEF StepBy
<1>2. QED
  BY <1>1

\* ... and all of them.
LEMMA StepByVisits ==
    ASSUME NEW beg \in Nat, NEW end \in Nat, NEW step \in Nat \ {0},
           NEW n \in Nat, beg + n * step < end
    PROVE  beg + n * step \in StepBy(beg, end, step)
<1>1. n * step \in Nat /\ n <= n * step
  BY SMT
<1> DEFINE x == n * step
<1>2. x \in Nat /\ n <= x /\ beg + x < end
  BY <1>1
<1>3. n \in 0 .. end - beg /\ beg + n * step \in beg .. end - 1
  <2> HIDE DEF x
  <2>1. n \in 0 .. end - beg /\ beg + x \in beg .. end - 1
    BY <1>2
  <2>2. QED
    BY <2>1 DEF x
<1>4. QED
  BY <1>3 DEF StepBy

-----------------------------------------------------------------------------
(* The layers.                                                             *)

\* The fetch group of this cache is a positive whole number of blocks.
LEMMA GroupFacts ==
    /\ Group \in Nat \ {0}
    /\ \E m \in Nat \ {0} : Group = m * Chlen
BY GeometryAssumption, GroupSizeFacts DEF Group

\* The block offsets of a source: below its end and multiples of the block size.
LEMMA OffsFacts ==
    /\ \A o \in Offs : o \in Nat /\ o < End /\ \E n \in Nat : o = n * Chlen
    /\ \A n \in Nat : n * Chlen < End => n * Chlen \in Offs
<1> USE GeometryAssumption
<1>1. \A o \in Offs : o \in Nat /\ o < End /\ \E n \in Nat : o = n * Chlen
  BY DEF Offs, StepBy
<1>2. ASSUME NEW n \in Nat, n * Chlen < End
      PROVE  n * Chlen \in Offs
  <2>1. n <= n * Chlen /\ n * Chlen \in Nat
    BY SMT
  <2>2. QED
    BY <1>2, <2>1 DEF Offs, StepBy
<1>3. QED
  BY <1>1, <1>2

\* A flight's group: it holds the block and ends within the source.
LEMMA FlightGroup ==
    ASSUME NEW f \in Flights
    PROVE  /\ f[1] \in Tiers /\ f[2] \in Keys
           /\ f[2][1] \in Sources /\ f[2][2] \in Offs
           /\ f = <<f[1], f[2]>> /\ f[2] = <<f[2][1], f[2][2]>>
           /\ GroupBeg(f) \in Nat
           /\ GroupBeg(f) <= f[2][2]
           /\ f[2][2] < GroupBeg(f) + Group
           /\ GroupBeg(f) < End
           /\ GroupEnd(GroupBeg(f), Group, End) \in Nat
           /\ GroupBeg(f) < GroupEnd(GroupBeg(f), Group, End)
           /\ GroupEnd(GroupBeg(f), Group, End) <= End
           /\ f[2][2] < GroupEnd(GroupBeg(f), Group, End)
           /\ GetOf(f) \in Gets
<1> USE GeometryAssumption
<1>1. /\ f[1] \in Tiers /\ f[2] \in Keys /\ f[2][1] \in Sources /\ f[2][2] \in Offs
      /\ f = <<f[1], f[2]>> /\ f[2] = <<f[2][1], f[2][2]>>
  BY DEF Flights, Keys
<1>2. f[2][2] \in Nat /\ f[2][2] < End
  BY <1>1, OffsFacts
<1>3. /\ GroupBeg(f) \in Nat /\ GroupBeg(f) <= f[2][2] /\ f[2][2] < GroupBeg(f) + Group
  BY <1>2, GroupFacts, AlignDownFacts DEF GroupBeg
<1>4. GetOf(f) \in Gets
  BY DEF Gets
<1>5. QED
  BY <1>1, <1>2, <1>3, <1>4, GroupFacts DEF GroupEnd, Lesser

\* Demand tasks belong to readers, prefetch tasks to permits, and no task is both.
LEMMA TaskKinds ==
    ASSUME NEW i \in Tasks
    PROVE  /\ i = <<i[1], i[2]>>
           /\ i[1] \in Readers <=> i \in Demands
           /\ i \in Demands <=> i \notin Prefetches
           /\ i \in Demands => i[1] \in Readers /\ i[2] \in Offs
           /\ i \in Prefetches => i[1] = "readahead" /\ i[2] \in Permits
BY NoneAssumption DEF Tasks, Demands, Prefetches

-----------------------------------------------------------------------------
(* Layer 1: types.                                                         *)

\* A task that runs works on a key, a demand on the block of its read.
TaskKeys ==
    /\ \A i \in Tasks : task[i].pc # "none" => task[i].key \in Keys
    /\ \A r \in Readers, o \in Offs : task[<<r, o>>].pc # "none" =>
        /\ read[r].pc \in {"leaders", "demand"}
        /\ task[<<r, o>>].key = <<read[r].req.idx, o>>

\* A read in progress has one of its requests; readahead goes from block to block.
ReadRequests ==
    \A r \in Readers :
        /\ read[r].pc # "idle" => read[r].req \in Requests[r]
        /\ read[r].pc = "readahead" => \E n \in Nat : read[r].cur = n * Chlen

\* A store read that runs has a permit.
ReadsPermitted == \A g \in Gets : get[g].pc = "reading" => get[g].permit \in Permits

TypeInv == TypeOK /\ TaskKeys /\ ReadRequests /\ ReadsPermitted

\* The idle read, task, flight and get are well typed.
LEMMA EmptyStates ==
    /\ IdleRead \in ReadState /\ IdleRead.pc = "idle"
    /\ NoTask \in TaskState /\ NoTask.pc = "none"
    /\ NoFlight \in FlightState /\ NoFlight.pc = "none" /\ NoFlight.permit = None
    /\ NoGet \in GetState /\ NoGet.pc = "none" /\ NoGet.permit = None
<1>1. IdleRead \in ReadState /\ IdleRead.pc = "idle"
  BY DEF IdleRead, ReadState
<1>2. NoTask \in TaskState /\ NoTask.pc = "none"
  BY DEF NoTask, TaskState
<1>3. NoFlight \in FlightState /\ NoFlight.pc = "none" /\ NoFlight.permit = None
  BY DEF NoFlight, FlightState
<1>4. NoGet \in GetState /\ NoGet.pc = "none" /\ NoGet.permit = None
  BY DEF NoGet, GetState
<1>5. QED
  BY <1>1, <1>2, <1>3, <1>4

\* The empty cache is well typed.
LEMMA TypeInit == Init => TypeInv
<1> SUFFICES ASSUME Init PROVE TypeInv
  OBVIOUS
<1>1. TypeOK
  <2>1. read \in [Readers -> ReadState] /\ task \in [Tasks -> TaskState]
    BY EmptyStates DEF Init
  <2>2. flight \in [Flights -> FlightState] /\ get \in [Gets -> GetState]
    BY EmptyStates DEF Init
  <2>3. <<>> \in Seq(Gets)
    OBVIOUS
  <2>6. waiting \in Seq(Gets) /\ free \subseteq Permits /\ regular_phase \in BOOLEAN
    BY <2>3 DEF Init
  <2>4. DOMAIN buf = Readers /\ cache \in [Flights -> Data \cup {None}]
    BY DEF Init
  <2>5. QED
    BY <2>1, <2>2, <2>4, <2>6 DEF TypeOK
<1>2. \A r \in Readers, o \in Offs : <<r, o>> \in Tasks
  BY DEF Tasks, Demands
<1>3. TaskKeys /\ ReadRequests /\ ReadsPermitted
  BY <1>2, EmptyStates DEF Init, TaskKeys, ReadRequests, ReadsPermitted
<1>4. QED
  BY <1>1, <1>3 DEF TypeInv

\* A task that route_block returned from is well typed, and gone if it was a prefetch.
LEMMA SettledFacts ==
    ASSUME TypeInv, NEW i \in Tasks, task[i].pc # "none", NEW d \in Data \cup {None}
    PROVE  /\ Settled(i, d) \in TaskState
           /\ Settled(i, d).pc # "none" => Settled(i, d).key = task[i].key
           /\ Settled(i, d).pc # "none" => i \in Demands /\ Settled(i, d).data = d
           /\ Settled(i, d).pc \in {"none", "done", "err"}
           /\ Settled(i, d).pc = "done" => d # None
           /\ i \in Demands => Settled(i, d).pc # "none"
<1>1. task[i] \in TaskState
  BY DEF TypeInv, TypeOK
<1>2. NoTask \in TaskState /\ NoTask.pc = "none"
  BY DEF NoTask, TaskState
<1>3. CASE i \in Prefetches
  BY <1>2, <1>3, TaskKinds DEF Settled
<1>4. CASE i \notin Prefetches
  BY <1>1, <1>4, TaskKinds DEF Settled, TaskState
<1>5. QED
  BY <1>3, <1>4

\* A task that parks on a flight is well typed, and gone if it was a prefetch.
LEMMA ParkedFacts ==
    ASSUME TypeInv, NEW i \in Tasks, task[i].pc # "none"
    PROVE  /\ Parked(i) \in TaskState
           /\ Parked(i).pc # "none" =>
                /\ i \in Demands /\ Parked(i) = [task[i] EXCEPT !.pc = "wait"]
                /\ Parked(i).pc = "wait" /\ Parked(i).key = task[i].key
           /\ i \in Demands => Parked(i).pc # "none"
<1>1. task[i] \in TaskState
  BY DEF TypeInv, TypeOK
<1>2. NoTask \in TaskState /\ NoTask.pc = "none"
  BY DEF NoTask, TaskState
<1>3. CASE i \in Prefetches
  BY <1>2, <1>3, TaskKinds DEF Parked
<1>4. CASE i \notin Prefetches
  BY <1>1, <1>4, TaskKinds DEF Parked, TaskState
<1>5. QED
  BY <1>3, <1>4

\* A task that starts route_block on a block of the source is well typed.
LEMMA NewTaskFacts ==
    ASSUME NEW k \in Keys
    PROVE  /\ NewTask(k) \in TaskState
           /\ NewTask(k).pc # "none" /\ NewTask(k).pc \in {"phase", "content"}
           /\ NewTask(k).key = k
BY DEF NewTask, NoTask, TaskState

\* Replacing one task that runs by one on the same key keeps the keys right.
LEMMA TaskKeysStep ==
    ASSUME TypeInv, NEW i \in Tasks, task[i].pc # "none", NEW t \in TaskState,
           t.pc # "none" => t.key = task[i].key,
           task' = [task EXCEPT ![i] = t], read' = read
    PROVE  TaskKeys' /\ ReadRequests' /\ task' \in [Tasks -> TaskState]
<1>1. task \in [Tasks -> TaskState]
  BY DEF TypeInv, TypeOK
<1>2. task' \in [Tasks -> TaskState]
  BY <1>1
<1>3. \A r \in Readers, o \in Offs : <<r, o>> \in Tasks
  BY DEF Tasks, Demands
<1>4. TaskKeys'
  BY <1>1, <1>3 DEF TypeInv, TaskKeys
<1>5. QED
  BY <1>2, <1>4 DEF TypeInv, ReadRequests

\* A step of route_block keeps the types.
LEMMA TypeRouteStep ==
    ASSUME TypeInv, NEW i \in Tasks, RouteStep(i)
    PROVE  TypeInv'
<1> USE DEF TypeInv
<1>t. task[i] \in TaskState /\ task \in [Tasks -> TaskState]
  BY DEF TypeOK
<1>p. PermitOf(i) \subseteq Permits
  BY TaskKinds DEF PermitOf
<1>1. CASE LoadPhase(i)
  <2> DEFINE t == [task[i] EXCEPT !.pc = "metadata", !.regular = regular_phase]
  <2>1. t \in TaskState /\ t.key = task[i].key
    BY <1>t DEF TypeOK, TaskState
  <2>2. task' = [task EXCEPT ![i] = t] /\ task[i].pc # "none" /\ read' = read
    BY <1>1, <1>t DEF LoadPhase
  <2>3. TaskKeys' /\ ReadRequests' /\ task' \in [Tasks -> TaskState]
    BY <2>1, <2>2, TaskKeysStep
  <2>4. QED
    BY <1>1, <2>3 DEF LoadPhase, TypeOK, ReadsPermitted
<1>2. CASE GetMetadata(i)
  <2> DEFINE d == cache[<<"metadata", task[i].key>>]
  <2>1. <<"metadata", task[i].key>> \in Flights
    BY <1>2 DEF GetMetadata, Flights, Tiers, TaskKeys
  <2>2. d \in Data \cup {None}
    BY <2>1 DEF TypeOK
  <2>3. task[i].pc # "none" /\ read' = read
    BY <1>2 DEF GetMetadata
  <2>4. PICK t \in TaskState : t.key = task[i].key /\ t = [task[i] EXCEPT !.pc = "content"]
    BY <1>t DEF TaskState
  <2>5. TaskKeys' /\ ReadRequests' /\ task' \in [Tasks -> TaskState]
    <3>1. CASE task' = [task EXCEPT ![i] = Settled(i, d)]
      BY <2>2, <2>3, <3>1, SettledFacts, TaskKeysStep
    <3>2. CASE task' = [task EXCEPT ![i].pc = "content"]
      BY <1>t, <2>3, <2>4, <3>2, TaskKeysStep
    <3>3. QED
      BY <1>2, <3>1, <3>2 DEF GetMetadata, Settle
  <2>6. free' \subseteq Permits
    BY <1>2, <1>p DEF GetMetadata, TypeOK
  <2>7. QED
    BY <1>2, <2>5, <2>6 DEF GetMetadata, TypeOK, ReadsPermitted
<1>3. CASE GetContent(i)
  <2> DEFINE d == cache[<<"content", task[i].key>>]
  <2>1. <<"content", task[i].key>> \in Flights /\ <<"metadata", task[i].key>> \in Flights
    BY <1>3 DEF GetContent, Flights, Tiers, TaskKeys
  <2>2. d \in Data \cup {None}
    BY <2>1 DEF TypeOK
  <2>3. task[i].pc # "none" /\ read' = read
    BY <1>3 DEF GetContent
  <2>4. PICK t \in TaskState : t.key = task[i].key /\ t = [task[i] EXCEPT !.pc = "fetch"]
    BY <1>t DEF TaskState
  <2>5. TaskKeys' /\ ReadRequests' /\ task' \in [Tasks -> TaskState]
    <3>1. CASE task' = [task EXCEPT ![i] = Settled(i, d)]
      BY <2>2, <2>3, <3>1, SettledFacts, TaskKeysStep
    <3>2. CASE task' = [task EXCEPT ![i].pc = "fetch"]
      BY <1>t, <2>3, <2>4, <3>2, TaskKeysStep
    <3>3. QED
      BY <1>3, <3>1, <3>2 DEF GetContent, Settle
  <2>6. free' \subseteq Permits
    BY <1>3, <1>p DEF GetContent, TypeOK
  <2>7. cache' \in [Flights -> Data \cup {None}]
    BY <1>3, <2>1, <2>2 DEF GetContent, TypeOK
  <2>8. QED
    BY <1>3, <2>5, <2>6, <2>7 DEF GetContent, TypeOK, ReadsPermitted
<1>4. CASE LookupFails(i)
  <2>1. task[i].pc # "none" /\ read' = read /\ task' = [task EXCEPT ![i] = Settled(i, None)]
    BY <1>4 DEF LookupFails, Settle
  <2>2. TaskKeys' /\ ReadRequests' /\ task' \in [Tasks -> TaskState]
    BY <2>1, SettledFacts, TaskKeysStep
  <2>3. free' \subseteq Permits
    BY <1>4, <1>p DEF LookupFails, TypeOK
  <2>4. QED
    BY <1>4, <2>2, <2>3 DEF LookupFails, TypeOK, ReadsPermitted
<1>5. CASE GetOrFetch(i)
  <2> DEFINE f == FlightOf(task[i])
  <2>1. f \in Flights
    BY <1>5 DEF GetOrFetch, FlightOf, TierOf, Flights, Tiers, TaskKeys
  <2>2. task[i].pc # "none" /\ read' = read /\ cache[f] \in Data \cup {None}
    BY <1>5, <2>1 DEF GetOrFetch, TypeOK
  <2>3. TaskKeys' /\ ReadRequests' /\ task' \in [Tasks -> TaskState]
    <3>1. CASE task' = [task EXCEPT ![i] = Settled(i, cache[f])]
      BY <2>2, <3>1, SettledFacts, TaskKeysStep
    <3>2. CASE task' = [task EXCEPT ![i] = Parked(i)]
      BY <2>2, <3>2, ParkedFacts, TaskKeysStep
    <3>3. QED
      BY <1>5, <3>1, <3>2 DEF GetOrFetch, Settle
  <2>4. free' \subseteq Permits
    BY <1>5, <1>p DEF GetOrFetch, TypeOK
  <2>5. flight' \in [Flights -> FlightState]
    <3> DEFINE p == IF i \in Prefetches THEN i[2] ELSE None
               fl == [NoFlight EXCEPT !.pc = "start", !.permit = p]
    <3>1. p \in Permits \cup {None}
      BY TaskKinds
    <3>2. fl \in FlightState
      BY <3>1, EmptyStates DEF FlightState
    <3>3. flight' = flight \/ flight' = [flight EXCEPT ![f] = fl]
      BY <1>5 DEF GetOrFetch
    <3>4. QED
      BY <2>1, <3>2, <3>3 DEF TypeOK
  <2>6. QED
    BY <1>5, <2>3, <2>4, <2>5 DEF GetOrFetch, TypeOK, ReadsPermitted
<1>6. QED
  BY <1>1, <1>2, <1>3, <1>4, <1>5 DEF RouteStep

\* What is cut out of a group's bytes is a slice, and starts where it should.
LEMMA CutTypes ==
    ASSUME TypeInv, NEW f \in Flights, flight[f].bytes # None
    PROVE  /\ \A o \in Cut(f) : CutOut(f, o) \in Data
           /\ Demanded(f) \in Data \cup {None}
<1> DEFINE b == flight[f].bytes
           gb == GroupBeg(f)
           ge == GroupEnd(GroupBeg(f), Group, End)
<1>1. b \in Data
  BY DEF TypeInv, TypeOK, FlightState
<1>2. b.src \in Sources /\ b.beg \in Nat /\ b.len \in Nat
  BY <1>1 DEF Data
<1>3. gb \in Nat /\ ge \in Nat /\ f[2][2] \in Offs
  BY FlightGroup
<1>4. ASSUME NEW o \in Cut(f) PROVE CutOut(f, o) \in Data
  <2>1. /\ o \in StepBy(gb, ge, Chlen)
        /\ Lesser(o + Chlen, ge) - gb <= b.len
    BY <1>4 DEF Cut, CutOffs
  <2>2. o \in Nat /\ gb <= o /\ o < ge
    BY <1>3, <2>1 DEF StepBy
  <2>3. Lesser(Lesser(o + Chlen, ge), gb + b.len) - o \in Nat
    BY <1>2, <1>3, <2>1, <2>2, GeometryAssumption DEF Lesser
  <2>4. b.beg + (o - gb) \in Nat
    BY <1>2, <1>3, <2>2
  <2>5. QED
    BY <1>2, <2>3, <2>4 DEF CutOut, CutBlock, Slice, Data
<1>5. QED
  BY <1>4 DEF Demanded

\* The block a finishing flight hands out, None included.
LEMMA DemandedType ==
    ASSUME TypeInv, NEW f \in Flights
    PROVE  Demanded(f) \in Data \cup {None}
BY CutTypes DEF Demanded

\* A step of make_fetch keeps the types.
LEMMA TypeFlightStep ==
    ASSUME TypeInv, NEW f \in Flights, FlightStep(f) \/ Evict(f)
    PROVE  TypeInv'
<1> USE DEF TypeInv
<1>t. /\ flight[f] \in FlightState /\ flight \in [Flights -> FlightState]
      /\ GetOf(f) \in Gets /\ get \in [Gets -> GetState]
  BY FlightGroup DEF TypeOK
<1>1. CASE JoinGet(f)
  <2>1. FlightPermit(f) \subseteq Permits
    BY <1>t DEF FlightPermit, FlightState
  <2>2. [NoFlight EXCEPT !.pc = "joined"] \in FlightState
    BY EmptyStates DEF FlightState
  <2>3. TypeOK'
    BY <1>1, <1>t, <2>1, <2>2 DEF JoinGet, TypeOK
  <2>4. QED
    BY <1>1, <2>3 DEF JoinGet, TaskKeys, ReadRequests, ReadsPermitted
<1>2. CASE OpenGet(f)
  <2> DEFINE p == flight[f].permit
  <2>1. [NoFlight EXCEPT !.pc = "joined", !.owner = TRUE] \in FlightState
    BY EmptyStates DEF FlightState
  <2>2. p \in Permits \cup {None} /\ FirstPc(p) \in {"queued", "reading"}
    BY <1>t DEF FlightState, FirstPc
  <2>3. [NoGet EXCEPT !.pc = FirstPc(p), !.permit = p] \in GetState
    BY <2>2, EmptyStates DEF GetState
  <2>4. waiting' \in Seq(Gets)
    BY <1>2, <1>t DEF OpenGet, Enqueue, TypeOK
  <2>5. TypeOK'
    BY <1>2, <1>t, <2>1, <2>3, <2>4 DEF OpenGet, TypeOK
  <2>6. ReadsPermitted'
    BY <1>2, <1>t, <2>2, EmptyStates DEF OpenGet, ReadsPermitted, FirstPc, GetState
  <2>7. QED
    BY <1>2, <2>5, <2>6 DEF OpenGet, TaskKeys, ReadRequests
<1>3. CASE FillSiblings(f)
  <2>1. \A o \in Cut(f) : CutOut(f, o) \in Data
    BY <1>3, CutTypes DEF FillSiblings, FillsSiblings
  <2>2. cache' \in [Flights -> Data \cup {None}]
    BY <1>3, <2>1 DEF FillSiblings, TypeOK
  <2>3. flight' \in [Flights -> FlightState]
    BY <1>3, <1>t DEF FillSiblings, FlightState
  <2>4. TypeOK'
    BY <1>3, <2>2, <2>3 DEF FillSiblings, TypeOK
  <2>5. QED
    BY <1>3, <2>4 DEF FillSiblings, TaskKeys, ReadRequests, ReadsPermitted
<1>4. CASE Finish(f)
  <2> DEFINE d == Demanded(f)
  <2>1. d \in Data \cup {None}
    BY DemandedType
  <2>2. task' = [i \in Tasks |->
                    IF task[i].pc = "wait" /\ FlightOf(task[i]) = f
                    THEN Settled(i, d)
                    ELSE task[i]]
    BY <1>4 DEF Finish
  <2>3. \A i \in Tasks : /\ task'[i] \in TaskState
                         /\ task'[i].pc # "none" =>
                                task[i].pc # "none" /\ task'[i].key = task[i].key
    <3> TAKE i \in Tasks
    <3>1. CASE task[i].pc = "wait" /\ FlightOf(task[i]) = f
      BY <2>1, <2>2, <3>1, SettledFacts
    <3>2. CASE ~(task[i].pc = "wait" /\ FlightOf(task[i]) = f)
      BY <2>2, <3>2 DEF TypeOK
    <3>3. QED
      BY <3>1, <3>2
  <2>4. task' \in [Tasks -> TaskState]
    BY <2>2, <2>3
  <2>5. cache' \in [Flights -> Data \cup {None}]
    BY <1>4, <2>1 DEF Finish, TypeOK
  <2>6. flight' \in [Flights -> FlightState]
    BY <1>4, <1>t, EmptyStates DEF Finish
  <2>7. TypeOK'
    BY <1>4, <2>4, <2>5, <2>6 DEF Finish, TypeOK
  <2>8. \A r \in Readers, o \in Offs : <<r, o>> \in Tasks
    BY DEF Tasks, Demands
  <2>9. TaskKeys' /\ ReadRequests' /\ ReadsPermitted'
    BY <1>4, <2>3, <2>8 DEF Finish, TaskKeys, ReadRequests, ReadsPermitted
  <2>10. QED
    BY <2>7, <2>9
<1>5. CASE Evict(f)
  BY <1>5 DEF Evict, TypeOK, TaskKeys, ReadRequests, ReadsPermitted
<1>6. QED
  BY <1>1, <1>2, <1>3, <1>4, <1>5 DEF FlightStep

\* A get reads the group of some flight.
LEMMA GetGroup ==
    ASSUME NEW g \in Gets
    PROVE  \E f \in Flights : /\ GetOf(f) = g
                              /\ GroupRange(g).src = f[2][1]
                              /\ GroupRange(g).beg = GroupBeg(f)
                              /\ GroupRange(g).end = GroupEnd(GroupBeg(f), Group, End)
<1> DEFINE f == CHOOSE f \in Flights : GetOf(f) = g
<1>1. f \in Flights /\ GetOf(f) = g
  BY DEF Gets
<1>2. QED
  BY <1>1 DEF GroupRange

\* Whatever the store answers is an error or a slice that starts where the group does.
LEMMA OutcomeTypes ==
    ASSUME NEW g \in Gets, NEW b \in Outcomes(g)
    PROVE  /\ b \in Data \cup {None}
           /\ b # None => b.src = GroupRange(g).src /\ b.beg = GroupRange(g).beg
<1>1. PICK f \in Flights : /\ GetOf(f) = g
                           /\ GroupRange(g).src = f[2][1]
                           /\ GroupRange(g).beg = GroupBeg(f)
                           /\ GroupRange(g).end = GroupEnd(GroupBeg(f), Group, End)
  BY GetGroup
<1> DEFINE rg == GroupRange(g)
<1>2. rg.src \in Sources /\ rg.beg \in Nat /\ rg.end - rg.beg \in Nat
  BY <1>1, FlightGroup
<1>3. b = None \/ \E n \in Nat : b = Slice(rg.src, rg.beg, n)
  BY <1>2, ModeAssumption DEF Outcomes
<1>4. QED
  BY <1>2, <1>3 DEF Slice, Data

\* A step of a store read keeps the types.
LEMMA TypeGetStep ==
    ASSUME TypeInv, NEW g \in Gets, GetStep(g)
    PROVE  TypeInv'
<1> USE DEF TypeInv
<1>t. get[g] \in GetState /\ get \in [Gets -> GetState] /\ flight \in [Flights -> FlightState]
  BY DEF TypeOK
<1>1. CASE AcquirePermit(g)
  <2>1. PICK p \in free : /\ free' = free \ {p}
                          /\ get' = [get EXCEPT ![g] = [@ EXCEPT !.pc = "reading", !.permit = p]]
    BY <1>1 DEF AcquirePermit
  <2>2. [get[g] EXCEPT !.pc = "reading", !.permit = p] \in GetState
    BY <1>t DEF GetState, TypeOK
  <2>3. get' \in [Gets -> GetState] /\ free' \subseteq Permits
    BY <1>t, <2>1, <2>2 DEF TypeOK
  <2>4. waiting' \in Seq(Gets)
    BY <1>1 DEF AcquirePermit, TypeOK
  <2>5. TypeOK'
    BY <1>1, <2>3, <2>4 DEF AcquirePermit, TypeOK
  <2>6. ReadsPermitted'
    BY <1>t, <2>1 DEF TypeOK, ReadsPermitted, GetState
  <2>7. QED
    BY <1>1, <2>5, <2>6 DEF AcquirePermit, TaskKeys, ReadRequests
<1>2. CASE SourceRead(g)
  <2>1. PICK b \in Outcomes(g) :
            get' = [get EXCEPT ![g] = [pc |-> "done", permit |-> None, bytes |-> b]]
    BY <1>2 DEF SourceRead
  <2>2. [pc |-> "done", permit |-> None, bytes |-> b] \in GetState
    BY OutcomeTypes DEF GetState
  <2>3. TypeOK'
    BY <1>2, <1>t, <2>1, <2>2 DEF SourceRead, TypeOK, ReadsPermitted
  <2>4. ReadsPermitted'
    BY <1>t, <2>1 DEF ReadsPermitted
  <2>5. QED
    BY <1>2, <2>3, <2>4 DEF SourceRead, TaskKeys, ReadRequests
<1>3. CASE Retire(g)
  <2>1. flight' \in [Flights -> FlightState]
    BY <1>3, <1>t DEF Retire, FlightState, GetState
  <2>2. TypeOK'
    BY <1>3, <1>t, <2>1, EmptyStates DEF Retire, TypeOK
  <2>3. QED
    BY <1>3, <1>t, <2>2, EmptyStates DEF Retire, TaskKeys, ReadRequests, ReadsPermitted
<1>4. QED
  BY <1>1, <1>2, <1>3 DEF GetStep

\* Spawn starts tasks of reader r only, each on a block of the request.
LEMMA SpawnFacts ==
    ASSUME TypeInv, NEW r \in Readers, NEW q \in Requests[r], NEW S, Spawn(r, q, S)
    PROVE  /\ task' \in [Tasks -> TaskState]
           /\ \A i \in Tasks :
                /\ i[1] # r => task'[i] = task[i]
                /\ i[1] = r => \/ task'[i] = NoTask
                               \/ /\ i \in Demands /\ i[2] \in S
                                  /\ <<q.idx, i[2]>> \in Keys
                                  /\ task'[i] = NewTask(<<q.idx, i[2]>>)
<1>1. ASSUME NEW i \in Tasks, i[1] = r
      PROVE  <<q.idx, i[2]>> \in Keys /\ i \in Demands
  BY <1>1, TaskKinds, RequestAssumption DEF Keys
<1>2. ASSUME NEW i \in Tasks
      PROVE  task'[i] = IF i[1] = r
                        THEN IF i[2] \in S THEN NewTask(<<q.idx, i[2]>>) ELSE NoTask
                        ELSE task[i]
  BY DEF Spawn
<1>3. \A i \in Tasks : task'[i] \in TaskState
  BY <1>1, <1>2, NewTaskFacts, EmptyStates DEF TypeInv, TypeOK
<1>4. task' \in [Tasks -> TaskState]
  BY <1>3 DEF Spawn
<1>5. QED
  BY <1>1, <1>2, <1>4

\* A step of reader r that respawns its tasks keeps the keys and requests right.
LEMMA SpawnKeeps ==
    ASSUME TypeInv, NEW r \in Readers, NEW q \in Requests[r], NEW S, Spawn(r, q, S),
           NEW e \in ReadState, read' = [read EXCEPT ![r] = e],
           \/ S = {} /\ e.pc = "idle"
           \/ S = {} /\ e.pc = "readahead" /\ e.req = q /\ \E n \in Nat : e.cur = n * Chlen
           \/ e.pc \in {"leaders", "demand"} /\ e.req = q
    PROVE  /\ read' \in [Readers -> ReadState]
           /\ task' \in [Tasks -> TaskState]
           /\ TaskKeys' /\ ReadRequests'
<1>1. read \in [Readers -> ReadState] /\ read' \in [Readers -> ReadState]
  BY DEF TypeInv, TypeOK
<1>2. ReadRequests'
  BY <1>1 DEF TypeInv, ReadRequests
<1>s. \A i \in Tasks :
        /\ i[1] # r => task'[i] = task[i]
        /\ i[1] = r => \/ task'[i] = NoTask
                       \/ /\ i \in Demands /\ i[2] \in S
                          /\ <<q.idx, i[2]>> \in Keys
                          /\ task'[i] = NewTask(<<q.idx, i[2]>>)
  BY SpawnFacts
<1>n. \A k \in Keys : NewTask(k).key = k
  BY NewTaskFacts
<1>3. \A i \in Tasks : task'[i].pc # "none" => task'[i].key \in Keys
  <2> SUFFICES ASSUME NEW i \in Tasks, task'[i].pc # "none" PROVE task'[i].key \in Keys
    OBVIOUS
  <2>1. CASE i[1] # r
    BY <1>s, <2>1 DEF TypeInv, TaskKeys
  <2>2. CASE i[1] = r
    BY <1>s, <1>n, <2>2, EmptyStates
  <2>3. QED
    BY <2>1, <2>2
<1>4. ASSUME NEW c \in Readers, NEW o \in Offs, task'[<<c, o>>].pc # "none"
      PROVE  /\ read'[c].pc \in {"leaders", "demand"}
             /\ task'[<<c, o>>].key = <<read'[c].req.idx, o>>
  <2>1. <<c, o>> \in Tasks
    BY DEF Tasks, Demands
  <2>2. CASE c = r
    <3>1. <<c, o>>[1] = r /\ <<c, o>>[2] = o
      BY <2>2
    <3>2. o \in S /\ task'[<<c, o>>].key = <<q.idx, o>>
      BY <1>4, <1>s, <1>n, <2>1, <3>1, EmptyStates
    <3>3. read'[c] = e
      BY <1>1, <2>2 DEF TypeInv, TypeOK
    <3>4. QED
      BY <3>2, <3>3
  <2>3. CASE c # r
    <3>1. task'[<<c, o>>] = task[<<c, o>>] /\ read'[c] = read[c]
      BY <1>1, <2>1, <2>3, SpawnFacts
    <3>2. QED
      BY <1>4, <3>1 DEF TypeInv, TaskKeys
  <2>4. QED
    BY <2>2, <2>3
<1>5. QED
  BY <1>1, <1>2, <1>3, <1>4, SpawnFacts DEF TaskKeys

\* Where readahead starts is a block boundary.
LEMMA ReadaheadFacts ==
    ASSUME NEW r \in Readers, NEW q \in Requests[r]
    PROVE  /\ ReadaheadRange(q)[1] \in Nat /\ \E n \in Nat : ReadaheadRange(q)[1] = n * Chlen
           /\ ReadaheadRange(q)[2] \in Int /\ ReadaheadRange(q)[2] <= End
<1> USE GeometryAssumption
<1>1. q.off + q.len \in Nat
  BY RequestAssumption
<1>2. DivCeil(q.off + q.len, Chlen) \in Nat
  BY <1>1, DivBounds DEF DivCeil
<1>3. DivCeil(q.off + q.len, Chlen) * Chlen \in Nat /\ Readahead * Chlen \in Nat
  BY <1>2, SMT
<1>4. QED
  BY <1>2, <1>3 DEF ReadaheadRange, readahead_block_range, Lesser

\* Entering Cache::read keeps the types.
LEMMA TypeStartRead ==
    ASSUME TypeInv, NEW r \in Readers, NEW q \in Requests[r], StartRead(r, q)
    PROVE  TypeInv'
<1> DEFINE e == [IdleRead EXCEPT !.pc = IF NeedsLeaders(q) THEN "leaders" ELSE "demand", !.req = q]
           S == IF NeedsLeaders(q) THEN ReqLeaders(q) ELSE ReqOffs(q)
<1>1. q \in AllRequests
  BY DEF AllRequests
<1>2. e \in ReadState /\ e.pc \in {"leaders", "demand"} /\ e.req = q
  BY <1>1 DEF IdleRead, ReadState
<1>3. read' = [read EXCEPT ![r] = e] /\ Spawn(r, q, S)
  BY DEF StartRead
<1>4. /\ read' \in [Readers -> ReadState] /\ task' \in [Tasks -> TaskState]
      /\ TaskKeys' /\ ReadRequests'
  BY <1>2, <1>3, SpawnKeeps
<1>5. QED
  BY <1>4 DEF StartRead, TypeInv, TypeOK, ReadsPermitted

\* A step inside Cache::read keeps the types.
LEMMA TypeReaderStep ==
    ASSUME TypeInv, NEW r \in Readers, ReaderStep(r)
    PROVE  TypeInv'
<1> USE DEF TypeInv
<1>t. read[r] \in ReadState /\ read \in [Readers -> ReadState] /\ task \in [Tasks -> TaskState]
  BY DEF TypeOK
<1>q. read[r].pc # "idle" => read[r].req \in Requests[r]
  BY DEF ReadRequests
<1> DEFINE q == read[r].req
<1>1. CASE RouteAll(r)
  <2> DEFINE e == [read[r] EXCEPT !.pc = "demand"]
  <2>1. e \in ReadState /\ e.pc = "demand" /\ e.req = q /\ q \in Requests[r]
    BY <1>1, <1>t, <1>q DEF RouteAll, ReadState
  <2>2. read' = [read EXCEPT ![r] = e] /\ Spawn(r, q, ReqOffs(q))
    BY <1>1 DEF RouteAll
  <2>3. /\ read' \in [Readers -> ReadState] /\ task' \in [Tasks -> TaskState]
        /\ TaskKeys' /\ ReadRequests'
    BY <2>1, <2>2, SpawnKeeps
  <2>4. QED
    BY <1>1, <2>3 DEF RouteAll, TypeOK, ReadsPermitted
<1>2. CASE ReadFails(r)
  <2>1. /\ read' \in [Readers -> ReadState] /\ task' \in [Tasks -> TaskState]
        /\ TaskKeys' /\ ReadRequests'
    BY <1>2, <1>q, EmptyStates, SpawnKeeps DEF ReadFails
  <2>2. QED
    BY <1>2, <2>1 DEF ReadFails, TypeOK, ReadsPermitted
<1>3. CASE CopyBlocks(r)
  <2> DEFINE e == IF CopyOut(r).ok
                  THEN [read[r] EXCEPT !.pc = "readahead", !.cur = ReadaheadRange(q)[1]]
                  ELSE IdleRead
  <2>1. q \in Requests[r]
    BY <1>3, <1>q DEF CopyBlocks
  <2>2. \/ e \in ReadState /\ e.pc = "idle"
        \/ /\ e \in ReadState /\ e.pc = "readahead" /\ e.req = q
           /\ \E n \in Nat : e.cur = n * Chlen
    <3>1. CASE CopyOut(r).ok
      BY <1>t, <2>1, <3>1, ReadaheadFacts DEF ReadState
    <3>2. CASE ~CopyOut(r).ok
      BY <3>2, EmptyStates
    <3>3. QED
      BY <3>1, <3>2
  <2>3. read' = [read EXCEPT ![r] = e] /\ Spawn(r, q, {})
    BY <1>3 DEF CopyBlocks
  <2>4. /\ read' \in [Readers -> ReadState] /\ task' \in [Tasks -> TaskState]
        /\ TaskKeys' /\ ReadRequests'
    BY <2>1, <2>2, <2>3, SpawnKeeps
  <2>5. DOMAIN buf' = Readers
    BY <1>3 DEF CopyBlocks, TypeOK
  <2>6. QED
    BY <1>3, <2>4, <2>5 DEF CopyBlocks, TypeOK, ReadsPermitted
<1>4. ASSUME ReadaheadAt(r)
      PROVE  /\ read[r].cur \in Nat /\ read[r].cur + Chlen \in Nat /\ q \in Requests[r]
             /\ \E n \in Nat : read[r].cur + Chlen = n * Chlen
             /\ ReadaheadKey(r) \in Keys
  <2>1. q \in Requests[r]
    BY <1>4, <1>q DEF ReadaheadAt
  <2>2. PICK n \in Nat : read[r].cur = n * Chlen
    BY <1>4 DEF ReadaheadAt, ReadRequests
  <2>3. n * Chlen \in Nat /\ n * Chlen + Chlen = (n + 1) * Chlen /\ n + 1 \in Nat
    BY GeometryAssumption, SMT
  <2>4. read[r].cur < End
    BY <1>4, <2>1, <2>2, <2>3, ReadaheadFacts, GeometryAssumption DEF ReadaheadAt
  <2>5. read[r].cur \in Offs
    BY <2>2, <2>4, OffsFacts
  <2>6. QED
    BY <2>1, <2>2, <2>3, <2>5, RequestAssumption, GeometryAssumption DEF ReadaheadKey, Keys
<1>5. ASSUME NEW e \in ReadState, read' = [read EXCEPT ![r] = e],
             \/ e.pc = "idle" /\ read[r].pc = "readahead"
             \/ /\ read[r].pc = "readahead" /\ e.pc = "readahead" /\ e.req = q
                /\ \E n \in Nat : e.cur = n * Chlen
      PROVE  /\ read' \in [Readers -> ReadState] /\ ReadRequests'
             /\ \A c \in Readers, o \in Offs : task[<<c, o>>].pc # "none" =>
                    read'[c].pc \in {"leaders", "demand"} /\ read'[c] = read[c]
  BY <1>5, <1>t DEF ReadRequests, TaskKeys
<1>6. CASE ReadaheadSkip(r)
  <2> DEFINE e == [read[r] EXCEPT !.cur = read[r].cur + Chlen]
  <2>1. e \in ReadState /\ e.pc = "readahead" /\ e.req = q /\ \E n \in Nat : e.cur = n * Chlen
    BY <1>4, <1>6, <1>t DEF ReadaheadSkip, ReadaheadAt, ReadState
  <2>2. read' = [read EXCEPT ![r] = e] /\ read[r].pc = "readahead"
    BY <1>6, <1>t DEF ReadaheadSkip, ReadaheadAt
  <2>3. /\ read' \in [Readers -> ReadState] /\ ReadRequests'
        /\ \A c \in Readers, o \in Offs : task[<<c, o>>].pc # "none" =>
                read'[c].pc \in {"leaders", "demand"} /\ read'[c] = read[c]
    BY <1>5, <2>1, <2>2
  <2>4. TaskKeys'
    BY <1>6, <2>3 DEF ReadaheadSkip, TaskKeys
  <2>5. QED
    BY <1>6, <2>3, <2>4 DEF ReadaheadSkip, TypeOK, ReadsPermitted
<1>7. ASSUME NEW p \in Permits, ReadaheadSpawn(r, p)
      PROVE  TypeInv'
  <2> DEFINE e == [read[r] EXCEPT !.cur = read[r].cur + Chlen,
                                  !.last = AlignDown(read[r].cur, Group)]
             i == <<"readahead", p>>
             k == ReadaheadKey(r)
  <2>1. k \in Keys /\ read[r].cur \in Nat
    BY <1>4, <1>7 DEF ReadaheadSpawn
  <2>2. AlignDown(read[r].cur, Group) \in Nat
    BY <2>1, GroupFacts, AlignDownFacts
  <2>3. e \in ReadState /\ e.pc = "readahead" /\ e.req = q /\ \E n \in Nat : e.cur = n * Chlen
    BY <1>4, <1>7, <1>t, <2>2 DEF ReadaheadSpawn, ReadaheadAt, ReadState
  <2>4. read' = [read EXCEPT ![r] = e] /\ read[r].pc = "readahead"
    BY <1>7, <1>t DEF ReadaheadSpawn, ReadaheadAt
  <2>5. /\ read' \in [Readers -> ReadState] /\ ReadRequests'
        /\ \A c \in Readers, o \in Offs : task[<<c, o>>].pc # "none" =>
                read'[c].pc \in {"leaders", "demand"} /\ read'[c] = read[c]
    BY <1>5, <2>3, <2>4
  <2>6. i \in Tasks /\ i \in Prefetches /\ i \notin Demands
    BY TaskKinds DEF Tasks, Prefetches
  <2>7. task' = [task EXCEPT ![i] = NewTask(k)] /\ task' \in [Tasks -> TaskState]
    BY <1>7, <1>t, <2>1, NewTaskFacts DEF ReadaheadSpawn
  <2>8. \A c \in Readers, o \in Offs : <<c, o>> \in Demands /\ <<c, o>> \in Tasks
    BY DEF Tasks, Demands
  <2>9. TaskKeys'
    <3>1. \A j \in Tasks : j # i => task'[j] = task[j]
      BY <2>7, <1>t
    <3>2. task'[i].key = k
      BY <1>t, <2>1, <2>6, <2>7, NewTaskFacts
    <3>3. \A j \in Tasks : task'[j].pc # "none" => task'[j].key \in Keys
      BY <2>1, <3>1, <3>2 DEF TaskKeys
    <3>4. \A c \in Readers, o \in Offs : task'[<<c, o>>] = task[<<c, o>>]
      BY <2>6, <2>8, <3>1
    <3>5. QED
      BY <2>5, <3>3, <3>4 DEF TaskKeys
  <2>10. QED
    BY <1>7, <2>5, <2>7, <2>9 DEF ReadaheadSpawn, TypeOK, ReadsPermitted
<1>8. CASE ReadReturns(r)
  <2>1. read' = [read EXCEPT ![r] = IdleRead] /\ read[r].pc = "readahead"
    BY <1>8 DEF ReadReturns
  <2>2. /\ read' \in [Readers -> ReadState] /\ ReadRequests'
        /\ \A c \in Readers, o \in Offs : task[<<c, o>>].pc # "none" =>
                read'[c].pc \in {"leaders", "demand"} /\ read'[c] = read[c]
    BY <1>5, <2>1, EmptyStates
  <2>3. TaskKeys'
    BY <1>8, <2>2 DEF ReadReturns, TaskKeys
  <2>4. DOMAIN buf' = Readers
    BY <1>8 DEF ReadReturns, TypeOK
  <2>5. QED
    BY <1>8, <2>2, <2>3, <2>4 DEF ReadReturns, TypeOK, ReadsPermitted
<1>9. QED
  BY <1>1, <1>2, <1>3, <1>6, <1>7, <1>8 DEF ReaderStep

\* TypeInv is inductive.
LEMMA TypeStep == TypeInv /\ [Next]_vars => TypeInv'
<1> SUFFICES ASSUME TypeInv, [Next]_vars PROVE TypeInv'
  OBVIOUS
<1>1. CASE FlipPhase
  BY <1>1 DEF FlipPhase, TypeInv, TypeOK, TaskKeys, ReadRequests, ReadsPermitted
<1>2. CASE UNCHANGED vars
  BY <1>2 DEF vars, TypeInv, TypeOK, TaskKeys, ReadRequests, ReadsPermitted
<1>3. QED
  BY <1>1, <1>2, TypeStartRead, TypeReaderStep, TypeRouteStep, TypeFlightStep, TypeGetStep
     DEF Next

\* Every variable keeps its type, whatever the geometry, the readers and the faults.
THEOREM TypeCorrect == Spec => []TypeOK
<1>1. Spec => []TypeInv
  BY TypeInit, TypeStep, PTL DEF Spec
<1>2. TypeInv => TypeOK
  BY DEF TypeInv
<1>3. QED
  BY <1>1, <1>2, PTL

-----------------------------------------------------------------------------
(* Layer 2: the latch, the queue and the permits.                          *)

\* A flight has a permit only until it reaches the latch, a get only while it
\* reads, and a prefetch task is gone once it has handed its work to a flight.
Shape ==
    /\ \A f \in Flights : flight[f].permit # None => flight[f].pc = "start"
    /\ \A g \in Gets : get[g].permit # None => get[g].pc = "reading"
    /\ \A p \in Permits :
        task[<<"readahead", p>>].pc \in {"none", "phase", "metadata", "content", "fetch"}

LatchInv == Shape /\ LatchConsistent /\ QueueMatchesReads

\* The latch starts empty and nobody waits for it.
LEMMA LatchInit == Init => LatchInv
<1> SUFFICES ASSUME Init PROVE LatchInv
  OBVIOUS
<1>1. \A p \in Permits : <<"readahead", p>> \in Tasks
  BY DEF Tasks, Prefetches
<1>2. Shape
  BY <1>1, EmptyStates DEF Init, Shape
<1>3. LatchConsistent
  BY EmptyStates DEF Init, LatchConsistent
<1>4. QueueMatchesReads
  BY EmptyStates DEF Init, QueueMatchesReads
<1>5. QED
  BY <1>2, <1>3, <1>4 DEF LatchInv

\* A step that leaves the latch and the queue alone.
LEMMA LatchKept ==
    ASSUME LatchInv, UNCHANGED <<flight, get, waiting>>,
           \A p \in Permits :
             task'[<<"readahead", p>>].pc \in {"none", "phase", "metadata", "content", "fetch"}
    PROVE  LatchInv'
BY DEF LatchInv, Shape, LatchConsistent, QueueMatchesReads, Owns

\* What a step of route_block does to the task and to its permit: the task goes on,
\* or ends and gives the permit back, or ends and gives it to a new flight.
GoesOn(t) ==
    t.pc \in {"metadata", "content", "fetch"} /\ UNCHANGED <<free, flight>>

Ends(i, t) == IF i \in Prefetches THEN t = NoTask ELSE t.pc # "none"

Released(i, t) ==
    Ends(i, t) /\ free' = free \cup PermitOf(i) /\ UNCHANGED flight

TakesOff(i, t, f) ==
    /\ Ends(i, t)
    /\ UNCHANGED free
    /\ flight[f].pc = "none"
    /\ flight' = [flight EXCEPT ![f] =
            [NoFlight EXCEPT !.pc = "start",
                             !.permit = IF i \in Prefetches THEN i[2] ELSE None]]

\* A step of route_block leaves every flight and get in one of the shapes the code makes.
LEMMA RouteShape ==
    ASSUME TypeInv, NEW i \in Tasks, RouteStep(i)
    PROVE  /\ task[i].pc # "none"
           /\ UNCHANGED <<read, buf, get, waiting>>
           /\ \E t : /\ task' = [task EXCEPT ![i] = t]
                     /\ \/ GoesOn(t)
                        \/ Released(i, t)
                        \/ \E f \in Flights : TakesOff(i, t, f)
<1>t. task \in [Tasks -> TaskState] /\ task[i] \in TaskState
  BY DEF TypeInv, TypeOK
<1>s. ASSUME NEW d, Settle(i, d) PROVE task' = [task EXCEPT ![i] = Settled(i, d)] /\ Ends(i, Settled(i, d))
  BY <1>s, <1>t DEF Settle, Settled, Ends, TaskState
<1>p. Ends(i, Parked(i))
  BY <1>t DEF Parked, Ends, TaskState
<1>1. CASE LoadPhase(i)
  <2> DEFINE t == [task[i] EXCEPT !.pc = "metadata", !.regular = regular_phase]
  <2>1. t.pc = "metadata"
    BY <1>t DEF TaskState
  <2>2. task' = [task EXCEPT ![i] = t] /\ GoesOn(t)
    BY <1>1, <1>t, <2>1 DEF LoadPhase, GoesOn
  <2>3. QED
    BY <1>1, <2>2 DEF LoadPhase
<1>2. CASE GetMetadata(i)
  <2> DEFINE t == [task[i] EXCEPT !.pc = "content"]
             d == cache[<<"metadata", task[i].key>>]
  <2>1. t.pc = "content"
    BY <1>t DEF TaskState
  <2>2. CASE d # None /\ Settle(i, d) /\ free' = free \cup PermitOf(i)
    BY <1>2, <1>s, <2>2 DEF GetMetadata, Released
  <2>3. CASE d = None /\ task' = [task EXCEPT ![i].pc = "content"] /\ UNCHANGED free
    <3>1. task' = [task EXCEPT ![i] = t] /\ GoesOn(t)
      BY <1>2, <1>t, <2>1, <2>3 DEF GetMetadata, GoesOn
    <3>2. QED
      BY <1>2, <3>1 DEF GetMetadata
  <2>4. QED
    BY <1>2, <2>2, <2>3 DEF GetMetadata
<1>3. CASE GetContent(i)
  <2> DEFINE t == [task[i] EXCEPT !.pc = "fetch"]
             d == cache[<<"content", task[i].key>>]
  <2>1. t.pc = "fetch"
    BY <1>t DEF TaskState
  <2>2. CASE d # None /\ Settle(i, d) /\ free' = free \cup PermitOf(i)
    BY <1>3, <1>s, <2>2 DEF GetContent, Released
  <2>3. CASE d = None /\ task' = [task EXCEPT ![i].pc = "fetch"] /\ UNCHANGED free
    <3>1. task' = [task EXCEPT ![i] = t] /\ GoesOn(t)
      BY <1>3, <1>t, <2>1, <2>3 DEF GetContent, GoesOn
    <3>2. QED
      BY <1>3, <3>1 DEF GetContent
  <2>4. QED
    BY <1>3, <2>2, <2>3 DEF GetContent
<1>4. CASE LookupFails(i)
  BY <1>4, <1>s DEF LookupFails, Released
<1>5. CASE GetOrFetch(i)
  <2> DEFINE f == FlightOf(task[i])
  <2>1. f \in Flights
    BY <1>5 DEF GetOrFetch, FlightOf, TierOf, Flights, Tiers, TypeInv, TaskKeys
  <2>2. CASE Settle(i, cache[f]) /\ free' = free \cup PermitOf(i) /\ UNCHANGED flight
    BY <1>5, <1>s, <2>2 DEF GetOrFetch, Released
  <2>3. CASE task' = [task EXCEPT ![i] = Parked(i)] /\ free' = free \cup PermitOf(i) /\ UNCHANGED flight
    BY <1>5, <1>p, <2>3 DEF GetOrFetch, Released
  <2>4. CASE /\ cache[f] = None /\ flight[f].pc = "none"
             /\ task' = [task EXCEPT ![i] = Parked(i)]
             /\ flight' = [flight EXCEPT ![f] =
                    [NoFlight EXCEPT !.pc = "start",
                                     !.permit = IF i \in Prefetches THEN i[2] ELSE None]]
             /\ UNCHANGED free
    <3>1. TakesOff(i, Parked(i), f)
      BY <1>p, <2>4 DEF TakesOff
    <3>2. QED
      BY <1>5, <2>1, <2>4, <3>1 DEF GetOrFetch
  <2>5. QED
    BY <1>5, <2>2, <2>3, <2>4 DEF GetOrFetch
<1>6. QED
  BY <1>1, <1>2, <1>3, <1>4, <1>5 DEF RouteStep

\* A step of route_block leaves the latch consistent: it starts flights, joins nothing.
LEMMA LatchRouteStep ==
    ASSUME TypeInv, LatchInv, NEW i \in Tasks, RouteStep(i)
    PROVE  LatchInv'
<1> DEFINE Busy == {"none", "phase", "metadata", "content", "fetch"}
<1>t. /\ task \in [Tasks -> TaskState] /\ flight \in [Flights -> FlightState]
      /\ \A p \in Permits : <<"readahead", p>> \in Tasks /\ <<"readahead", p>> \in Prefetches
  BY DEF TypeInv, TypeOK, Tasks, Prefetches
<1>1. PICK t : /\ task' = [task EXCEPT ![i] = t]
               /\ \/ GoesOn(t)
                  \/ Released(i, t)
                  \/ \E f \in Flights : TakesOff(i, t, f)
  BY RouteShape
<1>2. UNCHANGED <<get, waiting>>
  BY RouteShape
<1>3. \A p \in Permits : task'[<<"readahead", p>>].pc \in Busy
  BY <1>t, <1>1, EmptyStates DEF LatchInv, Shape, GoesOn, Released, TakesOff, Ends
<1>4. CASE UNCHANGED flight
  BY <1>2, <1>3, <1>4, LatchKept
<1>5. ASSUME NEW f \in Flights, TakesOff(i, t, f)
      PROVE  LatchInv'
  <2> DEFINE fl == [NoFlight EXCEPT !.pc = "start",
                                    !.permit = IF i \in Prefetches THEN i[2] ELSE None]
  <2>1. fl.pc = "start" /\ flight' = [flight EXCEPT ![f] = fl] /\ flight[f].pc = "none"
    BY <1>5 DEF TakesOff, NoFlight
  <2>2. \A e \in Flights : e # f => flight'[e] = flight[e]
    BY <1>t, <2>1
  <2>3. flight'[f].pc = "start"
    BY <1>t, <2>1
  <2>4. Shape'
    BY <1>2, <1>3, <2>2, <2>3 DEF LatchInv, Shape
  <2>5. \A e \in Flights, g \in Gets : Owns(e, g)' <=> Owns(e, g)
    BY <2>1, <2>2, <2>3 DEF Owns
  <2>6. \A e \in Flights : flight'[e].pc = "joined" => flight[e].pc = "joined"
    BY <2>1, <2>2, <2>3
  <2>7. LatchConsistent'
    BY <1>2, <2>5, <2>6 DEF LatchInv, LatchConsistent
  <2>8. QED
    BY <1>2, <2>4, <2>7 DEF LatchInv, QueueMatchesReads
<1>6. QED
  BY <1>1, <1>4, <1>5 DEF GoesOn, Released

\* Shape after a step that changes one flight and at most one get.
LEMMA ShapeStep ==
    ASSUME Shape, NEW f \in Flights, NEW g \in Gets,
           \A e \in Flights : e # f => flight'[e] = flight[e],
           flight'[f].permit # None => flight'[f].pc = "start",
           \A h \in Gets : h # g => get'[h] = get[h],
           get'[g].permit # None => get'[g].pc = "reading",
           UNCHANGED task
    PROVE  Shape'
<1>1. \A e \in Flights : flight'[e].permit # None => flight'[e].pc = "start"
  BY DEF Shape
<1>2. \A h \in Gets : get'[h].permit # None => get'[h].pc = "reading"
  BY DEF Shape
<1>3. QED
  BY <1>1, <1>2 DEF Shape

\* Joining, opening, filling and finishing keep the latch consistent.
LEMMA LatchFlightStep ==
    ASSUME TypeInv, LatchInv, NEW f \in Flights, FlightStep(f) \/ Evict(f)
    PROVE  LatchInv'
<1>t. /\ flight \in [Flights -> FlightState] /\ get \in [Gets -> GetState]
      /\ waiting \in Seq(Gets) /\ task \in [Tasks -> TaskState]
      /\ GetOf(f) \in Gets
      /\ \A p \in Permits : <<"readahead", p>> \in Tasks
  BY FlightGroup DEF TypeInv, TypeOK, Tasks, Prefetches
<1>1. CASE JoinGet(f)
  <2> DEFINE fl == [NoFlight EXCEPT !.pc = "joined"]
  <2>1. fl.pc = "joined" /\ fl.permit = None /\ fl.owner = FALSE
    BY DEF NoFlight
  <2>2. flight'[f] = fl /\ \A e \in Flights : e # f => flight'[e] = flight[e]
    BY <1>1, <1>t DEF JoinGet
  <2>3. UNCHANGED <<get, waiting, task>> /\ flight[f].pc = "start" /\ get[GetOf(f)].pc # "none"
    BY <1>1 DEF JoinGet
  <2>4. Shape'
    BY <1>t, <2>1, <2>2, <2>3, ShapeStep DEF LatchInv, Shape
  <2>5. \A e \in Flights, g \in Gets : Owns(e, g)' <=> Owns(e, g)
    BY <2>1, <2>2, <2>3 DEF Owns
  <2>6. LatchConsistent'
    BY <2>2, <2>3, <2>5 DEF LatchInv, LatchConsistent
  <2>7. QED
    BY <2>3, <2>4, <2>6 DEF LatchInv, QueueMatchesReads
<1>2. CASE OpenGet(f)
  <2> DEFINE fl == [NoFlight EXCEPT !.pc = "joined", !.owner = TRUE]
             p == flight[f].permit
             g == GetOf(f)
             gt == [NoGet EXCEPT !.pc = FirstPc(p), !.permit = p]
  <2>1. fl.pc = "joined" /\ fl.permit = None /\ fl.owner = TRUE
    BY DEF NoFlight
  <2>2. flight'[f] = fl /\ \A e \in Flights : e # f => flight'[e] = flight[e]
    BY <1>2, <1>t DEF OpenGet
  <2>3. gt.pc = FirstPc(p) /\ gt.permit = p
    BY DEF NoGet
  <2>4. get'[g] = gt /\ \A h \in Gets : h # g => get'[h] = get[h]
    BY <1>2, <1>t DEF OpenGet
  <2>5. FirstPc(p) # "none" /\ (p # None => FirstPc(p) = "reading") /\ (p = None => FirstPc(p) = "queued")
    BY DEF FirstPc
  <2>6. flight[f].pc = "start" /\ UNCHANGED task
    BY <1>2 DEF OpenGet
  <2>7. get[g].pc = "none"
    <3>1. CASE Coalesced
      BY <1>2, <3>1 DEF OpenGet
    <3>2. CASE ~Coalesced
      BY <1>t, <2>6, <3>2 DEF GetOf, LatchInv, LatchConsistent, Owns
    <3>3. QED
      BY <3>1, <3>2
  <2>8. Shape'
    <3> HIDE DEF gt, fl, g, p
    <3>1. flight'[f].permit # None => flight'[f].pc = "start"
      BY <2>1, <2>2
    <3>2. get'[g].permit # None => get'[g].pc = "reading"
      BY <2>3, <2>4, <2>5
    <3>3. g \in Gets /\ Shape /\ UNCHANGED task
      BY <1>t, <2>6 DEF g, LatchInv
    <3>4. QED
      BY <2>2, <2>4, <3>1, <3>2, <3>3, ShapeStep
  <2>9. LatchConsistent'
    <3>1. \A e \in Flights : flight'[e].pc = "joined" => get'[GetOf(e)].pc # "none"
      BY <2>2, <2>3, <2>4, <2>5, FlightGroup DEF LatchInv, LatchConsistent
    <3>2. \A e \in Flights, h \in Gets : h # g => (Owns(e, h)' <=> Owns(e, h))
      BY <2>2, <2>6 DEF Owns
    <3>3. Owns(f, g)' /\ \A e \in Flights : Owns(e, g)' => e = f
      BY <2>1, <2>2, <2>7 DEF Owns, LatchInv, LatchConsistent
    <3>4. \A h \in Gets : get'[h].pc # "none" =>
            \E e \in Flights : Owns(e, h)' /\ \A d \in Flights : Owns(d, h)' => d = e
      BY <2>4, <3>2, <3>3 DEF LatchInv, LatchConsistent
    <3>5. QED
      BY <3>1, <3>4 DEF LatchConsistent
  <2>10. QueueMatchesReads'
    <3>1. CASE p = None
      <4>1. waiting' = Append(waiting, g)
        BY <1>2, <3>1 DEF OpenGet, Enqueue
      <4>2. /\ Len(waiting') = Len(waiting) + 1 /\ waiting'[Len(waiting) + 1] = g
            /\ \A n \in 1 .. Len(waiting) : waiting'[n] = waiting[n]
            /\ Len(waiting) \in Nat
        BY <1>t, <4>1
      <4>3. \A n \in 1 .. Len(waiting) : waiting[n] # g
        BY <1>t, <2>7 DEF LatchInv, QueueMatchesReads
      <4>4. get'[g].pc = "queued"
        BY <2>3, <2>4, <2>5, <3>1
      <4>5. \A m, n \in 1 .. Len(waiting') : waiting'[m] = waiting'[n] => m = n
        BY <4>2, <4>3 DEF LatchInv, QueueMatchesReads
      <4>6. \A h \in Gets : get'[h].pc = "queued" <=> \E n \in 1 .. Len(waiting') : waiting'[n] = h
        <5> HIDE DEF gt, g, p
        <5> TAKE h \in Gets
        <5>1. CASE h = g
          BY <4>2, <4>4, <5>1
        <5>2. CASE h # g
          <6>1. get'[h] = get[h]
            BY <2>4, <5>2
          <6>2. get[h].pc = "queued" <=> \E n \in 1 .. Len(waiting) : waiting[n] = h
            BY DEF LatchInv, QueueMatchesReads
          <6>3. QED
            BY <4>2, <5>2, <6>1, <6>2
        <5>3. QED
          BY <5>1, <5>2
      <4>7. QED
        BY <4>5, <4>6 DEF QueueMatchesReads
    <3>2. CASE p # None
      <4>1. waiting' = waiting /\ get'[g].pc = "reading"
        BY <1>2, <2>3, <2>4, <2>5, <3>2 DEF OpenGet, Enqueue
      <4>2. \A h \in Gets : get'[h].pc = "queued" <=> get[h].pc = "queued"
        BY <2>4, <2>7, <4>1
      <4>3. QED
        BY <4>1, <4>2 DEF LatchInv, QueueMatchesReads
    <3>3. QED
      BY <3>1, <3>2
  <2>11. QED
    BY <2>8, <2>9, <2>10 DEF LatchInv
<1>3. CASE FillSiblings(f)
  <2>1. flight'[f] = [flight[f] EXCEPT !.pc = "filled"] /\ \A e \in Flights : e # f => flight'[e] = flight[e]
    BY <1>3, <1>t DEF FillSiblings
  <2>2. flight[f].pc = "got" /\ flight'[f].pc = "filled" /\ flight'[f].permit = flight[f].permit
    BY <1>3, <1>t, <2>1 DEF FillSiblings, FlightState
  <2>3. UNCHANGED <<get, waiting, task>>
    BY <1>3 DEF FillSiblings
  <2>4. Shape'
    <3>1. flight'[f].permit # None => flight'[f].pc = "start"
      BY <2>2 DEF LatchInv, Shape
    <3>2. \A h \in Gets : get'[h] = get[h] /\ (get'[h].permit # None => get'[h].pc = "reading")
      BY <2>3 DEF LatchInv, Shape
    <3>3. \A e \in Flights : e # f => flight'[e] = flight[e]
      BY <2>1
    <3>4. QED
      BY <1>t, <2>3, <3>1, <3>2, <3>3, ShapeStep DEF LatchInv
  <2>5. \A e \in Flights, g \in Gets : Owns(e, g)' <=> Owns(e, g)
    BY <2>1, <2>2 DEF Owns
  <2>6. LatchConsistent'
    BY <2>1, <2>2, <2>3, <2>5 DEF LatchInv, LatchConsistent
  <2>7. QED
    BY <2>3, <2>4, <2>6 DEF LatchInv, QueueMatchesReads
<1>4. CASE Finish(f)
  <2>1. flight'[f] = NoFlight /\ \A e \in Flights : e # f => flight'[e] = flight[e]
    BY <1>4, <1>t DEF Finish
  <2>2. flight[f].pc \in {"got", "filled"} /\ UNCHANGED <<get, waiting>>
    BY <1>4 DEF Finish
  <2>3. \A p \in Permits : task'[<<"readahead", p>>] = task[<<"readahead", p>>]
    BY <1>4, <1>t DEF Finish, LatchInv, Shape
  <2>4. Shape'
    BY <2>1, <2>2, <2>3, EmptyStates DEF LatchInv, Shape
  <2>5. \A e \in Flights, g \in Gets : Owns(e, g)' <=> Owns(e, g)
    BY <2>1, <2>2, EmptyStates DEF Owns
  <2>6. LatchConsistent'
    BY <2>1, <2>2, <2>5, EmptyStates DEF LatchInv, LatchConsistent
  <2>7. QED
    BY <2>2, <2>4, <2>6 DEF LatchInv, QueueMatchesReads
<1>5. CASE Evict(f)
  <2>1. UNCHANGED <<flight, get, waiting, task>>
    BY <1>5 DEF Evict
  <2>2. QED
    BY <2>1, LatchKept DEF LatchInv, Shape
<1>6. QED
  BY <1>1, <1>2, <1>3, <1>4, <1>5 DEF FlightStep

\* Acquiring, reading and retiring keep the latch and the queue consistent.
LEMMA LatchGetStep ==
    ASSUME TypeInv, LatchInv, NEW g \in Gets, GetStep(g)
    PROVE  LatchInv'
<1>t. /\ flight \in [Flights -> FlightState] /\ get \in [Gets -> GetState]
      /\ waiting \in Seq(Gets)
  BY DEF TypeInv, TypeOK
<1>1. CASE AcquirePermit(g)
  <2>1. PICK p \in free : get' = [get EXCEPT ![g] = [@ EXCEPT !.pc = "reading", !.permit = p]]
    BY <1>1 DEF AcquirePermit
  <2>2. /\ get'[g].pc = "reading"
        /\ \A h \in Gets : h # g => get'[h] = get[h]
    BY <1>t, <2>1 DEF GetState
  <2>3. UNCHANGED <<flight, task>> /\ waiting # <<>> /\ g = Head(waiting) /\ waiting' = Tail(waiting)
    BY <1>1 DEF AcquirePermit
  <2>4. /\ Len(waiting) \in Nat /\ Len(waiting) > 0 /\ waiting[1] = g
        /\ Len(waiting') = Len(waiting) - 1
        /\ \A n \in 1 .. Len(waiting') : waiting'[n] = waiting[n + 1]
    BY <1>t, <2>3
  <2>5. get[g].pc = "queued"
    BY <2>4 DEF LatchInv, QueueMatchesReads
  <2>6. Shape'
    BY <2>2, <2>3 DEF LatchInv, Shape
  <2>7. LatchConsistent'
    <3>1. \A h \in Gets : get'[h].pc # "none" <=> get[h].pc # "none"
      BY <2>2, <2>5
    <3>2. \A e \in Flights : GetOf(e) \in Gets
      BY FlightGroup
    <3>3. QED
      BY <2>3, <3>1, <3>2 DEF LatchInv, LatchConsistent, Owns
  <2>8. \A m, n \in 1 .. Len(waiting') : waiting'[m] = waiting'[n] => m = n
    BY <2>4 DEF LatchInv, QueueMatchesReads
  <2>9. \A h \in Gets : get'[h].pc = "queued" <=> \E n \in 1 .. Len(waiting') : waiting'[n] = h
    <3> TAKE h \in Gets
    <3>1. CASE h = g
      <4>1. \A n \in 1 .. Len(waiting') : waiting[n + 1] # g
        BY <2>4 DEF LatchInv, QueueMatchesReads
      <4>2. QED
        BY <2>2, <2>4, <3>1, <4>1
    <3>2. CASE h # g
      <4>1. get'[h].pc = "queued" <=> \E n \in 1 .. Len(waiting) : waiting[n] = h
        BY <2>2, <3>2 DEF LatchInv, QueueMatchesReads
      <4>2. ASSUME NEW n \in 1 .. Len(waiting), waiting[n] = h
            PROVE  \E m \in 1 .. Len(waiting') : waiting'[m] = h
        <5>1. n # 1 /\ n - 1 \in 1 .. Len(waiting') /\ waiting'[n - 1] = waiting[(n - 1) + 1] /\ (n - 1) + 1 = n
          BY <2>4, <3>2, <4>2
        <5>2. QED
          BY <4>2, <5>1
      <4>3. ASSUME NEW n \in 1 .. Len(waiting'), waiting'[n] = h
            PROVE  \E m \in 1 .. Len(waiting) : waiting[m] = h
        <5>1. n + 1 \in 1 .. Len(waiting) /\ waiting[n + 1] = h
          BY <2>4, <4>3
        <5>2. QED
          BY <5>1
      <4>4. QED
        BY <4>1, <4>2, <4>3
    <3>3. QED
      BY <3>1, <3>2
  <2>10. QED
    BY <2>6, <2>7, <2>8, <2>9 DEF LatchInv, QueueMatchesReads
<1>2. CASE SourceRead(g)
  <2>1. get[g].pc = "reading" /\ UNCHANGED <<flight, task, waiting>>
    BY <1>2 DEF SourceRead
  <2>2. /\ get'[g].pc = "done" /\ get'[g].permit = None
        /\ \A h \in Gets : h # g => get'[h] = get[h]
    BY <1>2, <1>t DEF SourceRead
  <2>3. Shape'
    BY <2>1, <2>2 DEF LatchInv, Shape
  <2>4. LatchConsistent'
    <3>1. \A h \in Gets : get'[h].pc # "none" <=> get[h].pc # "none"
      BY <2>1, <2>2
    <3>2. \A e \in Flights : GetOf(e) \in Gets
      BY FlightGroup
    <3>3. QED
      BY <2>1, <3>1, <3>2 DEF LatchInv, LatchConsistent, Owns
  <2>5. \A h \in Gets : get'[h].pc = "queued" <=> get[h].pc = "queued"
    BY <2>1, <2>2
  <2>6. QED
    BY <2>1, <2>3, <2>4, <2>5 DEF LatchInv, QueueMatchesReads
<1>3. CASE Retire(g)
  <2>1. get[g].pc = "done" /\ UNCHANGED <<task, waiting>>
    BY <1>3 DEF Retire
  <2>2. get'[g] = NoGet /\ \A h \in Gets : h # g => get'[h] = get[h]
    BY <1>3, <1>t DEF Retire
  <2>3. \A f \in Flights :
          IF flight[f].pc = "joined" /\ GetOf(f) = g
          THEN flight'[f].pc = "got" /\ flight'[f].permit = flight[f].permit
          ELSE flight'[f] = flight[f]
    BY <1>3, <1>t DEF Retire, FlightState
  <2>4. Shape'
    <3>1. \A f \in Flights : flight'[f].permit # None => flight'[f].pc = "start"
      BY <2>3 DEF LatchInv, Shape
    <3>2. \A h \in Gets : get'[h].permit # None => get'[h].pc = "reading"
      BY <2>2, EmptyStates DEF LatchInv, Shape
    <3>3. QED
      BY <2>1, <3>1, <3>2 DEF LatchInv, Shape
  <2>5. \A f \in Flights, h \in Gets : h # g => (Owns(f, h)' <=> Owns(f, h))
    BY <2>3 DEF Owns
  <2>6. LatchConsistent'
    <3>1. ASSUME NEW f \in Flights, flight'[f].pc = "joined" PROVE get'[GetOf(f)].pc # "none"
      <4>1. GetOf(f) # g /\ flight[f].pc = "joined" /\ GetOf(f) \in Gets
        BY <2>3, <3>1, FlightGroup
      <4>2. QED
        BY <2>2, <4>1 DEF LatchInv, LatchConsistent
    <3>2. ASSUME NEW h \in Gets, get'[h].pc # "none"
          PROVE  \E f \in Flights : Owns(f, h)' /\ \A e \in Flights : Owns(e, h)' => e = f
      <4>1. h # g /\ get[h].pc # "none"
        BY <2>2, <3>2, EmptyStates
      <4>2. QED
        BY <2>5, <4>1 DEF LatchInv, LatchConsistent
    <3>3. QED
      BY <3>1, <3>2 DEF LatchConsistent
  <2>7. \A h \in Gets : get'[h].pc = "queued" <=> get[h].pc = "queued"
    BY <2>1, <2>2, EmptyStates
  <2>8. QED
    BY <2>1, <2>4, <2>6, <2>7 DEF LatchInv, QueueMatchesReads
<1>4. QED
  BY <1>1, <1>2, <1>3 DEF GetStep

\* A reader touches neither flights nor gets; all it does to permits is to take a
\* free one for a prefetch task.
LEMMA ReaderShape ==
    ASSUME TypeInv, NEW r \in Readers,
           ReaderStep(r) \/ \E q \in Requests[r] : StartRead(r, q)
    PROVE  /\ UNCHANGED <<flight, get, waiting>>
           /\ \/ /\ UNCHANGED free
                 /\ \A p \in Permits : task'[<<"readahead", p>>] = task[<<"readahead", p>>]
              \/ \E p \in Permits :
                    /\ p \in free /\ free' = free \ {p}
                    /\ task'[<<"readahead", p>>].pc \in {"phase", "content"}
                    /\ \A o \in Permits : o # p =>
                        task'[<<"readahead", o>>] = task[<<"readahead", o>>]
<1>t. /\ task \in [Tasks -> TaskState]
      /\ \A p \in Permits : <<"readahead", p>> \in Tasks /\ <<"readahead", p>>[1] # r
  BY NoneAssumption DEF TypeInv, TypeOK, Tasks, Prefetches
<1>q. read[r].pc # "idle" => read[r].req \in Requests[r]
  BY DEF TypeInv, ReadRequests
<1>1. ASSUME NEW q \in Requests[r], NEW S, Spawn(r, q, S)
      PROVE  \A p \in Permits : task'[<<"readahead", p>>] = task[<<"readahead", p>>]
  BY <1>1, <1>t, SpawnFacts
<1> DEFINE Kept == \A p \in Permits : task'[<<"readahead", p>>] = task[<<"readahead", p>>]
<1>2. CASE \E q \in Requests[r] : StartRead(r, q)
  <2>1. Kept
    BY <1>1, <1>2 DEF StartRead
  <2>2. QED
    BY <1>2, <2>1 DEF StartRead
<1>3. CASE RouteAll(r)
  <2>1. Kept
    BY <1>1, <1>3, <1>q DEF RouteAll
  <2>2. QED
    BY <1>3, <2>1 DEF RouteAll
<1>4. CASE ReadFails(r)
  <2>1. Kept
    BY <1>1, <1>4, <1>q DEF ReadFails
  <2>2. QED
    BY <1>4, <2>1 DEF ReadFails
<1>5. CASE CopyBlocks(r)
  <2>1. Kept
    BY <1>1, <1>5, <1>q DEF CopyBlocks
  <2>2. QED
    BY <1>5, <2>1 DEF CopyBlocks
<1>6. CASE ReadaheadSkip(r)
  BY <1>6 DEF ReadaheadSkip
<1>7. ASSUME NEW p \in Permits, ReadaheadSpawn(r, p)
      PROVE  /\ UNCHANGED <<flight, get, waiting>>
             /\ p \in free /\ free' = free \ {p}
             /\ task'[<<"readahead", p>>].pc \in {"phase", "content"}
             /\ \A o \in Permits : o # p =>
                    task'[<<"readahead", o>>] = task[<<"readahead", o>>]
  <2>1. task' = [task EXCEPT ![<<"readahead", p>>] = NewTask(ReadaheadKey(r))]
    BY <1>7 DEF ReadaheadSpawn
  <2>2. NewTask(ReadaheadKey(r)).pc \in {"phase", "content"}
    BY DEF NewTask, NoTask
  <2>3. \A o \in Permits : o # p => <<"readahead", o>> # <<"readahead", p>>
    OBVIOUS
  <2>4. QED
    BY <1>7, <1>t, <2>1, <2>2, <2>3 DEF ReadaheadSpawn
<1>8. CASE ReadReturns(r)
  BY <1>8 DEF ReadReturns
<1>9. QED
  BY <1>2, <1>3, <1>4, <1>5, <1>6, <1>7, <1>8 DEF ReaderStep

\* LatchInv is inductive, given the types.
LEMMA LatchStep == TypeInv /\ LatchInv /\ [Next]_vars => LatchInv'
<1> SUFFICES ASSUME TypeInv, LatchInv, [Next]_vars PROVE LatchInv'
  OBVIOUS
<1>1. ASSUME NEW r \in Readers, ReaderStep(r) \/ \E q \in Requests[r] : StartRead(r, q)
      PROVE  LatchInv'
  <2>1. UNCHANGED <<flight, get, waiting>>
    BY <1>1, ReaderShape
  <2>2. \A p \in Permits :
          task'[<<"readahead", p>>].pc \in {"none", "phase", "metadata", "content", "fetch"}
    BY <1>1, ReaderShape DEF LatchInv, Shape
  <2>3. QED
    BY <2>1, <2>2, LatchKept
<1>2. CASE FlipPhase
  BY <1>2, LatchKept DEF FlipPhase, LatchInv, Shape
<1>3. CASE UNCHANGED vars
  BY <1>3, LatchKept DEF vars, LatchInv, Shape
<1>4. QED
  BY <1>1, <1>2, <1>3, LatchRouteStep, LatchFlightStep, LatchGetStep DEF Next

\* Permits, as predicates that each action disturbs in one place.
Prefetching(p) == task[<<"readahead", p>>].pc # "none"

PermitHeld ==
    \A p \in Permits :
        \/ p \in free
        \/ Prefetching(p)
        \/ \E f \in Flights : flight[f].permit = p
        \/ \E g \in Gets : get[g].permit = p

PermitAlone ==
    \A p \in Permits :
        /\ p \in free => /\ ~Prefetching(p)
                         /\ \A f \in Flights : flight[f].permit # p
                         /\ \A g \in Gets : get[g].permit # p
        /\ Prefetching(p) => /\ \A f \in Flights : flight[f].permit # p
                             /\ \A g \in Gets : get[g].permit # p
        /\ \A f \in Flights : flight[f].permit = p =>
                /\ \A g \in Gets : get[g].permit # p
                /\ \A e \in Flights : flight[e].permit = p => e = f
        /\ \A g, h \in Gets : get[g].permit = p /\ get[h].permit = p => g = h

PermitInv == PermitHeld /\ PermitAlone

\* At first every permit is in the semaphore.
LEMMA PermitInit == Init => PermitInv
<1>1. \A p \in Permits : <<"readahead", p>> \in Tasks
  BY DEF Tasks, Prefetches
<1>2. QED
  BY <1>1, EmptyStates, NoneAssumption
     DEF Init, PermitInv, PermitHeld, PermitAlone, Prefetching

\* A step after which everybody holds what they held before.
LEMMA PermitKept ==
    ASSUME PermitInv, UNCHANGED free,
           \A p \in Permits : Prefetching(p)' <=> Prefetching(p),
           \A f \in Flights : flight'[f].permit = flight[f].permit,
           \A g \in Gets : get'[g].permit = get[g].permit
    PROVE  PermitInv'
BY DEF PermitInv, PermitHeld, PermitAlone

\* route_block moves a permit from the prefetch task to its flight or to the semaphore.
LEMMA PermitRouteStep ==
    ASSUME TypeInv, LatchInv, PermitInv, NEW i \in Tasks, RouteStep(i)
    PROVE  PermitInv'
<1>t. /\ task \in [Tasks -> TaskState] /\ flight \in [Flights -> FlightState]
      /\ \A p \in Permits : <<"readahead", p>> \in Tasks /\ <<"readahead", p>> \in Prefetches
  BY DEF TypeInv, TypeOK, Tasks, Prefetches
<1>1. PICK t : /\ task' = [task EXCEPT ![i] = t]
               /\ \/ GoesOn(t)
                  \/ Released(i, t)
                  \/ \E f \in Flights : TakesOff(i, t, f)
  BY RouteShape
<1>2. task[i].pc # "none" /\ UNCHANGED get
  BY RouteShape
<1>3. \A p \in Permits : <<"readahead", p>> # i => (Prefetching(p)' <=> Prefetching(p))
  BY <1>t, <1>1 DEF Prefetching
<1>4. CASE GoesOn(t)
  <2>1. \A p \in Permits : Prefetching(p)' <=> Prefetching(p)
    BY <1>t, <1>1, <1>2, <1>3, <1>4 DEF Prefetching, GoesOn
  <2>2. QED
    BY <1>2, <1>4, <2>1, PermitKept DEF GoesOn
<1>5. CASE i \notin Prefetches /\ Released(i, t)
  <2>1. UNCHANGED <<free, flight>>
    BY <1>5 DEF Released, PermitOf
  <2>2. \A p \in Permits : Prefetching(p)' <=> Prefetching(p)
    BY <1>t, <1>3, <1>5
  <2>3. QED
    BY <1>2, <2>1, <2>2, PermitKept
<1>6. CASE i \in Prefetches /\ Released(i, t)
  <2>1. PICK p \in Permits : i = <<"readahead", p>>
    BY <1>6 DEF Prefetches
  <2>2. /\ free' = free \cup {p} /\ UNCHANGED <<flight, get>>
        /\ Prefetching(p) /\ ~Prefetching(p)'
        /\ \A o \in Permits : o # p => (Prefetching(o)' <=> Prefetching(o))
    BY <1>t, <1>1, <1>2, <1>3, <1>6, <2>1, EmptyStates DEF Released, PermitOf, Ends, Prefetching
  <2>3. QED
    BY <2>2 DEF PermitInv, PermitHeld, PermitAlone
<1>7. ASSUME NEW f \in Flights, TakesOff(i, t, f) PROVE PermitInv'
  <2>1. /\ UNCHANGED free
        /\ \A e \in Flights : e # f => flight'[e].permit = flight[e].permit
        /\ flight'[f].permit = IF i \in Prefetches THEN i[2] ELSE None
    BY <1>7, <1>t DEF TakesOff, NoFlight
  <2>2. flight[f].permit = None
    BY <1>7 DEF TakesOff, LatchInv, Shape
  <2>3. CASE i \notin Prefetches
    <3>1. \A p \in Permits : Prefetching(p)' <=> Prefetching(p)
      BY <1>t, <1>3, <2>3
    <3>2. \A e \in Flights : flight'[e].permit = flight[e].permit
      BY <2>1, <2>2, <2>3
    <3>3. QED
      BY <1>2, <2>1, <3>1, <3>2, PermitKept
  <2>4. CASE i \in Prefetches
    <3>1. PICK p \in Permits : i = <<"readahead", p>> /\ p = i[2]
      BY <2>4 DEF Prefetches
    <3>2. /\ flight'[f].permit = p
          /\ Prefetching(p) /\ ~Prefetching(p)'
          /\ \A o \in Permits : o # p => (Prefetching(o)' <=> Prefetching(o))
      BY <1>t, <1>1, <1>2, <1>3, <1>7, <2>1, <2>4, <3>1, EmptyStates DEF TakesOff, Ends, Prefetching
    <3>3. PermitHeld'
      BY <1>2, <2>1, <2>2, <3>2, NoneAssumption DEF PermitInv, PermitHeld
    <3>4. PermitAlone'
      BY <1>2, <2>1, <2>2, <3>2, NoneAssumption DEF PermitInv, PermitAlone
    <3>5. QED
      BY <3>3, <3>4 DEF PermitInv
  <2>5. QED
    BY <2>3, <2>4
<1>8. QED
  BY <1>1, <1>4, <1>5, <1>6, <1>7

\* A flight moves its permit to its store read, or to the semaphore when it joins.
LEMMA PermitFlightStep ==
    ASSUME TypeInv, LatchInv, PermitInv, NEW f \in Flights, FlightStep(f) \/ Evict(f)
    PROVE  PermitInv'
<1>t. /\ flight \in [Flights -> FlightState] /\ get \in [Gets -> GetState]
      /\ GetOf(f) \in Gets
      /\ task \in [Tasks -> TaskState]
      /\ \A p \in Permits : <<"readahead", p>> \in Tasks
  BY FlightGroup DEF TypeInv, TypeOK, Tasks, Prefetches
<1>p. flight[f].permit \in Permits \cup {None}
  BY <1>t DEF FlightState
<1>1. CASE JoinGet(f)
  <2>1. /\ \A e \in Flights : e # f => flight'[e].permit = flight[e].permit
        /\ flight'[f].permit = None
        /\ UNCHANGED <<task, get>>
        /\ free' = free \cup ({flight[f].permit} \ {None})
    BY <1>1, <1>t DEF JoinGet, NoFlight, FlightPermit
  <2>2. \A p \in Permits : Prefetching(p)' <=> Prefetching(p)
    BY <2>1 DEF Prefetching
  <2>3. PermitHeld'
    BY <2>1, <2>2, NoneAssumption DEF PermitInv, PermitHeld
  <2>4. PermitAlone'
    BY <2>1, <2>2, NoneAssumption DEF PermitInv, PermitAlone
  <2>5. QED
    BY <2>3, <2>4 DEF PermitInv
<1>2. CASE OpenGet(f)
  <2> DEFINE g == GetOf(f)
  <2>1. /\ \A e \in Flights : e # f => flight'[e].permit = flight[e].permit
        /\ flight'[f].permit = None
        /\ \A h \in Gets : h # g => get'[h].permit = get[h].permit
        /\ get'[g].permit = flight[f].permit
        /\ UNCHANGED <<task, free>>
    BY <1>2, <1>t DEF OpenGet, NoFlight, NoGet
  <2>2. get[g].permit = None
    <3>1. get[g].pc = "none"
      <4>1. CASE Coalesced
        BY <1>2, <4>1 DEF OpenGet
      <4>2. CASE ~Coalesced
        BY <1>2, <1>t, <4>2 DEF OpenGet, GetOf, LatchInv, LatchConsistent, Owns
      <4>3. QED
        BY <4>1, <4>2
    <3>2. QED
      BY <1>t, <3>1 DEF LatchInv, Shape
  <2>3. \A p \in Permits : Prefetching(p)' <=> Prefetching(p)
    BY <2>1 DEF Prefetching
  <2>4. g \in Gets
    BY <1>t
  <2> HIDE DEF g
  <2>5. PermitHeld'
    BY <2>1, <2>2, <2>3, <2>4, NoneAssumption DEF PermitInv, PermitHeld
  <2>6. PermitAlone'
    BY <2>1, <2>2, <2>3, <2>4, NoneAssumption DEF PermitInv, PermitAlone
  <2>7. QED
    BY <2>5, <2>6 DEF PermitInv
<1>3. CASE FillSiblings(f)
  <2>1. \A e \in Flights : flight'[e].permit = flight[e].permit
    BY <1>3, <1>t DEF FillSiblings, FlightState
  <2>2. QED
    BY <1>3, <2>1, PermitKept DEF FillSiblings, Prefetching
<1>4. CASE Finish(f)
  <2>1. \A e \in Flights : flight'[e].permit = flight[e].permit
    BY <1>4, <1>t, EmptyStates DEF Finish, LatchInv, Shape
  <2>2. \A p \in Permits : task'[<<"readahead", p>>] = task[<<"readahead", p>>]
    BY <1>4, <1>t DEF Finish, LatchInv, Shape
  <2>3. QED
    BY <1>4, <2>1, <2>2, PermitKept DEF Finish, Prefetching
<1>5. CASE Evict(f)
  BY <1>5, PermitKept DEF Evict, Prefetching
<1>6. QED
  BY <1>1, <1>2, <1>3, <1>4, <1>5 DEF FlightStep

\* A store read takes a permit from the semaphore and gives it back when it ends.
LEMMA PermitGetStep ==
    ASSUME TypeInv, LatchInv, PermitInv, NEW g \in Gets, GetStep(g)
    PROVE  PermitInv'
<1>t. flight \in [Flights -> FlightState] /\ get \in [Gets -> GetState] /\ waiting \in Seq(Gets)
  BY DEF TypeInv, TypeOK
<1>1. CASE AcquirePermit(g)
  <2>1. PICK p \in free : /\ free' = free \ {p}
                          /\ get' = [get EXCEPT ![g] = [@ EXCEPT !.pc = "reading", !.permit = p]]
    BY <1>1 DEF AcquirePermit
  <2>2. /\ \A h \in Gets : h # g => get'[h].permit = get[h].permit
        /\ get'[g].permit = p /\ p \in Permits
        /\ UNCHANGED <<task, flight>>
    BY <1>1, <1>t, <2>1 DEF AcquirePermit, GetState, TypeInv, TypeOK
  <2>3. get[g].permit = None
    <3>1. Len(waiting) \in Nat /\ Len(waiting) > 0 /\ waiting[1] = g
      BY <1>1, <1>t DEF AcquirePermit
    <3>2. get[g].pc = "queued"
      BY <3>1 DEF LatchInv, QueueMatchesReads
    <3>3. QED
      BY <3>2 DEF LatchInv, Shape
  <2>4. \A o \in Permits : Prefetching(o)' <=> Prefetching(o)
    BY <2>2 DEF Prefetching
  <2>5. PermitHeld'
    BY <2>1, <2>2, <2>3, <2>4, NoneAssumption DEF PermitInv, PermitHeld
  <2>6. PermitAlone'
    BY <2>1, <2>2, <2>3, <2>4, NoneAssumption DEF PermitInv, PermitAlone
  <2>7. QED
    BY <2>5, <2>6 DEF PermitInv
<1>2. CASE SourceRead(g)
  <2>1. /\ \A h \in Gets : h # g => get'[h].permit = get[h].permit
        /\ get'[g].permit = None
        /\ free' = free \cup {get[g].permit} /\ get[g].permit \in Permits
        /\ UNCHANGED <<task, flight>>
    BY <1>2, <1>t DEF SourceRead, TypeInv, ReadsPermitted
  <2>2. \A o \in Permits : Prefetching(o)' <=> Prefetching(o)
    BY <2>1 DEF Prefetching
  <2>3. PermitHeld'
    BY <2>1, <2>2, NoneAssumption DEF PermitInv, PermitHeld
  <2>4. PermitAlone'
    BY <2>1, <2>2, NoneAssumption DEF PermitInv, PermitAlone
  <2>5. QED
    BY <2>3, <2>4 DEF PermitInv
<1>3. CASE Retire(g)
  <2>1. \A f \in Flights : flight'[f].permit = flight[f].permit
    BY <1>3, <1>t DEF Retire, FlightState
  <2>2. \A h \in Gets : get'[h].permit = get[h].permit
    BY <1>3, <1>t, EmptyStates DEF Retire, LatchInv, Shape
  <2>3. QED
    BY <1>3, <2>1, <2>2, PermitKept DEF Retire, Prefetching
<1>4. QED
  BY <1>1, <1>2, <1>3 DEF GetStep

\* Readahead moves a free permit to the prefetch task it spawns.
LEMMA PermitReaderStep ==
    ASSUME TypeInv, PermitInv, NEW r \in Readers,
           ReaderStep(r) \/ \E q \in Requests[r] : StartRead(r, q)
    PROVE  PermitInv'
<1>1. UNCHANGED <<flight, get>>
  BY ReaderShape
<1>2. CASE /\ UNCHANGED free
           /\ \A p \in Permits : task'[<<"readahead", p>>] = task[<<"readahead", p>>]
  BY <1>1, <1>2, PermitKept DEF Prefetching
<1>3. ASSUME NEW p \in Permits, p \in free, free' = free \ {p},
             task'[<<"readahead", p>>].pc \in {"phase", "content"},
             \A o \in Permits : o # p => task'[<<"readahead", o>>] = task[<<"readahead", o>>]
      PROVE  PermitInv'
  <2>1. Prefetching(p)' /\ \A o \in Permits : o # p => (Prefetching(o)' <=> Prefetching(o))
    BY <1>3 DEF Prefetching
  <2>2. QED
    BY <1>1, <1>3, <2>1 DEF PermitInv, PermitHeld, PermitAlone
<1>4. QED
  BY <1>2, <1>3, ReaderShape

\* PermitInv is inductive, given the types and the latch.
LEMMA PermitStep == TypeInv /\ LatchInv /\ PermitInv /\ [Next]_vars => PermitInv'
<1> SUFFICES ASSUME TypeInv, LatchInv, PermitInv, [Next]_vars PROVE PermitInv'
  OBVIOUS
<1>1. CASE FlipPhase
  BY <1>1, PermitKept DEF FlipPhase, Prefetching
<1>2. CASE UNCHANGED vars
  BY <1>2, PermitKept DEF vars, Prefetching
<1>3. QED
  BY <1>1, <1>2, PermitReaderStep, PermitRouteStep, PermitFlightStep, PermitGetStep DEF Next

\* The permit predicates say that a permit has exactly one holder.
LEMMA OneHolder == PermitInv => PermitsConserved
<1> SUFFICES ASSUME PermitInv, NEW p \in Permits
             PROVE  \E h \in Holders(p) : Holders(p) = {h}
  BY DEF PermitsConserved
<1> DEFINE FS == {e \in Flights : flight[e].permit = p}
           GS == {e \in Gets : get[e].permit = p}
<1>h. Holders(p) = (IF p \in free THEN {<<"semaphore", p>>} ELSE {})
                   \cup (IF Prefetching(p) THEN {<<"task", p>>} ELSE {})
                   \cup {<<"flight", f>> : f \in FS}
                   \cup {<<"get", g>> : g \in GS}
  BY DEF Holders, Prefetching
<1>1. CASE p \in free
  <2>1. FS = {} /\ GS = {} /\ ~Prefetching(p)
    BY <1>1 DEF PermitInv, PermitAlone
  <2>2. Holders(p) = {<<"semaphore", p>>}
    BY <1>1, <1>h, <2>1
  <2>3. QED
    BY <2>2
<1>2. CASE Prefetching(p)
  <2>1. FS = {} /\ GS = {} /\ p \notin free
    BY <1>2 DEF PermitInv, PermitAlone
  <2>2. Holders(p) = {<<"task", p>>}
    BY <1>2, <1>h, <2>1
  <2>3. QED
    BY <2>2
<1>3. ASSUME NEW f \in Flights, flight[f].permit = p
      PROVE  \E h \in Holders(p) : Holders(p) = {h}
  <2>1. FS = {f} /\ GS = {} /\ p \notin free /\ ~Prefetching(p)
    BY <1>3 DEF PermitInv, PermitAlone
  <2>2. Holders(p) = {<<"flight", f>>}
    BY <1>h, <2>1
  <2>3. QED
    BY <2>2
<1>4. ASSUME NEW g \in Gets, get[g].permit = p
      PROVE  \E h \in Holders(p) : Holders(p) = {h}
  <2>1. FS = {} /\ GS = {g} /\ p \notin free /\ ~Prefetching(p)
    BY <1>4 DEF PermitInv, PermitAlone
  <2>2. Holders(p) = {<<"get", g>>}
    BY <1>h, <2>1
  <2>3. QED
    BY <2>2
<1>5. QED
  BY <1>1, <1>2, <1>3, <1>4 DEF PermitInv, PermitHeld

\* The three layers hold together.
THEOREM PermitInvariance == Spec => [](TypeInv /\ LatchInv /\ PermitInv)
<1>1. Init => TypeInv /\ LatchInv /\ PermitInv
  BY TypeInit, LatchInit, PermitInit
<1>2. (TypeInv /\ LatchInv /\ PermitInv) /\ [Next]_vars => (TypeInv /\ LatchInv /\ PermitInv)'
  BY TypeStep, LatchStep, PermitStep
<1>3. QED
  BY <1>1, <1>2, PTL DEF Spec

\* GroupLatch::fetch: a latch entry and the flights parked on it come and go
\* together, for every geometry and every interleaving.
THEOREM LatchIsConsistent == Spec => []LatchConsistent
<1>1. TypeInv /\ LatchInv /\ PermitInv => LatchConsistent
  BY DEF LatchInv
<1>2. QED
  BY <1>1, PermitInvariance, PTL

\* FetchLimiter: the queue of the semaphore is exactly the reads that wait for a permit,
\* each queued once.
THEOREM QueueIsExact == Spec => []QueueMatchesReads
<1>1. TypeInv /\ LatchInv /\ PermitInv => QueueMatchesReads
  BY DEF LatchInv
<1>2. QED
  BY <1>1, PermitInvariance, PTL

\* FetchLimiter: no permit is ever lost or used twice.
THEOREM PermitsAreConserved == Spec => []PermitsConserved
<1>1. TypeInv /\ LatchInv /\ PermitInv => PermitsConserved
  BY OneHolder
<1>2. QED
  BY <1>1, PermitInvariance, PTL

\* FetchLimiter bounds the store reads in flight: each holds a permit of its own.
THEOREM StoreReadsAreBounded == Spec => []StoreReadsBounded
<1>1. TypeInv /\ LatchInv /\ PermitInv => StoreReadsBounded
  <2> SUFFICES ASSUME TypeInv, PermitInv PROVE StoreReadsBounded
    OBVIOUS
  <2> DEFINE S == {g \in Gets : get[g].pc = "reading"}
             M == [g \in S |-> get[g].permit]
  <2>1. \A g \in S : get[g].permit \in Permits
    BY DEF TypeInv, ReadsPermitted
  <2>2. \A g, h \in S : get[g].permit = get[h].permit => g = h
    BY <2>1 DEF PermitInv, PermitAlone
  <2>3. M \in Injection(S, Permits)
    BY <2>1, <2>2 DEF Injection, IsInjective
  <2>4. Cardinality(S) <= Cardinality(Permits)
    BY <2>3, PermitsAssumption, FS_Injection
  <2>5. QED
    BY <2>4 DEF StoreReadsBounded
<1>2. QED
  BY <1>1, PermitInvariance, PTL

-----------------------------------------------------------------------------
(* Layer 3: where the bytes come from.                                     *)

\* Bytes in a get or a flight start at the group they were read for.
BytesOfGroup ==
    /\ \A g \in Gets : get[g].bytes # None =>
        get[g].bytes.src = GroupRange(g).src /\ get[g].bytes.beg = GroupRange(g).beg
    /\ \A f \in Flights : flight[f].bytes # None =>
        flight[f].bytes.src = f[2][1] /\ flight[f].bytes.beg = GroupBeg(f)

\* A task that is done has the whole block of its key.
TasksAreWhole ==
    \A i \in Tasks : task[i].pc = "done" =>
        task[i].data = WholeBlock(task[i].key[1], task[i].key[2], Chlen, End)

DataInv == BytesOfGroup /\ EntriesAreWhole /\ TasksAreWhole

\* The flights of one get want the range it reads.
LEMMA SameGroup ==
    ASSUME NEW f \in Flights
    PROVE  GroupRange(GetOf(f)).src = f[2][1] /\ GroupRange(GetOf(f)).beg = GroupBeg(f)
<1>1. GetOf(f) \in Gets
  BY FlightGroup
<1>2. PICK e \in Flights : /\ GetOf(e) = GetOf(f)
                           /\ GroupRange(GetOf(f)).src = e[2][1]
                           /\ GroupRange(GetOf(f)).beg = GroupBeg(e)
  BY <1>1, GetGroup
<1>3. e[2][1] = f[2][1] /\ GroupBeg(e) = GroupBeg(f)
  BY <1>2 DEF GetOf, GroupBeg
<1>4. QED
  BY <1>2, <1>3

\* A block of the group that starts inside the group ends inside it.
LEMMA BlockInGroup ==
    ASSUME NEW gb \in Nat, NEW o \in StepBy(gb, GroupEnd(gb, Group, End), Chlen)
    PROVE  o \in Nat /\ gb <= o /\ o < End /\ o + Chlen <= gb + Group
<1> USE GeometryAssumption
<1>1. PICK m \in Nat \ {0} : Group = m * Chlen
  BY GroupFacts
<1>2. GroupEnd(gb, Group, End) \in Nat
  BY GroupFacts DEF GroupEnd, Lesser
<1>3. GroupEnd(gb, Group, End) <= End /\ GroupEnd(gb, Group, End) <= gb + Group
  BY GroupFacts DEF GroupEnd, Lesser
<1>4. o \in Nat /\ gb <= o /\ o < GroupEnd(gb, Group, End)
  BY <1>2 DEF StepBy
<1>5. PICK n \in Nat : o = gb + n * Chlen
  BY <1>2 DEF StepBy
<1>6. n * Chlen < m * Chlen
  <2>1. n * Chlen \in Int /\ m * Chlen \in Int
    BY SMT
  <2>2. QED
    BY <1>1, <1>3, <1>4, <1>5, <2>1, <1>2
<1>7. n + 1 <= m
  <2>1. ASSUME m <= n PROVE m * Chlen <= n * Chlen
    BY <2>1, SMT
  <2>2. QED
    BY <1>6, <2>1, SMT
<1>8. (n + 1) * Chlen <= m * Chlen /\ n * Chlen + Chlen = (n + 1) * Chlen
  BY <1>7, SMT
<1>9. n * Chlen \in Nat /\ m * Chlen \in Nat
  BY SMT
<1>10. QED
  BY <1>1, <1>2, <1>3, <1>4, <1>5, <1>8, <1>9

\* What make_fetch cuts out of a group read is the whole block.
LEMMA CutIsWhole ==
    ASSUME TypeInv, DataInv, NEW f \in Flights, flight[f].bytes # None, NEW o \in Cut(f)
    PROVE  CutOut(f, o) = WholeBlock(f[2][1], o, Chlen, End)
<1> DEFINE b == flight[f].bytes
           gb == GroupBeg(f)
           ge == GroupEnd(GroupBeg(f), Group, End)
<1>1. b.src = f[2][1] /\ b.beg = gb
  BY DEF DataInv, BytesOfGroup
<1>2. b.len \in Nat
  BY DEF TypeInv, TypeOK, FlightState, Data
<1>3. gb \in Nat /\ ge \in Nat /\ ge = Lesser(gb + Group, End)
  BY FlightGroup DEF GroupEnd
<1>4. o \in StepBy(gb, ge, Chlen) /\ Lesser(o + Chlen, ge) - gb <= b.len
  BY DEF Cut, CutOffs
<1>5. o \in Nat /\ gb <= o /\ o < End /\ o + Chlen <= gb + Group
  BY <1>3, <1>4, BlockInGroup
<1>6. Lesser(o + Chlen, ge) = Lesser(o + Chlen, End)
  BY <1>3, <1>5, GeometryAssumption, GroupFacts DEF Lesser
<1>7. Lesser(Lesser(o + Chlen, ge), gb + b.len) = Lesser(o + Chlen, End)
  BY <1>2, <1>3, <1>4, <1>5, <1>6, GeometryAssumption DEF Lesser
<1>8. gb + (o - gb) = o
  BY <1>3, <1>5
<1>9. QED
  BY <1>1, <1>7, <1>8 DEF CutOut, CutBlock, WholeBlock

\* Nothing is cached at first.
LEMMA DataInit == Init => DataInv
BY EmptyStates DEF Init, DataInv, BytesOfGroup, EntriesAreWhole, TasksAreWhole, NoTask, NoGet, NoFlight

\* A task that settles with the whole block of its key is whole.
LEMMA SettleWhole ==
    ASSUME TypeInv, DataInv, NEW i \in Tasks, task[i].pc # "none", NEW d \in Data \cup {None},
           d # None => d = WholeBlock(task[i].key[1], task[i].key[2], Chlen, End),
           Settle(i, d)
    PROVE  TasksAreWhole'
<1>1. task' = [task EXCEPT ![i] = Settled(i, d)] /\ task \in [Tasks -> TaskState]
  BY DEF Settle, TypeInv, TypeOK
<1>2. Settled(i, d).pc = "done" =>
        Settled(i, d).data = WholeBlock(Settled(i, d).key[1], Settled(i, d).key[2], Chlen, End)
  BY SettledFacts
<1>3. QED
  BY <1>1, <1>2 DEF DataInv, TasksAreWhole

\* route_block hands out and promotes whole blocks only.
LEMMA DataRouteStep ==
    ASSUME TypeInv, DataInv, NEW i \in Tasks, RouteStep(i)
    PROVE  DataInv'
<1>t. /\ task \in [Tasks -> TaskState] /\ task[i] \in TaskState
      /\ cache \in [Flights -> Data \cup {None}]
      /\ flight \in [Flights -> FlightState]
  BY DEF TypeInv, TypeOK
<1>k. ASSUME task[i].pc # "none", NEW t \in Tiers
      PROVE  /\ <<t, task[i].key>> \in Flights
             /\ cache[<<t, task[i].key>>] \in Data \cup {None}
             /\ cache[<<t, task[i].key>>] # None =>
                  cache[<<t, task[i].key>>] = WholeBlock(task[i].key[1], task[i].key[2], Chlen, End)
  <2>1. task[i].key \in Keys
    BY <1>k DEF TypeInv, TaskKeys
  <2>2. <<t, task[i].key>> \in Flights
    BY <2>1 DEF Flights
  <2>3. QED
    BY <1>t, <2>2 DEF DataInv, EntriesAreWhole
<1>g. ASSUME NEW x \in {"metadata", "content", "fetch", "wait"},
             task' = [task EXCEPT ![i].pc = x]
      PROVE  TasksAreWhole'
  BY <1>t, <1>g DEF DataInv, TasksAreWhole
<1>m. "metadata" \in Tiers /\ "content" \in Tiers
  BY DEF Tiers
<1>1. CASE LoadPhase(i)
  <2>1. task'[i].pc = "metadata" /\ \A j \in Tasks : j # i => task'[j] = task[j]
    BY <1>1, <1>t DEF LoadPhase, TaskState
  <2>2. TasksAreWhole'
    BY <2>1 DEF DataInv, TasksAreWhole
  <2>3. QED
    BY <1>1, <2>2 DEF LoadPhase, DataInv, BytesOfGroup, EntriesAreWhole
<1>2. CASE GetMetadata(i)
  <2>1. TasksAreWhole'
    BY <1>2, <1>k, <1>m, <1>g, SettleWhole DEF GetMetadata
  <2>2. QED
    BY <1>2, <2>1 DEF GetMetadata, DataInv, BytesOfGroup, EntriesAreWhole
<1>3. CASE GetContent(i)
  <2>1. TasksAreWhole'
    BY <1>3, <1>k, <1>m, <1>g, SettleWhole DEF GetContent
  <2>2. EntriesAreWhole'
    <3> DEFINE d == cache[<<"content", task[i].key>>]
               e == <<"metadata", task[i].key>>
    <3>1. /\ e \in Flights /\ e[2] = task[i].key
          /\ d # None => d = WholeBlock(task[i].key[1], task[i].key[2], Chlen, End)
      BY <1>3, <1>k, <1>m DEF GetContent
    <3>2. cache' = cache \/ (d # None /\ cache' = [cache EXCEPT ![e] = d])
      BY <1>3 DEF GetContent
    <3> HIDE DEF d, e
    <3>3. QED
      BY <1>t, <3>1, <3>2 DEF DataInv, EntriesAreWhole
  <2>3. QED
    BY <1>3, <2>1, <2>2 DEF GetContent, DataInv, BytesOfGroup
<1>4. CASE LookupFails(i)
  <2>1. TasksAreWhole'
    BY <1>4, SettleWhole DEF LookupFails
  <2>2. QED
    BY <1>4, <2>1 DEF LookupFails, DataInv, BytesOfGroup, EntriesAreWhole
<1>5. CASE GetOrFetch(i)
  <2> DEFINE f == FlightOf(task[i])
  <2>1. task[i].pc # "none" /\ f = <<TierOf(task[i]), task[i].key>> /\ TierOf(task[i]) \in Tiers
    BY <1>5 DEF GetOrFetch, FlightOf, TierOf, Tiers
  <2>2. f \in Flights
    BY <1>k, <2>1
  <2>3. TasksAreWhole'
    <3>1. CASE Settle(i, cache[f])
      BY <1>k, <2>1, <3>1, SettleWhole
    <3>2. CASE task' = [task EXCEPT ![i] = Parked(i)]
      <4>1. Parked(i).pc # "done"
        BY <2>1, ParkedFacts
      <4>2. QED
        BY <1>t, <3>2, <4>1 DEF DataInv, TasksAreWhole
    <3>3. QED
      BY <1>5, <3>1, <3>2 DEF GetOrFetch
  <2>4. \A e \in Flights : flight'[e].bytes = flight[e].bytes \/ flight'[e].bytes = None
    BY <1>5, <1>t, <2>2 DEF GetOrFetch, NoFlight
  <2>5. BytesOfGroup'
    BY <1>5, <2>4 DEF GetOrFetch, DataInv, BytesOfGroup
  <2>6. QED
    BY <1>5, <2>3, <2>5 DEF GetOrFetch, DataInv, EntriesAreWhole
<1>6. QED
  BY <1>1, <1>2, <1>3, <1>4, <1>5 DEF RouteStep

\* make_fetch inserts and hands out whole blocks only.
LEMMA DataFlightStep ==
    ASSUME TypeInv, DataInv, NEW f \in Flights, FlightStep(f) \/ Evict(f)
    PROVE  DataInv'
<1>t. /\ flight \in [Flights -> FlightState] /\ get \in [Gets -> GetState]
      /\ cache \in [Flights -> Data \cup {None}] /\ task \in [Tasks -> TaskState]
      /\ GetOf(f) \in Gets
  BY FlightGroup DEF TypeInv, TypeOK
<1>1. CASE JoinGet(f)
  <2>1. \A e \in Flights : flight'[e].bytes = flight[e].bytes \/ flight'[e].bytes = None
    BY <1>1, <1>t DEF JoinGet, NoFlight
  <2>2. QED
    BY <1>1, <2>1 DEF JoinGet, DataInv, BytesOfGroup, EntriesAreWhole, TasksAreWhole
<1>2. CASE OpenGet(f)
  <2>1. \A e \in Flights : flight'[e].bytes = flight[e].bytes \/ flight'[e].bytes = None
    BY <1>2, <1>t DEF OpenGet, NoFlight
  <2>2. \A g \in Gets : get'[g].bytes = get[g].bytes \/ get'[g].bytes = None
    BY <1>2, <1>t DEF OpenGet, NoGet
  <2>3. BytesOfGroup'
    BY <2>1, <2>2 DEF DataInv, BytesOfGroup
  <2>4. QED
    BY <1>2, <2>3 DEF OpenGet, DataInv, EntriesAreWhole, TasksAreWhole
<1>3. CASE FillSiblings(f)
  <2>1. flight[f].bytes # None
    BY <1>3 DEF FillSiblings, FillsSiblings
  <2>2. \A o \in Cut(f) : CutOut(f, o) = WholeBlock(f[2][1], o, Chlen, End)
    BY <2>1, CutIsWhole
  <2>3. ASSUME NEW e \in Flights
        PROVE  \/ cache'[e] = cache[e]
               \/ /\ e[2][1] = f[2][1] /\ e[2][2] \in Cut(f)
                  /\ cache'[e] = CutOut(f, e[2][2])
    BY <1>3, <1>t DEF FillSiblings
  <2>4. EntriesAreWhole'
    BY <2>2, <2>3 DEF DataInv, EntriesAreWhole
  <2>5. \A e \in Flights : flight'[e].bytes = flight[e].bytes
    BY <1>3, <1>t DEF FillSiblings, FlightState
  <2>6. QED
    BY <1>3, <2>4, <2>5 DEF FillSiblings, DataInv, BytesOfGroup, TasksAreWhole
<1>4. CASE Finish(f)
  <2> DEFINE d == Demanded(f)
  <2>1. d # None => d = WholeBlock(f[2][1], f[2][2], Chlen, End)
    BY CutIsWhole DEF Demanded
  <2>2. d \in Data \cup {None}
    BY DemandedType
  <2>3. /\ cache' = IF d # None THEN [cache EXCEPT ![f] = d] ELSE cache
        /\ task' = [i \in Tasks |->
                    IF task[i].pc = "wait" /\ FlightOf(task[i]) = f
                    THEN Settled(i, d)
                    ELSE task[i]]
    BY <1>4 DEF Finish
  <2>4. \A e \in Flights : flight'[e].bytes = flight[e].bytes \/ flight'[e].bytes = None
    BY <1>4, <1>t DEF Finish, NoFlight
  <2> HIDE DEF d
  <2>5. EntriesAreWhole'
    BY <1>t, <2>1, <2>3 DEF DataInv, EntriesAreWhole
  <2>6. TasksAreWhole'
    <3> SUFFICES ASSUME NEW i \in Tasks, task'[i].pc = "done"
                 PROVE  task'[i].data = WholeBlock(task'[i].key[1], task'[i].key[2], Chlen, End)
      BY DEF TasksAreWhole
    <3>1. CASE task[i].pc = "wait" /\ FlightOf(task[i]) = f
      <4>1. task'[i] = Settled(i, d) /\ task[i].pc # "none" /\ task[i].key = f[2]
        BY <2>3, <3>1 DEF FlightOf
      <4>2. QED
        BY <2>1, <2>2, <4>1, SettledFacts
    <3>2. CASE ~(task[i].pc = "wait" /\ FlightOf(task[i]) = f)
      BY <2>3, <3>2 DEF DataInv, TasksAreWhole
    <3>3. QED
      BY <3>1, <3>2
  <2>7. QED
    BY <1>4, <2>4, <2>5, <2>6 DEF Finish, DataInv, BytesOfGroup
<1>5. CASE Evict(f)
  BY <1>5, <1>t DEF Evict, DataInv, BytesOfGroup, EntriesAreWhole, TasksAreWhole
<1>6. QED
  BY <1>1, <1>2, <1>3, <1>4, <1>5 DEF FlightStep

\* A store read hands its flights bytes that start where their group does.
LEMMA DataGetStep ==
    ASSUME TypeInv, DataInv, NEW g \in Gets, GetStep(g)
    PROVE  DataInv'
<1>t. flight \in [Flights -> FlightState] /\ get \in [Gets -> GetState]
  BY DEF TypeInv, TypeOK
<1>1. CASE AcquirePermit(g)
  <2>1. \A h \in Gets : get'[h].bytes = get[h].bytes
    BY <1>1, <1>t DEF AcquirePermit, GetState
  <2>2. QED
    BY <1>1, <2>1 DEF AcquirePermit, DataInv, BytesOfGroup, EntriesAreWhole, TasksAreWhole
<1>2. CASE SourceRead(g)
  <2>1. PICK b \in Outcomes(g) :
            get' = [get EXCEPT ![g] = [pc |-> "done", permit |-> None, bytes |-> b]]
    BY <1>2 DEF SourceRead
  <2>2. get'[g].bytes = b /\ \A h \in Gets : h # g => get'[h] = get[h]
    BY <1>t, <2>1
  <2>3. b # None => b.src = GroupRange(g).src /\ b.beg = GroupRange(g).beg
    BY OutcomeTypes
  <2>4. BytesOfGroup'
    BY <1>2, <2>2, <2>3 DEF SourceRead, DataInv, BytesOfGroup
  <2>5. QED
    BY <1>2, <2>4 DEF SourceRead, DataInv, EntriesAreWhole, TasksAreWhole
<1>3. CASE Retire(g)
  <2>1. \A h \in Gets : get'[h].bytes = get[h].bytes \/ get'[h].bytes = None
    BY <1>3, <1>t DEF Retire, NoGet
  <2>2. \A f \in Flights : flight'[f].bytes # None =>
            flight'[f].bytes.src = f[2][1] /\ flight'[f].bytes.beg = GroupBeg(f)
    <3> SUFFICES ASSUME NEW f \in Flights, flight'[f].bytes # None
                 PROVE  flight'[f].bytes.src = f[2][1] /\ flight'[f].bytes.beg = GroupBeg(f)
      OBVIOUS
    <3>1. CASE flight[f].pc = "joined" /\ GetOf(f) = g
      <4>1. flight'[f].bytes = get[g].bytes
        BY <1>3, <1>t, <3>1 DEF Retire, FlightState
      <4>2. QED
        BY <3>1, <4>1, SameGroup DEF DataInv, BytesOfGroup
    <3>2. CASE ~(flight[f].pc = "joined" /\ GetOf(f) = g)
      <4>1. flight'[f] = flight[f]
        BY <1>3, <3>2 DEF Retire
      <4>2. QED
        BY <4>1 DEF DataInv, BytesOfGroup
    <3>3. QED
      BY <3>1, <3>2
  <2>3. BytesOfGroup'
    BY <2>1, <2>2 DEF DataInv, BytesOfGroup
  <2>4. QED
    BY <1>3, <2>3 DEF Retire, DataInv, EntriesAreWhole, TasksAreWhole
<1>4. QED
  BY <1>1, <1>2, <1>3 DEF GetStep

\* Cache::read inserts nothing.
LEMMA DataReaderStep ==
    ASSUME TypeInv, DataInv, NEW r \in Readers,
           ReaderStep(r) \/ \E q \in Requests[r] : StartRead(r, q)
    PROVE  DataInv'
<1>t. task \in [Tasks -> TaskState]
  BY DEF TypeInv, TypeOK
<1>q. read[r].pc # "idle" => read[r].req \in Requests[r]
  BY DEF TypeInv, ReadRequests
<1>1. ASSUME NEW q \in Requests[r], NEW S, Spawn(r, q, S) PROVE TasksAreWhole'
  <2> SUFFICES ASSUME NEW i \in Tasks, task'[i].pc = "done"
               PROVE  task'[i] = task[i]
    BY DEF DataInv, TasksAreWhole
  <2>1. \/ task'[i] = task[i]
        \/ task'[i] = NoTask
        \/ \E k \in Keys : task'[i] = NewTask(k)
    BY <1>1, SpawnFacts
  <2>2. QED
    BY <2>1, NewTaskFacts, EmptyStates
<1>2. UNCHANGED <<flight, get>>
  BY ReaderShape
<1>3. UNCHANGED cache
  BY DEF StartRead, ReaderStep, RouteAll, ReadFails, CopyBlocks, ReadaheadSkip,
         ReadaheadSpawn, ReadReturns
<1>4. TasksAreWhole'
  <2>1. CASE \E q \in Requests[r] : StartRead(r, q)
    BY <1>1, <2>1 DEF StartRead
  <2>2. CASE RouteAll(r)
    BY <1>1, <1>q, <2>2 DEF RouteAll
  <2>3. CASE ReadFails(r)
    BY <1>1, <1>q, <2>3 DEF ReadFails
  <2>4. CASE CopyBlocks(r)
    BY <1>1, <1>q, <2>4 DEF CopyBlocks
  <2>5. CASE ReadaheadSkip(r) \/ ReadReturns(r)
    BY <2>5 DEF ReadaheadSkip, ReadReturns, DataInv, TasksAreWhole
  <2>6. ASSUME NEW p \in Permits, ReadaheadSpawn(r, p) PROVE TasksAreWhole'
    <3>1. NewTask(ReadaheadKey(r)).pc # "done"
      BY DEF NewTask, NoTask
    <3>2. task' = [task EXCEPT ![<<"readahead", p>>] = NewTask(ReadaheadKey(r))]
      BY <2>6 DEF ReadaheadSpawn
    <3>3. QED
      BY <1>t, <3>1, <3>2 DEF DataInv, TasksAreWhole
  <2>7. QED
    BY <2>1, <2>2, <2>3, <2>4, <2>5, <2>6 DEF ReaderStep
<1>5. QED
  BY <1>2, <1>3, <1>4 DEF DataInv, BytesOfGroup, EntriesAreWhole

\* DataInv is inductive, given the types.
LEMMA DataStep == TypeInv /\ DataInv /\ [Next]_vars => DataInv'
<1> SUFFICES ASSUME TypeInv, DataInv, [Next]_vars PROVE DataInv'
  OBVIOUS
<1>1. CASE FlipPhase
  BY <1>1 DEF FlipPhase, DataInv, BytesOfGroup, EntriesAreWhole, TasksAreWhole
<1>2. CASE UNCHANGED vars
  BY <1>2 DEF vars, DataInv, BytesOfGroup, EntriesAreWhole, TasksAreWhole
<1>3. QED
  BY <1>1, <1>2, DataReaderStep, DataRouteStep, DataFlightStep, DataGetStep DEF Next

\* make_fetch: whatever the block size, the fetch size and the answers of the store,
\* a cache entry is the whole block of its key and nothing else.
THEOREM EntriesStayWhole == Spec => []EntriesAreWhole
<1>1. Init => TypeInv /\ DataInv
  BY TypeInit, DataInit
<1>2. (TypeInv /\ DataInv) /\ [Next]_vars => (TypeInv /\ DataInv)'
  BY TypeStep, DataStep
<1>3. TypeInv /\ DataInv => EntriesAreWhole
  BY DEF DataInv
<1>4. QED
  BY <1>1, <1>2, <1>3, PTL DEF Spec

-----------------------------------------------------------------------------
(* Layer 4: what the caller sees.                                          *)

\* The blocks of a request are blocks of the source.
LEMMA ReqOffsFacts ==
    ASSUME NEW r \in Readers, NEW q \in Requests[r]
    PROVE  /\ q.off \in Nat /\ q.len \in Nat /\ q.off + q.len <= End
           /\ AlignDown(q.off, Chlen) \in Nat /\ AlignDown(q.off, Chlen) <= q.off
           /\ \A o \in ReqOffs(q) : /\ o \in Offs /\ o \in Nat /\ o < q.off + q.len
                                    /\ AlignDown(q.off, Chlen) <= o
<1> USE GeometryAssumption
<1>1. q.off \in Nat /\ q.len \in Nat /\ q.off + q.len <= End
  BY RequestAssumption
<1>2. PICK a \in Nat : AlignDown(q.off, Chlen) = a * Chlen
  BY <1>1, AlignDownFacts
<1>3. AlignDown(q.off, Chlen) \in Nat /\ AlignDown(q.off, Chlen) <= q.off
  BY <1>1, AlignDownFacts
<1>4. ASSUME NEW o \in ReqOffs(q)
      PROVE  /\ o \in Offs /\ o \in Nat /\ o < q.off + q.len /\ AlignDown(q.off, Chlen) <= o
  <2>1. /\ o \in Nat /\ o < q.off + q.len /\ AlignDown(q.off, Chlen) <= o
        /\ \E n \in Nat : o = AlignDown(q.off, Chlen) + n * Chlen
    <3>1. q.off + q.len \in Nat /\ o \in StepBy(AlignDown(q.off, Chlen), q.off + q.len, Chlen)
      BY <1>1 DEF ReqOffs, DemandOffs
    <3> DEFINE c == AlignDown(q.off, Chlen)
               d == q.off + q.len
    <3>2. c \in Nat /\ d \in Nat /\ o \in StepBy(c, d, Chlen)
      BY <1>3, <3>1
    <3> HIDE DEF c, d
    <3>s. Chlen \in Nat \ {0}
      OBVIOUS
    <3>3. o \in Nat /\ c <= o /\ o < d /\ \E n \in Nat : o = c + n * Chlen
      BY ONLY <3>2, <3>s, StepByMember, Zenon
    <3>4. QED
      BY <3>3 DEF c, d
  <2>2. PICK n \in Nat : o = a * Chlen + n * Chlen
    BY <1>2, <2>1
  <2>3. a * Chlen + n * Chlen = (a + n) * Chlen /\ a + n \in Nat
    BY SMT
  <2>4. o \in Offs
    BY <1>1, <2>1, <2>2, <2>3, OffsFacts
  <2>5. QED
    BY <2>1, <2>4
<1>5. QED
  BY <1>1, <1>3, <1>4

\* A byte of the request lies in a block of the request, and so does every byte
\* position between the start of the request and that block.
LEMMA BlockOfByte ==
    ASSUME NEW r \in Readers, NEW q \in Requests[r],
           NEW pos \in Nat, q.off <= pos, pos < q.off + q.len
    PROVE  LET o == AlignDown(pos, Chlen)
           IN  /\ o \in ReqOffs(q) /\ o <= pos /\ pos < o + Chlen
               /\ o # AlignDown(q.off, Chlen) => o - Chlen \in ReqOffs(q)
<1> USE GeometryAssumption
<1> DEFINE o == AlignDown(pos, Chlen)
           c == AlignDown(q.off, Chlen)
<1>1. q.off \in Nat /\ q.len \in Nat /\ q.off + q.len <= End /\ c \in Nat /\ c <= q.off
  BY ReqOffsFacts
<1>2. PICK a \in Nat : c = a * Chlen
  BY <1>1, AlignDownFacts
<1>3. q.off < c + Chlen
  BY <1>1, AlignDownFacts
<1>4. o \in Nat /\ o <= pos /\ pos < o + Chlen
  BY AlignDownFacts
<1>5. PICK b \in Nat : o = b * Chlen
  BY AlignDownFacts
<1> HIDE DEF o, c
<1>6. a <= b
  <2>1. ASSUME b + 1 <= a PROVE FALSE
    <3>1. (b + 1) * Chlen <= a * Chlen /\ (b + 1) * Chlen = b * Chlen + Chlen
      BY <2>1, SMT
    <3>2. o + Chlen <= c
      BY <1>2, <1>5, <3>1
    <3>3. QED
      BY <1>1, <1>4, <3>2
  <2>2. QED
    BY <2>1
<1>7. /\ b - a \in Nat /\ a * Chlen + (b - a) * Chlen = b * Chlen
      /\ (b - a) <= (b - a) * Chlen /\ (b - a) * Chlen \in Nat
  BY <1>6, SMT
<1>8. o = c + (b - a) * Chlen
  BY <1>2, <1>5, <1>7
<1>9. o \in ReqOffs(q)
  <2>1. q.off + q.len \in Nat /\ c + (b - a) * Chlen < q.off + q.len
    BY <1>1, <1>4, <1>8
  <2>2. o \in StepBy(c, q.off + q.len, Chlen)
    BY <1>1, <1>7, <1>8, <2>1, StepByVisits
  <2>3. QED
    BY <2>2 DEF ReqOffs, DemandOffs, c
<1>10. ASSUME o # c PROVE o - Chlen \in ReqOffs(q)
  <2>1. b - a # 0
    <3>1. b = a => a * Chlen = b * Chlen
      OBVIOUS
    <3>2. QED
      BY <1>2, <1>5, <1>7, <1>10, <3>1
  <2>2. /\ b - a - 1 \in Nat /\ (b - a - 1) * Chlen + Chlen = (b - a) * Chlen
        /\ (b - a - 1) * Chlen \in Nat /\ b - a - 1 <= (b - a - 1) * Chlen
    BY <1>7, <2>1, SMT
  <2>3. o - Chlen = c + (b - a - 1) * Chlen /\ o - Chlen \in Nat /\ c <= o - Chlen
    BY <1>1, <1>8, <2>2
  <2>4. QED
    <3>1. q.off + q.len \in Nat /\ c + (b - a - 1) * Chlen < q.off + q.len
      BY <1>1, <1>4, <2>2, <2>3
    <3>2. o - Chlen \in StepBy(c, q.off + q.len, Chlen)
      BY <1>1, <2>2, <2>3, <3>1, StepByVisits
    <3>3. QED
      BY <3>2 DEF ReqOffs, DemandOffs, c
<1>11. QED
  BY <1>4, <1>9, <1>10 DEF o, c

\* A read whose blocks are all there has each of them whole.
LEMMA BlocksOfRead ==
    ASSUME TypeInv, DataInv, NEW r \in Readers, read[r].pc = "demand",
           AllDone(r, ReqOffs(read[r].req)), NEW o \in ReqOffs(read[r].req)
    PROVE  task[<<r, o>>].data = WholeBlock(read[r].req.idx, o, Chlen, End)
<1>1. read[r].req \in Requests[r]
  BY DEF TypeInv, ReadRequests
<1>2. o \in Offs /\ task[<<r, o>>].pc = "done"
  BY <1>1, ReqOffsFacts DEF AllDone
<1>3. <<r, o>> \in Tasks
  BY <1>2 DEF Tasks, Demands
<1>4. task[<<r, o>>].key = <<read[r].req.idx, o>>
  BY <1>2 DEF TypeInv, TaskKeys
<1>5. QED
  BY <1>2, <1>3, <1>4 DEF DataInv, TasksAreWhole

\* The blocks of the request, all there and whole, are copied out exactly.
LEMMA CopyIsExact ==
    ASSUME TypeInv, DataInv, NEW r \in Readers, read[r].pc = "demand",
           AllDone(r, ReqOffs(read[r].req)), CopyOut(r).ok
    PROVE  CopyOut(r).buf = ExactBuf(read[r].req.idx, read[r].req.off, read[r].req.len)
<1> USE GeometryAssumption
<1> DEFINE q == read[r].req
           offs == ReqOffs(q)
           whole(o) == WholeBlock(q.idx, o, Chlen, End)
<1>1. q \in Requests[r]
  BY DEF TypeInv, ReadRequests
<1>2. /\ q.off \in Nat /\ q.len \in Nat /\ q.off + q.len <= End
      /\ AlignDown(q.off, Chlen) \in Nat /\ AlignDown(q.off, Chlen) <= q.off
      /\ \A o \in offs : o \in Offs /\ o \in Nat /\ o < q.off + q.len
  BY <1>1, ReqOffsFacts
<1>3. \A o \in offs : task[<<r, o>>].data = whole(o)
  BY BlocksOfRead
<1>4. \A o \in offs : /\ whole(o).src = q.idx /\ whole(o).beg = o
                      /\ whole(o).len = Lesser(o + Chlen, End) - o
  BY DEF WholeBlock, Slice
<1>5. CASE Cardinality(offs) = 1
  <2> DEFINE choff == CHOOSE o \in offs : TRUE
  <2>1. choff \in offs
    <3>1. offs # {}
      BY <1>5, FS_EmptySet
    <3>2. QED
      BY <3>1
  <2>2. CopyOut(r) = fill_from_block(q.off, q.len, choff, whole(choff))
    BY <1>3, <1>5, <2>1 DEF CopyOut
  <2>3. choff \in Nat
    BY <1>2, <2>1
  <2>4. \A i \in 0 .. q.len - 1 : whole(choff).beg + (q.off - choff) + i = q.off + i
    BY <1>2, <1>4, <2>1, <2>3
  <2> HIDE DEF choff, whole, offs, q
  <2>5. fill_from_block(q.off, q.len, choff, whole(choff)).ok =>
          fill_from_block(q.off, q.len, choff, whole(choff)).buf = ExactBuf(q.idx, q.off, q.len)
    BY <1>4, <2>1, <2>4 DEF fill_from_block, ExactBuf
  <2>6. QED
    BY <2>2, <2>5 DEF q
<1>6. CASE Cardinality(offs) # 1
  <2> DEFINE chunk == [o \in offs |-> whole(o)]
             reach(o) == CopyReach(q.off, q.len, chunk, o)
             from(o) == CopyFrom(q.off, q.len, Chlen, chunk, o)
             byte(pos) == CopiedByte(q.off, q.len, Chlen, chunk, pos)
  <2>1. CopyOut(r) = CopyChunks(q.off, q.len, Chlen, chunk)
    <3>1. [o \in offs |-> task[<<r, o>>].data] = chunk
      BY <1>3
    <3>2. QED
      BY <1>6, <3>1 DEF CopyOut
  <2>2. CopyOut(r).buf = [i \in 0 .. q.len - 1 |-> byte(q.off + i)]
    <3> HIDE DEF chunk, q
    <3>1. CopyOut(r).ok <=> CopyOk(q.off, q.len, Chlen, chunk)
      BY <2>1 DEF CopyChunks
    <3>2. CopyOut(r).buf = [i \in 0 .. q.len - 1 |->
              IF CopyOk(q.off, q.len, Chlen, chunk) THEN byte(q.off + i) ELSE Stale]
      BY <2>1 DEF CopyChunks
    <3>3. QED
      BY <3>1, <3>2
  <2>3. /\ DOMAIN chunk = offs
        /\ \A x \in offs : /\ x + chunk[x].len = Lesser(x + Chlen, End)
                           /\ chunk[x].src = q.idx /\ chunk[x].beg = x
    <3>1. \A x \in offs : chunk[x] = whole(x) /\ x \in Nat
      BY <1>2
    <3>2. \A x \in offs : x + (Lesser(x + Chlen, End) - x) = Lesser(x + Chlen, End)
      BY <3>1 DEF Lesser
    <3> HIDE DEF whole
    <3>3. QED
      BY <1>4, <3>1, <3>2
  <2> HIDE DEF chunk, offs, whole
  <2>4. ASSUME NEW pos \in Nat, q.off <= pos, pos < q.off + q.len
        PROVE  byte(pos) = <<q.idx, pos>>
    <3> DEFINE o == AlignDown(pos, Chlen)
               c == CopiedFrom(q.off, q.len, Chlen, chunk, pos)
    <3>1. /\ o \in offs /\ o <= pos /\ pos < o + Chlen
          /\ o # AlignDown(q.off, Chlen) => o - Chlen \in offs
      BY <1>1, <2>4, BlockOfByte DEF offs
    <3>2. o \in Nat /\ q.off + q.len \in Nat /\ pos < End
      BY <1>2, <2>4, <3>1
    <3>3. pos < reach(o)
      <4>1. reach(o) = Lesser(q.off + q.len, Lesser(o + Chlen, End))
        BY <2>3, <3>1 DEF CopyReach
      <4> HIDE DEF o
      <4>2. QED
        BY <2>4, <3>1, <3>2, <4>1 DEF Lesser
    <3>4. from(o) <= pos
      <4>1. CASE o = AlignDown(q.off, Chlen)
        BY <2>4, <4>1 DEF CopyFrom
      <4>2. CASE o # AlignDown(q.off, Chlen)
        <5>1. from(o) = Lesser(q.off + q.len, (o - Chlen) + chunk[o - Chlen].len)
          BY <4>2 DEF CopyFrom, CopyReach
        <5>2. (o - Chlen) + chunk[o - Chlen].len = Lesser((o - Chlen) + Chlen, End)
          BY <2>3, <3>1, <4>2
        <5> HIDE DEF o
        <5>3. QED
          BY <3>1, <3>2, <5>1, <5>2 DEF Lesser
      <4>3. QED
        BY <4>1, <4>2
    <3>5. c \in offs
      BY <2>3, <3>1, <3>3, <3>4 DEF CopiedFrom
    <3>6. byte(pos) = <<chunk[c].src, chunk[c].beg + (pos - c)>>
      BY DEF CopiedByte
    <3> HIDE DEF c
    <3>7. chunk[c].src = q.idx /\ chunk[c].beg = c /\ c \in Nat
      BY <1>2, <2>3, <3>5
    <3>8. c + (pos - c) = pos
      BY <3>7
    <3>9. QED
      BY <3>6, <3>7, <3>8
  <2>5. ASSUME NEW i \in 0 .. q.len - 1 PROVE byte(q.off + i) = <<q.idx, q.off + i>>
    <3>1. q.off + i \in Nat /\ q.off <= q.off + i /\ q.off + i < q.off + q.len
      BY <1>2
    <3>2. QED
      BY <2>4, <3>1
  <2>6. QED
    BY <2>2, <2>5 DEF ExactBuf
<1>7. QED
  BY <1>5, <1>6

\* Before the answer and after the return there is nothing in the buffer.
Answers ==
    /\ buf = [r \in Readers |-> buf[r]]
    /\ \A r \in Readers : read[r].pc # "readahead" => buf[r] = None
    /\ \A r \in Readers : read[r].pc = "idle" => read[r] = IdleRead
    /\ ReadsAreExact

CallerInv == TypeInv /\ DataInv /\ Answers

\* At first nobody has been answered.
LEMMA AnswersInit == Init => Answers
BY EmptyStates DEF Init, Answers, ReadsAreExact

\* Reader r moves to state e, its buffer becoming b: what a step of r is to its caller.
CallerMove(r, e, b) ==
    /\ read' = [read EXCEPT ![r] = e] /\ buf' = [buf EXCEPT ![r] = b]
    /\ \/ /\ read[r].pc = "idle" /\ e.pc \in {"leaders", "demand"}
          /\ e.req \in Requests[r] /\ b = buf[r]
       \/ /\ read[r].pc = "leaders" /\ e.pc = "demand" /\ e.req = read[r].req
          /\ b = buf[r]
       \/ /\ read[r].pc = "demand" /\ e.pc = "readahead" /\ e.req = read[r].req
          /\ b = ExactBuf(e.req.idx, e.req.off, e.req.len)
       \/ /\ read[r].pc = "readahead" /\ e.pc = "readahead" /\ e.req = read[r].req
          /\ b = buf[r]
       \/ /\ read[r].pc \in {"demand", "readahead"} /\ e = IdleRead /\ b = None

\* One step of reader r, as its caller sees it.
LEMMA CallerStep ==
    ASSUME CallerInv, NEW r \in Readers,
           ReaderStep(r) \/ \E q \in Requests[r] : StartRead(r, q)
    PROVE  \E e \in ReadState : \E b : CallerMove(r, e, b)
<1> USE DEF CallerMove
<1> USE DEF CallerInv
<1>t. read \in [Readers -> ReadState] /\ read[r] \in ReadState
  BY DEF TypeInv, TypeOK
<1>b. buf = [buf EXCEPT ![r] = buf[r]] /\ (read[r].pc # "readahead" => buf[r] = None)
  BY DEF Answers
<1>n. TypeInv'
  BY TypeStartRead, TypeReaderStep
<1>s. \A e : read' = [read EXCEPT ![r] = e] => e \in ReadState
  BY <1>n, <1>t DEF TypeInv, TypeOK
<1>1. ASSUME NEW q \in Requests[r], StartRead(r, q)
      PROVE  \E e \in ReadState :
               /\ read' = [read EXCEPT ![r] = e] /\ read[r].pc = "idle" /\ UNCHANGED buf
               /\ e.pc \in {"leaders", "demand"} /\ e.req = q
  <2> DEFINE e == [IdleRead EXCEPT !.pc = IF NeedsLeaders(q) THEN "leaders" ELSE "demand", !.req = q]
  <2>1. e.pc \in {"leaders", "demand"} /\ e.req = q
    BY DEF IdleRead
  <2>2. read' = [read EXCEPT ![r] = e] /\ read[r].pc = "idle" /\ UNCHANGED buf
    BY <1>1 DEF StartRead
  <2>3. QED
    BY <1>s, <2>1, <2>2
<1>2. CASE RouteAll(r)
  <2> DEFINE e == [read[r] EXCEPT !.pc = "demand"]
  <2>1. e.pc = "demand" /\ e.req = read[r].req
    BY <1>t DEF ReadState
  <2>2. read' = [read EXCEPT ![r] = e] /\ read[r].pc = "leaders" /\ UNCHANGED buf
    BY <1>2 DEF RouteAll
  <2>3. QED
    BY <1>s, <1>b, <2>1, <2>2
<1>3. CASE ReadFails(r)
  <2>1. /\ read' = [read EXCEPT ![r] = IdleRead] /\ read[r].pc = "demand" /\ UNCHANGED buf
    BY <1>3 DEF ReadFails
  <2>2. QED
    BY <1>s, <1>b, <2>1
<1>4. CASE CopyBlocks(r)
  <2>1. CASE CopyOut(r).ok
    <3> DEFINE e == [read[r] EXCEPT !.pc = "readahead", !.cur = ReadaheadRange(read[r].req)[1]]
    <3>1. e.pc = "readahead" /\ e.req = read[r].req
      BY <1>t DEF ReadState
    <3>2. /\ read' = [read EXCEPT ![r] = e] /\ buf' = [buf EXCEPT ![r] = CopyOut(r).buf]
          /\ read[r].pc = "demand"
      BY <1>4, <2>1 DEF CopyBlocks
    <3>3. CopyOut(r).buf = ExactBuf(read[r].req.idx, read[r].req.off, read[r].req.len)
      BY <1>4, <2>1, CopyIsExact DEF CopyBlocks
    <3>4. QED
      BY <1>s, <3>1, <3>2, <3>3
  <2>2. CASE ~CopyOut(r).ok
    <3>1. /\ read' = [read EXCEPT ![r] = IdleRead] /\ buf' = [buf EXCEPT ![r] = None]
          /\ read[r].pc = "demand"
      BY <1>4, <2>2 DEF CopyBlocks
    <3>2. QED
      BY <1>s, <3>1
  <2>3. QED
    BY <2>1, <2>2
<1>5. CASE ReadaheadSkip(r)
  <2> DEFINE e == [read[r] EXCEPT !.cur = read[r].cur + Chlen]
  <2>1. e.pc = read[r].pc /\ e.req = read[r].req
    BY <1>t DEF ReadState
  <2>2. read' = [read EXCEPT ![r] = e] /\ read[r].pc = "readahead" /\ UNCHANGED buf
    BY <1>5, <1>t DEF ReadaheadSkip, ReadaheadAt
  <2>3. QED
    BY <1>s, <1>b, <2>1, <2>2
<1>6. ASSUME NEW p \in Permits, ReadaheadSpawn(r, p)
      PROVE  \E e \in ReadState :
               /\ read' = [read EXCEPT ![r] = e] /\ read[r].pc = "readahead" /\ UNCHANGED buf
               /\ e.pc = "readahead" /\ e.req = read[r].req
  <2> DEFINE e == [read[r] EXCEPT !.cur = read[r].cur + Chlen,
                                  !.last = AlignDown(read[r].cur, Group)]
  <2>1. e.pc = read[r].pc /\ e.req = read[r].req
    BY <1>t DEF ReadState
  <2>2. read' = [read EXCEPT ![r] = e] /\ read[r].pc = "readahead" /\ UNCHANGED buf
    BY <1>6, <1>t DEF ReadaheadSpawn, ReadaheadAt
  <2>3. QED
    BY <1>s, <2>1, <2>2
<1>7. CASE ReadReturns(r)
  <2>1. /\ read' = [read EXCEPT ![r] = IdleRead] /\ buf' = [buf EXCEPT ![r] = None]
        /\ read[r].pc = "readahead"
    BY <1>7 DEF ReadReturns
  <2>2. QED
    BY <1>s, <2>1
<1>8. CASE \E q \in Requests[r] : StartRead(r, q)
  BY <1>1, <1>8, <1>b
<1>9. CASE \E p \in Permits : ReadaheadSpawn(r, p)
  BY <1>6, <1>9, <1>b
<1>10. QED
  BY <1>2, <1>3, <1>4, <1>5, <1>7, <1>8, <1>9 DEF ReaderStep

\* Nobody but its reader touches a read and its buffer.
LEMMA OthersLeaveReads ==
    ASSUME [Next]_vars,
           ~\E r \in Readers : ReaderStep(r) \/ \E q \in Requests[r] : StartRead(r, q)
    PROVE  UNCHANGED <<read, buf>>
<1>1. CASE \E i \in Tasks : RouteStep(i)
  BY <1>1 DEF RouteStep, LoadPhase, GetMetadata, GetContent, LookupFails, GetOrFetch
<1>2. CASE \E f \in Flights : FlightStep(f) \/ Evict(f)
  BY <1>2 DEF FlightStep, JoinGet, OpenGet, FillSiblings, Finish, Evict
<1>3. CASE \E g \in Gets : GetStep(g)
  BY <1>3 DEF GetStep, AcquirePermit, SourceRead, Retire
<1>4. CASE FlipPhase
  BY <1>4 DEF FlipPhase
<1>5. CASE UNCHANGED vars
  BY <1>5 DEF vars
<1>6. QED
  BY <1>1, <1>2, <1>3, <1>4, <1>5 DEF Next

\* Answers is inductive, given the other layers.
LEMMA AnswersStep == CallerInv /\ [Next]_vars => Answers'
<1> SUFFICES ASSUME CallerInv, [Next]_vars PROVE Answers'
  OBVIOUS
<1>1. CASE UNCHANGED <<read, buf>>
  BY <1>1 DEF CallerInv, Answers, ReadsAreExact
<1>2. ASSUME NEW r \in Readers, ReaderStep(r) \/ \E q \in Requests[r] : StartRead(r, q)
      PROVE  Answers'
  <2>1. PICK e, b : e \in ReadState /\ CallerMove(r, e, b)
    BY <1>2, CallerStep
  <2> USE DEF CallerMove
  <2>2. /\ read'[r] = e /\ buf'[r] = b
        /\ \A c \in Readers : c # r => read'[c] = read[c] /\ buf'[c] = buf[c]
        /\ buf' = [c \in Readers |-> buf'[c]]
    BY <2>1 DEF CallerInv, TypeInv, TypeOK, Answers
  <2>3. /\ e.pc # "readahead" => b = None
        /\ e.pc = "idle" => e = IdleRead
        /\ e.pc = "readahead" => b = ExactBuf(e.req.idx, e.req.off, e.req.len)
    BY <2>1, EmptyStates DEF CallerInv, Answers, ReadsAreExact
  <2>4. QED
    BY <2>2, <2>3 DEF CallerInv, Answers, ReadsAreExact
<1>3. QED
  BY <1>1, <1>2, OthersLeaveReads

\* All layers hold together, what each caller has been answered included.
THEOREM CallerInvariance == Spec => []CallerInv
<1>1. Init => CallerInv
  BY TypeInit, DataInit, AnswersInit DEF CallerInv
<1>2. CallerInv /\ [Next]_vars => CallerInv'
  BY TypeStep, DataStep, AnswersStep DEF CallerInv
<1>3. QED
  BY <1>1, <1>2, PTL DEF Spec

\* Cache::read: a read that succeeds has filled the buffer with exactly the bytes it
\* asked for, for every geometry, every store and every interleaving.
THEOREM ReadsStayExact == Spec => []ReadsAreExact
<1>1. CallerInv => ReadsAreExact
  BY DEF CallerInv, Answers
<1>2. QED
  BY <1>1, CallerInvariance, PTL

\* The empty cache maps to the initial state of the read service.
LEMMA ServiceInit == Init => Service!Init
BY EmptyStates DEF Init, Service!Init, ServicePhase, ServiceReq, IdleRead

\* Every step of the cache is a step of the read service or invisible to its callers.
LEMMA ServiceStep ==
    CallerInv /\ [Next]_vars => [Service!Next]_(Service!serviceVars)
<1> SUFFICES ASSUME CallerInv, [Next]_vars
             PROVE  Service!Next \/ UNCHANGED <<ServicePhase, ServiceReq, buf>>
  BY DEF Service!serviceVars
<1>1. CASE UNCHANGED <<read, buf>>
  BY <1>1 DEF ServicePhase, ServiceReq
<1>2. ASSUME NEW r \in Readers, ReaderStep(r) \/ \E q \in Requests[r] : StartRead(r, q)
      PROVE  Service!Next \/ UNCHANGED <<ServicePhase, ServiceReq, buf>>
  <2> DEFINE P(c) == CASE c = "idle" -> "idle"
                       [] c \in {"leaders", "demand"} -> "busy"
                       [] c = "readahead" -> "answered"
  <2>1. PICK e, b : e \in ReadState /\ CallerMove(r, e, b)
    BY <1>2, CallerStep
  <2> USE DEF CallerMove
  <2>2. read \in [Readers -> ReadState] /\ buf = [c \in Readers |-> buf[c]]
    BY DEF CallerInv, TypeInv, TypeOK, Answers
  <2>3. /\ ServicePhase = [c \in Readers |-> P(read[c].pc)]
        /\ ServicePhase' = [c \in Readers |-> P(read'[c].pc)]
        /\ ServiceReq' = [c \in Readers |-> read'[c].req]
    BY DEF ServicePhase, ServiceReq
  <2>4. /\ ServicePhase' = [ServicePhase EXCEPT ![r] = P(e.pc)]
        /\ ServiceReq' = [ServiceReq EXCEPT ![r] = e.req]
        /\ ServicePhase[r] = P(read[r].pc) /\ ServiceReq[r] = read[r].req
    <3> HIDE DEF P
    <3>1. \A c \in Readers : read'[c] = IF c = r THEN e ELSE read[c]
      BY <2>1, <2>2
    <3>2. QED
      BY <2>3, <3>1 DEF ServiceReq
  <2>5. /\ P("idle") = "idle" /\ P("leaders") = "busy" /\ P("demand") = "busy"
        /\ P("readahead") = "answered"
    OBVIOUS
  <2>7. ServiceReq = [ServiceReq EXCEPT ![r] = ServiceReq[r]]
    BY DEF ServiceReq
  <2>9. buf = [buf EXCEPT ![r] = buf[r]]
    BY <2>2
  <2> HIDE DEF P
  <2>8. ServicePhase = [ServicePhase EXCEPT ![r] = ServicePhase[r]]
    BY <2>3
  <2>10. CASE /\ read[r].pc = "idle" /\ e.pc \in {"leaders", "demand"}
              /\ e.req \in Requests[r] /\ b = buf[r]
    <3>1. Service!Begin(r, e.req)
      BY <2>1, <2>4, <2>5, <2>9, <2>10 DEF Service!Begin
    <3>2. QED
      BY <2>10, <3>1 DEF Service!Next
  <2>11. CASE /\ read[r].pc = "leaders" /\ e.pc = "demand" /\ e.req = read[r].req
              /\ b = buf[r]
    BY <2>1, <2>4, <2>5, <2>7, <2>8, <2>9, <2>11
  <2>12. CASE /\ read[r].pc = "demand" /\ e.pc = "readahead" /\ e.req = read[r].req
              /\ b = ExactBuf(e.req.idx, e.req.off, e.req.len)
    <3>1. Service!Answer(r)
      BY <2>1, <2>4, <2>5, <2>7, <2>12 DEF Service!Answer, Service!ExactBuf, ExactBuf
    <3>2. QED
      BY <3>1 DEF Service!Next
  <2>13. CASE /\ read[r].pc = "readahead" /\ e.pc = "readahead" /\ e.req = read[r].req
              /\ b = buf[r]
    BY <2>1, <2>4, <2>5, <2>7, <2>8, <2>9, <2>13
  <2>14. CASE read[r].pc \in {"demand", "readahead"} /\ e = IdleRead /\ b = None
    <3>1. e.pc = "idle" /\ e.req = None
      BY <2>14 DEF IdleRead
    <3>2. Service!Return(r)
      BY <2>1, <2>4, <2>5, <2>14, <3>1 DEF Service!Return
    <3>3. QED
      BY <3>2 DEF Service!Next
  <2>15. QED
    BY <2>1, <2>10, <2>11, <2>12, <2>13, <2>14
<1>3. QED
  BY <1>1, <1>2, OthersLeaveReads

\* FoyerCache implements the safety part of the Cache trait's promise: a call of read
\* is answered by exactly the bytes it asked for or by an error, and by nothing else.
THEOREM ImplementsReadServiceSafety == Spec => Service!Safety
<1>1. Init => Service!Init
  BY ServiceInit
<1>2. CallerInv /\ [Next]_vars => [Service!Next]_(Service!serviceVars)
  BY ServiceStep
<1>3. QED
  BY <1>1, <1>2, CallerInvariance, PTL DEF Spec, Service!Safety

-----------------------------------------------------------------------------
(* Action properties.                                                      *)

\* Where an entry of the metadata tier comes from, in one step.
LEMMA MetadataStep ==
    ASSUME TypeInv, [Next]_vars, NEW k \in Keys,
           cache[<<"metadata", k>>] = None, cache'[<<"metadata", k>>] # None
    PROVE  \/ flight[<<"metadata", k>>].pc \in {"got", "filled"}
           \/ \E i \in Tasks : task[i].pc = "content" /\ task[i].key = k /\ ~task[i].regular
<1> DEFINE m == <<"metadata", k>>
<1>t. cache \in [Flights -> Data \cup {None}] /\ m \in Flights /\ m[1] = "metadata"
  BY DEF TypeInv, TypeOK, Flights, Tiers
<1>1. CASE \E i \in Tasks : RouteStep(i)
  <2>1. PICK i \in Tasks : RouteStep(i)
    BY <1>1
  <2>2. CASE GetContent(i)
    <3>1. /\ task[i].pc = "content" /\ TierOf(task[i]) = "metadata"
          /\ m = <<"metadata", task[i].key>>
      BY <1>t, <2>2 DEF GetContent
    <3>2. task[i].key = k /\ ~task[i].regular
      BY <3>1 DEF TierOf
    <3>3. QED
      BY <3>1, <3>2
  <2>3. CASE LoadPhase(i) \/ GetMetadata(i) \/ LookupFails(i) \/ GetOrFetch(i)
    BY <2>3 DEF LoadPhase, GetMetadata, LookupFails, GetOrFetch
  <2>4. QED
    BY <2>1, <2>2, <2>3 DEF RouteStep
<1>2. CASE \E f \in Flights : FlightStep(f) \/ Evict(f)
  <2>1. PICK f \in Flights : FlightStep(f) \/ Evict(f)
    BY <1>2
  <2>2. CASE FillSiblings(f)
    BY <1>t, <2>2 DEF FillSiblings, Sink
  <2>3. CASE Finish(f)
    <3>1. f = m
      BY <1>t, <2>3 DEF Finish
    <3>2. QED
      BY <2>3, <3>1 DEF Finish
  <2>4. CASE JoinGet(f) \/ OpenGet(f) \/ Evict(f)
    BY <1>t, <2>4 DEF JoinGet, OpenGet, Evict
  <2>5. QED
    BY <2>1, <2>2, <2>3, <2>4 DEF FlightStep
<1>3. CASE \E r \in Readers : ReaderStep(r) \/ \E q \in Requests[r] : StartRead(r, q)
  BY <1>3 DEF StartRead, ReaderStep, RouteAll, ReadFails, CopyBlocks, ReadaheadSkip,
              ReadaheadSpawn, ReadReturns
<1>4. CASE (\E g \in Gets : GetStep(g)) \/ FlipPhase \/ UNCHANGED vars
  BY <1>4 DEF GetStep, AcquirePermit, SourceRead, Retire, FlipPhase, vars
<1>5. QED
  BY <1>1, <1>2, <1>3, <1>4 DEF Next

\* route_block: the metadata tier gets only what was demanded in the metadata phase,
\* never a sibling of it.
THEOREM MetadataStaysRouted == Spec => MetadataIsRouted
<1>1. Init => TypeInv
  BY TypeInit
<1>2. TypeInv /\ [Next]_vars => TypeInv'
  BY TypeStep
<1>3. TypeInv /\ [Next]_vars =>
        [\A k \in Keys :
            cache[<<"metadata", k>>] = None /\ cache'[<<"metadata", k>>] # None =>
                \/ flight[<<"metadata", k>>].pc \in {"got", "filled"}
                \/ \E i \in Tasks : /\ task[i].pc = "content" /\ task[i].key = k
                                    /\ ~task[i].regular]_vars
  BY MetadataStep
<1>4. QED
  BY <1>1, <1>2, <1>3, PTL DEF Spec, MetadataIsRouted

\* A demanded block is cut out of bytes that reach to the end of its group.
LEMMA WholeGroupServes ==
    ASSUME TypeInv, NEW f \in Flights, flight[f].bytes # None,
           flight[f].bytes.len >= GroupRange(GetOf(f)).end - GroupRange(GetOf(f)).beg
    PROVE  f[2][2] \in Cut(f)
<1> USE GeometryAssumption
<1> DEFINE gb == GroupBeg(f)
           ge == GroupEnd(GroupBeg(f), Group, End)
           o == f[2][2]
<1>1. flight[f].bytes.len \in Nat
  BY DEF TypeInv, TypeOK, FlightState, Data
<1>2. /\ gb \in Nat /\ gb <= o /\ ge \in Nat /\ o < ge /\ o \in Offs /\ o \in Nat
  BY FlightGroup, OffsFacts
<1>3. GroupRange(GetOf(f)).beg = gb /\ GroupRange(GetOf(f)).end = ge
  <2>1. GroupRange(GetOf(f)).beg = gb
    BY SameGroup
  <2>2. GroupRange(GetOf(f)).end = GroupEnd(GroupRange(GetOf(f)).beg, Group, End)
    BY DEF GroupRange
  <2>3. QED
    BY <2>1, <2>2
<1>4. PICK a \in Nat : o = a * Chlen
  BY <1>2, OffsFacts
<1>5. PICK b \in Nat : gb = b * Chlen
  <2>1. PICK n \in Nat : gb = n * Group
    BY <1>2, GroupFacts, AlignDownFacts DEF GroupBeg
  <2>2. PICK m \in Nat \ {0} : Group = m * Chlen
    BY GroupFacts
  <2>3. n * (m * Chlen) = (n * m) * Chlen /\ n * m \in Nat
    BY SMT
  <2>4. QED
    BY <2>1, <2>2, <2>3
<1> HIDE DEF gb, ge, o
<1>6. b <= a
  <2>1. ASSUME a + 1 <= b PROVE FALSE
    <3>1. (a + 1) * Chlen <= b * Chlen /\ (a + 1) * Chlen = a * Chlen + Chlen
      BY <2>1, SMT
    <3>2. QED
      BY <1>2, <1>4, <1>5, <3>1
  <2>2. QED
    BY <2>1
<1>7. a - b \in Nat /\ b * Chlen + (a - b) * Chlen = a * Chlen
  BY <1>6, SMT
<1>8. o = gb + (a - b) * Chlen /\ gb + (a - b) * Chlen < ge
  BY <1>2, <1>4, <1>5, <1>7
<1>9. o \in StepBy(gb, ge, Chlen)
  BY <1>2, <1>7, <1>8, StepByVisits
<1>10. Lesser(o + Chlen, ge) - gb <= flight[f].bytes.len
  BY <1>1, <1>2, <1>3 DEF Lesser
<1>11. QED
  BY <1>9, <1>10 DEF Cut, CutOffs, gb, ge, o

\* The blocks of a request, all there and whole, can be copied out.
LEMMA CopySucceeds ==
    ASSUME TypeInv, DataInv, NEW r \in Readers, read[r].pc = "demand",
           AllDone(r, ReqOffs(read[r].req))
    PROVE  CopyOut(r).ok
<1> USE GeometryAssumption
<1> DEFINE q == read[r].req
           offs == ReqOffs(q)
           whole(o) == WholeBlock(q.idx, o, Chlen, End)
           beg == AlignDown(q.off, Chlen)
<1>1. q \in Requests[r]
  BY DEF TypeInv, ReadRequests
<1>2. /\ q.off \in Nat /\ q.len \in Nat /\ q.off + q.len <= End
      /\ beg \in Nat /\ beg <= q.off
      /\ \A o \in offs : o \in Offs /\ o \in Nat /\ o < q.off + q.len /\ beg <= o
  BY <1>1, ReqOffsFacts
<1>a. q.off < beg + Chlen
  BY <1>2, AlignDownFacts
<1>3. \A o \in offs : task[<<r, o>>].data = whole(o)
  BY BlocksOfRead
<1>4. \A o \in offs : whole(o).len = Lesser(o + Chlen, End) - o
  BY DEF WholeBlock, Slice
<1>n. \A o \in offs : \E n \in Nat : o = beg + n * Chlen
  <2>1. q.off + q.len \in Nat /\ offs = StepBy(beg, q.off + q.len, Chlen)
    BY <1>2 DEF ReqOffs, DemandOffs
  <2> HIDE DEF beg, offs, q
  <2>2. QED
    BY <1>2, <2>1, StepByMember
<1>v. \A n \in Nat : beg + n * Chlen < q.off + q.len => beg + n * Chlen \in offs
  <2>1. q.off + q.len \in Nat /\ offs = StepBy(beg, q.off + q.len, Chlen)
    BY <1>2 DEF ReqOffs, DemandOffs
  <2> HIDE DEF beg, offs, q
  <2>2. QED
    BY <1>2, <2>1, StepByVisits
<1>w. beg < q.off + q.len => beg \in offs
  <2>1. beg + 0 * Chlen = beg /\ 0 \in Nat
    BY <1>2
  <2>2. QED
    BY <1>v, <2>1
<1>l. q.len > 0 => \E o \in offs : q.off + q.len <= o + Chlen
  <2>1. SUFFICES ASSUME q.len > 0 PROVE \E o \in offs : q.off + q.len <= o + Chlen
    OBVIOUS
  <2> DEFINE pos == q.off + q.len - 1
  <2>2. pos \in Nat /\ q.off <= pos /\ pos < q.off + q.len
    BY <1>2, <2>1
  <2>3. AlignDown(pos, Chlen) \in offs /\ pos < AlignDown(pos, Chlen) + Chlen
    BY <1>1, <2>2, BlockOfByte
  <2>4. QED
    BY <1>2, <2>3
<1>5. CASE Cardinality(offs) = 1
  <2> DEFINE choff == CHOOSE o \in offs : TRUE
  <2>1. PICK x : offs = {x}
    <3>0. q.off + q.len \in Nat /\ \A o \in offs : o \in 0 .. q.off + q.len
      <4> HIDE DEF q, offs, beg
      <4>1. QED
        BY <1>2
    <3>1. IsFiniteSet(0 .. q.off + q.len) /\ offs \in SUBSET (0 .. q.off + q.len)
      BY <3>0, FS_Interval
    <3>2. IsFiniteSet(offs)
      BY <3>1, FS_Subset
    <3>3. QED
      BY <1>5, <3>2, FS_Singleton
  <2>2. choff \in offs
    BY <2>1
  <2>3. CopyOut(r) = fill_from_block(q.off, q.len, choff, whole(choff))
    BY <1>3, <1>5, <2>2 DEF CopyOut
  <2>4. choff = beg
    BY <1>2, <1>w, <2>1, <2>2
  <2>5. q.off + q.len <= choff + Chlen
    BY <1>2, <1>a, <1>l, <2>1, <2>2, <2>4
  <2>6. whole(choff).len = Lesser(choff + Chlen, End) - choff /\ choff \in Nat
    BY <1>2, <1>4, <2>2
  <2> HIDE DEF choff, whole, offs, q
  <2>7. (q.off - choff) + q.len <= whole(choff).len
    BY <1>2, <2>5, <2>6 DEF Lesser
  <2>8. fill_from_block(q.off, q.len, choff, whole(choff)).ok
        <=> (q.off - choff) + q.len <= whole(choff).len
    BY DEF fill_from_block
  <2>9. QED
    BY <2>3, <2>7, <2>8
<1>6. CASE Cardinality(offs) # 1
  <2> DEFINE chunk == [o \in offs |-> whole(o)]
             reach(o) == CopyReach(q.off, q.len, chunk, o)
             from(o) == CopyFrom(q.off, q.len, Chlen, chunk, o)
  <2>1. CopyOut(r) = CopyChunks(q.off, q.len, Chlen, chunk)
    <3>1. [o \in offs |-> task[<<r, o>>].data] = chunk
      BY <1>3
    <3>2. QED
      BY <1>6, <3>1 DEF CopyOut
  <2>2. DOMAIN chunk = offs /\ \A o \in offs : chunk[o].len = Lesser(o + Chlen, End) - o
    BY <1>4
  <2> HIDE DEF chunk, whole
  <2>3. ASSUME NEW o \in offs PROVE reach(o) = Lesser(q.off + q.len, o + Chlen)
    <3>1. reach(o) = Lesser(q.off + q.len, o + chunk[o].len)
      BY DEF CopyReach
    <3>2. chunk[o].len = Lesser(o + Chlen, End) - o /\ o \in Nat
      BY <1>2, <2>2
    <3> HIDE DEF q, offs
    <3>3. QED
      BY <1>2, <3>1, <3>2 DEF Lesser
  <2>4. ASSUME NEW o \in offs
        PROVE  /\ o <= from(o) /\ from(o) <= reach(o)
               /\ o + Chlen \notin offs => reach(o) = q.off + q.len
    <3>o. o \in Nat /\ o < q.off + q.len /\ beg <= o
      BY <1>2
    <3>1. PICK n \in Nat : o = beg + n * Chlen
      BY <1>n
    <3>b. beg \in Nat /\ beg <= q.off /\ q.off \in Nat /\ q.len \in Nat
      BY <1>2
    <3>c. q.off < beg + Chlen
      BY <1>a
    <3>v. \A x \in Nat : beg + x * Chlen < q.off + q.len => beg + x * Chlen \in offs
      BY <1>v
    <3>d. reach(o) = Lesser(q.off + q.len, o + Chlen)
      BY <2>3
    <3>g. Chlen \in Nat \ {0}
      OBVIOUS
    <3>2. ASSUME o = beg PROVE o <= from(o) /\ from(o) <= reach(o)
      <4>1. from(o) = q.off
        BY <3>2 DEF CopyFrom
      <4>2. q.off <= reach(o) /\ o <= q.off
        <5> HIDE DEF beg, q, offs, reach
        <5>1. QED
          BY ONLY <3>g, <3>b, <3>c, <3>d, <3>2 DEF Lesser
      <4>3. QED
        BY <4>1, <4>2
    <3>3. ASSUME o # beg PROVE o <= from(o) /\ from(o) <= reach(o)
      <4>1. n # 0
        BY <1>2, <3>1, <3>3
      <4>2. n - 1 \in Nat /\ (n - 1) * Chlen + Chlen = n * Chlen /\ (n - 1) * Chlen \in Nat
        BY <4>1, SMT
      <4>3. o - Chlen = beg + (n - 1) * Chlen
        BY <1>2, <3>1, <4>2
      <4>4. o - Chlen \in offs
        <5>1. beg + (n - 1) * Chlen < q.off + q.len => beg + (n - 1) * Chlen \in offs
          BY ONLY <3>v, <4>2
        <5> HIDE DEF beg, q, offs
        <5>2. o - Chlen < q.off + q.len
          BY ONLY <3>g, <3>b, <3>o
        <5>3. QED
          BY ONLY <4>3, <5>1, <5>2
      <4>5. from(o) = reach(o - Chlen)
        BY <3>3 DEF CopyFrom
      <4>6. from(o) = o
        <5>1. from(o) = Lesser(q.off + q.len, (o - Chlen) + Chlen)
          BY <2>3, <4>4, <4>5
        <5>2. QED
          <6> HIDE DEF beg, q, offs, from
          <6>1. QED
            BY ONLY <3>g, <3>b, <3>o, <5>1 DEF Lesser
      <4>7. QED
        <5> HIDE DEF beg, q, offs, from, reach
        <5>1. QED
          BY ONLY <3>g, <3>b, <3>d, <3>o, <4>6 DEF Lesser
    <3>4. ASSUME o + Chlen \notin offs PROVE reach(o) = q.off + q.len
      <4>1. n + 1 \in Nat /\ (n + 1) * Chlen = n * Chlen + Chlen /\ n * Chlen \in Nat
        BY SMT
      <4>2. o + Chlen = beg + (n + 1) * Chlen
        BY <1>2, <3>1, <4>1
      <4>3. ~(o + Chlen < q.off + q.len)
        BY <1>v, <3>4, <4>1, <4>2
      <4>4. QED
        BY <1>2, <2>3, <3>o, <4>3 DEF Lesser
    <3>5. QED
      <4>1. o <= from(o) /\ from(o) <= reach(o)
        BY <3>2, <3>3
      <4>2. QED
        BY <3>4, <4>1
  <2>5. offs = {} => q.len = 0
    BY <1>2, <1>l
  <2>6. CopyOk(q.off, q.len, Chlen, chunk)
    BY <2>2, <2>4, <2>5 DEF CopyOk
  <2>7. QED
    BY <2>1, <2>6 DEF CopyChunks
<1>7. QED
  BY <1>5, <1>6

\* The task of a step of route_block fails only in a lookup.
LEMMA RouteSucceeds ==
    ASSUME TypeInv, NEW j \in Tasks, RouteStep(j), NEW i \in Tasks,
           task[i].pc \notin {"metadata", "content", "err"}
    PROVE  task'[i].pc # "err"
<1>t. /\ task \in [Tasks -> TaskState] /\ task[i] \in TaskState
      /\ cache \in [Flights -> Data \cup {None}]
  BY DEF TypeInv, TypeOK
<1>k. task[j].pc # "none"
  BY DEF RouteStep, LoadPhase, GetMetadata, GetContent, LookupFails, GetOrFetch
<1>s. ASSUME NEW d \in Data \cup {None}, d # None, Settle(j, d) PROVE task'[i].pc # "err"
  <2>1. task' = [task EXCEPT ![j] = Settled(j, d)]
    BY <1>s DEF Settle
  <2>2. Settled(j, d).pc # "err"
    BY <1>t, <1>s, EmptyStates, TaskKinds DEF Settled, TypeInv, TypeOK, TaskState
  <2>3. QED
    BY <1>t, <2>1, <2>2
<1>o. ASSUME j # i, task'[i].pc = "err" PROVE FALSE
  <2>1. task'[i] = task[i]
    BY <1>t, <1>o DEF RouteStep, LoadPhase, GetMetadata, GetContent, LookupFails, GetOrFetch, Settle
  <2>2. QED
    BY <1>o, <2>1
<1>1. CASE LoadPhase(j)
  BY <1>t, <1>1, <1>o DEF LoadPhase, TaskState
<1>2. CASE GetMetadata(j) \/ GetContent(j) \/ LookupFails(j)
  BY <1>2, <1>o DEF GetMetadata, GetContent, LookupFails
<1>3. CASE GetOrFetch(j)
  <2> DEFINE f == FlightOf(task[j])
  <2>1. task[j].key \in Keys
    BY <1>k DEF TypeInv, TaskKeys
  <2>2. f \in Flights
    BY <2>1 DEF FlightOf, TierOf, Flights, Tiers
  <2>3. CASE task' = [task EXCEPT ![j] = Parked(j)]
    <3>1. Parked(j).pc # "err"
      BY <1>k, ParkedFacts
    <3>2. QED
      BY <1>t, <2>3, <3>1
  <2>4. CASE cache[f] # None /\ Settle(j, cache[f])
    BY <1>t, <1>s, <2>2, <2>4
  <2>5. QED
    BY <1>3, <2>3, <2>4 DEF GetOrFetch
<1>4. QED
  BY <1>1, <1>2, <1>3 DEF RouteStep

\* Nothing a reader does makes a block fail.
LEMMA ReadersFailNone ==
    ASSUME TypeInv, NEW r \in Readers,
           ReaderStep(r) \/ \E q \in Requests[r] : StartRead(r, q),
           NEW i \in Tasks, task[i].pc # "err"
    PROVE  task'[i].pc # "err"
<1>t. task \in [Tasks -> TaskState]
  BY DEF TypeInv, TypeOK
<1>q. read[r].pc # "idle" => read[r].req \in Requests[r]
  BY DEF TypeInv, ReadRequests
<1>1. ASSUME NEW q \in Requests[r], NEW S, Spawn(r, q, S) PROVE task'[i].pc # "err"
  <2>1. \/ task'[i] = task[i]
        \/ task'[i] = NoTask
        \/ \E k \in Keys : task'[i] = NewTask(k)
    BY <1>1, SpawnFacts
  <2>2. QED
    BY <2>1, NewTaskFacts, EmptyStates
<1>2. CASE \E q \in Requests[r] : StartRead(r, q)
  BY <1>1, <1>2 DEF StartRead
<1>3. CASE RouteAll(r) \/ ReadFails(r) \/ CopyBlocks(r)
  BY <1>1, <1>q, <1>3 DEF RouteAll, ReadFails, CopyBlocks
<1>4. CASE ReadaheadSkip(r) \/ ReadReturns(r)
  BY <1>4 DEF ReadaheadSkip, ReadReturns
<1>5. ASSUME NEW p \in Permits, ReadaheadSpawn(r, p) PROVE task'[i].pc # "err"
  <2>1. NewTask(ReadaheadKey(r)).pc # "err"
    BY DEF NewTask, NoTask
  <2>2. task' = [task EXCEPT ![<<"readahead", p>>] = NewTask(ReadaheadKey(r))]
    BY <1>5 DEF ReadaheadSpawn
  <2>3. QED
    BY <1>t, <2>1, <2>2
<1>6. QED
  BY <1>2, <1>3, <1>4, <1>5 DEF ReaderStep

\* A block that fails after its lookups fails for want of bytes.
LEMMA TaskFailsShort ==
    ASSUME TypeInv, [Next]_vars, NEW i \in Tasks,
           task[i].pc \notin {"metadata", "content", "err"}, task'[i].pc = "err"
    PROVE  LET f  == FlightOf(task[i])
               rg == GroupRange(GetOf(f))
           IN  flight[f].bytes = None \/ flight[f].bytes.len < rg.end - rg.beg
<1>1. CASE \E f \in Flights : FlightStep(f) \/ Evict(f)
  <2>1. PICK f \in Flights : FlightStep(f) \/ Evict(f)
    BY <1>1
  <2>2. Finish(f)
    BY <2>1 DEF FlightStep, JoinGet, OpenGet, FillSiblings, Evict
  <2>3. /\ task[i].pc = "wait" /\ FlightOf(task[i]) = f
        /\ Settled(i, Demanded(f)).pc = "err"
    BY <2>2 DEF Finish
  <2>4. Demanded(f) = None
    <3>1. task[i] \in TaskState
      BY DEF TypeInv, TypeOK
    <3>2. Demanded(f) # None => Settled(i, Demanded(f)).pc # "err"
      BY <3>1, EmptyStates DEF Settled, TaskState
    <3>3. QED
      BY <2>3, <3>2
  <2>5. ASSUME flight[f].bytes # None, f[2][2] \in Cut(f) PROVE FALSE
    <3>1. CutOut(f, f[2][2]) \in Data
      BY <2>5, CutTypes
    <3>2. QED
      BY <2>4, <2>5, <3>1, NoneAssumption DEF Demanded, Data
  <2>6. flight[f].bytes # None => /\ flight[f].bytes.len \in Nat
                                 /\ GroupRange(GetOf(f)).end - GroupRange(GetOf(f)).beg \in Int
    <3>1. GroupRange(GetOf(f)).beg \in Nat
      BY SameGroup, FlightGroup
    <3>2. GroupRange(GetOf(f)).end = GroupEnd(GroupRange(GetOf(f)).beg, Group, End)
      BY DEF GroupRange
    <3>3. GroupRange(GetOf(f)).end \in Nat
      BY <3>1, <3>2, GroupFacts, GeometryAssumption DEF GroupEnd, Lesser
    <3>4. flight[f].bytes # None => flight[f].bytes.len \in Nat
      BY DEF TypeInv, TypeOK, FlightState, Data
    <3>5. QED
      BY <3>1, <3>3, <3>4
  <2>7. QED
    BY <2>3, <2>5, <2>6, WholeGroupServes
<1>2. CASE (\E g \in Gets : GetStep(g)) \/ FlipPhase \/ UNCHANGED vars
  BY <1>2 DEF GetStep, AcquirePermit, SourceRead, Retire, FlipPhase, vars
<1>3. QED
  BY <1>1, <1>2, RouteSucceeds, ReadersFailNone DEF Next

\* A read that fails has a block that failed: the copy never does.
LEMMA ReadFailsForBlock ==
    ASSUME TypeInv, DataInv, [Next]_vars, NEW r \in Readers,
           read[r].pc = "demand", read'[r].pc = "idle"
    PROVE  SomeFailed(r, ReqOffs(read[r].req))
<1>t. read \in [Readers -> ReadState]
  BY DEF TypeInv, TypeOK
<1>1. PICK c \in Readers : ReaderStep(c) \/ \E q \in Requests[c] : StartRead(c, q)
  BY OthersLeaveReads
<1>2. c = r
  <2>1. ASSUME c # r PROVE read'[r] = read[r]
    BY <1>t, <1>1, <2>1 DEF StartRead, ReaderStep, RouteAll, ReadFails, CopyBlocks, ReadaheadSkip,
                            ReadaheadSpawn, ReadReturns
  <2>2. QED
    BY <2>1
<1>3. ReadFails(r) \/ CopyBlocks(r)
  BY <1>1, <1>2 DEF StartRead, ReaderStep, RouteAll, ReadaheadSkip, ReadaheadSpawn, ReadReturns, ReadaheadAt
<1>4. ~CopyBlocks(r)
  <2>1. ASSUME CopyBlocks(r) PROVE FALSE
    <3>1. CopyOut(r).ok
      BY <2>1, CopySucceeds DEF CopyBlocks
    <3>2. read'[r].pc = "readahead"
      BY <1>t, <2>1, <3>1 DEF CopyBlocks, ReadState
    <3>3. QED
      BY <3>2
  <2>2. QED
    BY <2>1
<1>5. QED
  BY <1>3, <1>4 DEF ReadFails

\* route_block, make_fetch and the copy loop: a block or a read fails only if a lookup
\* failed or the store did not deliver a whole group, for every fetch size and block
\* size and every interleaving.
THEOREM FailuresAlwaysHaveCauses == Spec => FailuresHaveCauses
<1>1. Init => TypeInv /\ DataInv
  BY TypeInit, DataInit
<1>2. (TypeInv /\ DataInv) /\ [Next]_vars => (TypeInv /\ DataInv)'
  BY TypeStep, DataStep
<1>3. (TypeInv /\ DataInv) /\ [Next]_vars =>
        [/\ \A i \in Tasks :
              task[i].pc \notin {"metadata", "content", "err"} /\ task'[i].pc = "err" =>
                LET f  == FlightOf(task[i])
                    rg == GroupRange(GetOf(f))
                IN  flight[f].bytes = None \/ flight[f].bytes.len < rg.end - rg.beg
         /\ \A r \in Readers : read[r].pc = "demand" /\ read'[r].pc = "idle" =>
              SomeFailed(r, ReqOffs(read[r].req))]_vars
  BY TaskFailsShort, ReadFailsForBlock
<1>4. QED
  BY <1>1, <1>2, <1>3, PTL DEF Spec, FailuresHaveCauses
=============================================================================
