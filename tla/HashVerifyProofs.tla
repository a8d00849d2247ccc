-------------------------- MODULE HashVerifyProofs --------------------------
(***************************************************************************)
(* Proofs about HashVerify, for every set of hash types, every length of   *)
(* the buffers and every size of the image.  The inductive invariant says  *)
(* where each of the two buffers is and how far each digest has come:      *)
(*   HandlesInv  there is one worker for each hash type that is wanted;    *)
(*   PlaceInv    which buffers a worker has, and in which of its channels, *)
(*               by how far the reading thread is in its round;            *)
(*   DigestInv   a digest is the image up to what was sent to its worker   *)
(*               and is not hashed yet, and the buffers that are not       *)
(*               hashed yet hold what comes next.                          *)
(***************************************************************************)
EXTENDS HashVerify, FiniteSetTheorems, TLAPS

Tokens == [len : 0 .. BufLen, buf : Buffers]

MainPcs == {"open", "loop", "send", "recv", "drop", "join", "check", "exit"}

WorkerPcs == {"none", "recv", "hash", "send", "done"}

Workers == [pc : WorkerPcs, buf : Buffers \cup {None}, len : 0 .. BufLen]

\* A channel with one place.
Channel(S) == {<<>>} \cup {<<x>> : x \in S}

Jobs == [tool : Tools, size : ImageSizes, left : Int,
         stored : [{"MD5", "SHA1"} -> Stored], extra : SUBSET HashTypes]

\* The steps of the reading thread in which it has a worker at hand.
AtWorker == {"send", "recv", "drop", "join"}

TypeInv ==
    /\ job \in Jobs
    /\ main \in [pc : MainPcs, off : Nat, read : 0 .. BufLen, buf : Buffers, k : Nat]
    /\ main.off <= job.size
    /\ handles \in Seq(HashTypes)
    /\ full \in [HashTypes -> Channel(Tokens)]
    /\ empty \in [HashTypes -> Channel(Buffers)]
    /\ closed \subseteq HashTypes
    /\ worker \in [HashTypes -> Workers]
    /\ content \in [Buffers -> [1 .. BufLen -> Nat]]
    /\ digest \in [HashTypes -> Seq(Nat)]
    /\ exit \in {None, "SUCCESS", "FAILURE"}
    /\ exit # None <=> main.pc = "exit"
    /\ main.pc \in AtWorker => job.tool = "e01" /\ main.k \in 1 .. Len(handles)
    /\ main.pc = "check" => job.tool = "e01"

\* One worker for each hash type that is wanted, and none before the image is open.
HandlesInv ==
    /\ \A i, j \in 1 .. Len(handles) : handles[i] = handles[j] => i = j
    /\ main.pc = "open" => handles = <<>>
    /\ job.tool # "e01" => handles = <<>>
    /\ job.tool = "e01" /\ main.pc \notin {"open", "exit"} =>
        \A t \in HashTypes : t \in htypes <=> \E i \in 1 .. Len(handles) : handles[i] = t

Waits(t) == worker[t].pc = "recv" /\ worker[t].buf = None

Works(t, b) == worker[t].pc \in {"hash", "send"} /\ worker[t].buf = b

Queues(t, b) == full[t] # <<>> /\ full[t][1].buf = b

\* The worker has one buffer: waiting to be hashed, at hand, or waiting to go back.
One(t, b) ==
    /\ t \notin closed
    /\ \/ Queues(t, b) /\ Waits(t) /\ empty[t] = <<>>
       \/ full[t] = <<>> /\ Works(t, b) /\ empty[t] = <<>>
       \/ full[t] = <<>> /\ Waits(t) /\ empty[t] = <<b>>

\* The worker has both buffers, the old one further on than the new one.
Two(t, old, new) ==
    /\ t \notin closed
    /\ \/ Queues(t, new) /\ Works(t, old) /\ empty[t] = <<>>
       \/ Queues(t, new) /\ Waits(t) /\ empty[t] = <<old>>
       \/ full[t] = <<>> /\ Works(t, new) /\ empty[t] = <<old>>

\* The channels are dropped; the worker hashes what is left and ends.
Closing(t) ==
    /\ t \in closed
    /\ worker[t].pc \in {"recv", "hash", "send", "done"}
    /\ worker[t].pc \in {"hash", "send"} => worker[t].buf \in Buffers
    /\ worker[t].pc # "recv" => full[t] = <<>>

\* There is no such worker.
Absent(t) ==
    worker[t].pc = "none" /\ worker[t].buf = None /\ full[t] = <<>> /\ empty[t] = <<>>

Other == 1 - main.buf

\* What worker k has when the reading thread is where it is.
Place(k, t) ==
    /\ main.pc = "loop" => One(t, Other)
    /\ main.pc = "send" => IF k < main.k THEN Two(t, Other, main.buf) ELSE One(t, Other)
    /\ main.pc = "recv" => IF k < main.k THEN One(t, main.buf) ELSE Two(t, Other, main.buf)
    /\ main.pc = "drop" => IF k < main.k THEN Closing(t) /\ worker[t].pc = "done"
                                         ELSE One(t, Other)
    /\ main.pc = "join" => IF k <= main.k THEN Closing(t) ELSE One(t, Other)
    /\ main.pc = "join" /\ k < main.k => worker[t].pc = "done"
    /\ main.pc = "check" => Closing(t) /\ worker[t].pc = "done"

PlaceInv ==
    /\ \A k \in 1 .. Len(handles) : Place(k, handles[k])
    /\ \A t \in HashTypes : (\A k \in 1 .. Len(handles) : handles[k] # t) => Absent(t)

\* How much of the image was sent to worker k, and of that, what is not hashed yet.
Sent(k) ==
    main.off + IF main.pc = "recv" \/ (main.pc = "send" /\ k < main.k) THEN main.read ELSE 0

AtHand(t) == IF worker[t].pc = "hash" THEN worker[t].len ELSE 0

Queued(t) == IF full[t] = <<>> THEN 0 ELSE full[t][1].len

\* A buffer holds the n bytes of the image from off on.
Carries(b, off, n) == \A i \in 1 .. n : content[b][i] = off + i

Feed(t, sent) ==
    \E d \in Nat :
        /\ sent = d + AtHand(t) + Queued(t)
        /\ digest[t] = Bytes(d)
        /\ worker[t].pc = "hash" => Carries(worker[t].buf, d, AtHand(t))
        /\ full[t] # <<>> => Carries(full[t][1].buf, d + AtHand(t), Queued(t))

DigestInv ==
    /\ main.pc \in {"send", "recv"} =>
        Carries(main.buf, main.off, main.read) /\ main.off + main.read <= job.size
    /\ main.pc \in {"drop", "join", "check"} => main.off = job.size
    /\ job.tool = "e01" /\ main.pc # "exit" =>
        \A k \in 1 .. Len(handles) : Feed(handles[k], Sent(k))
    /\ job.tool # "e01" /\ main.pc = "loop" => digest["SHA1"] = Bytes(main.off)
    /\ job.tool = "e01" /\ main.pc = "open" =>
        /\ main.off = 0 /\ main.buf = 1 /\ closed = {}
        /\ \A t \in HashTypes : digest[t] = Bytes(0)

Inv ==
    /\ TypeInv /\ HandlesInv /\ PlaceInv /\ DigestInv
    /\ DigestsWhole /\ ExitTellsMismatch

-----------------------------------------------------------------------------
\* Bytes of an image.
LEMMA BytesType == \A n \in Nat : Bytes(n) \in Seq(Nat) /\ Len(Bytes(n)) = n
  BY DEF Bytes

\* Hashing the front of a buffer that carries what comes next extends the digest.
LEMMA BytesExtend ==
    ASSUME NEW c \in [1 .. BufLen -> Nat], NEW d \in Nat, NEW n \in 0 .. BufLen,
           \A i \in 1 .. n : c[i] = d + i
    PROVE  Bytes(d) \o SubSeq(c, 1, n) = Bytes(d + n)
<1>1. c \in Seq(Nat) /\ Len(c) = BufLen
  BY BufAssumption
<1>2. SubSeq(c, 1, n) \in Seq(Nat) /\ Len(SubSeq(c, 1, n)) = n
  BY <1>1, BufAssumption
<1>3. \A i \in 1 .. n : SubSeq(c, 1, n)[i] = d + i
  BY <1>1, BufAssumption
<1>. QED  BY <1>2, <1>3 DEF Bytes

\* Any order of a finite set lists each of its elements once.
LEMMA OrdersList ==
    ASSUME NEW S, IsFiniteSet(S), NEW order \in SetToSeqs(S)
    PROVE  /\ order \in Seq(S)
           /\ \A i, j \in 1 .. Len(order) : order[i] = order[j] => i = j
           /\ \A x \in S : \E i \in 1 .. Len(order) : order[i] = x
<1>. DEFINE D == 1 .. Cardinality(S)
<1>1. Cardinality(S) \in Nat
  BY FS_CardinalityType
<1>2. order \in [D -> S] /\ \A i, j \in D : i # j => order[i] # order[j]
  BY DEF SetToSeqs
<1>3. order \in Seq(S) /\ Len(order) = Cardinality(S)
  BY <1>1, <1>2
<1>4. order \in Injection(D, S)
  BY <1>2 DEF Injection, IsInjective
<1>5. Cardinality(D) = Cardinality(S)
  BY <1>1, FS_Interval
<1>6. order \in Surjection(D, S)
  BY <1>4, <1>5, FS_Injection
<1>. QED  BY <1>2, <1>3, <1>6 DEF Surjection

\* A channel is empty, or has one message, which is first.
LEMMA ChannelFacts ==
    ASSUME NEW S, NEW ch \in Channel(S)
    PROVE  /\ ch # <<>> => ch[1] \in S /\ ch = <<ch[1]>> /\ Head(ch) = ch[1] /\ Tail(ch) = <<>>
                           /\ Len(ch) = 1
           /\ Len(ch) < 1 => ch = <<>>
           /\ \A x : ch = <<>> => Append(ch, x) = <<x>> /\ Len(ch) = 0
           /\ DOMAIN ch \subseteq {1}
<1>1. CASE ch = <<>>
  BY <1>1
<1>2. CASE ch # <<>>
  <2>1. PICK x \in S : ch = <<x>>
    BY <1>2 DEF Channel
  <2>. QED  BY <1>2, <2>1
<1>. QED  BY <1>1, <1>2

\* Which hash types are wanted is decided by the job alone.
LEMMA WantedStays == ASSUME job'.stored = job.stored, job'.extra = job.extra PROVE htypes' = htypes
  BY DEF htypes

\* The tools start with every channel empty.
LEMMA InitInv == Init => Inv
<1>. SUFFICES ASSUME Init PROVE Inv
  OBVIOUS
<1>. USE BufAssumption
<1>1. TypeInv
  <2>1. job \in Jobs /\ job.size \in ImageSizes
    <3>. DEFINE Hashes == [{"MD5", "SHA1"} -> Stored]
                Extra == SUBSET HashTypes
    <3>1. job \in [tool : Tools, size : ImageSizes, left : {Paths},
                   stored : Hashes, extra : Extra]
      BY DEF Init
    <3>2. Paths \in Int
      OBVIOUS
    <3>. HIDE DEF Hashes, Extra
    <3>3. job \in [tool : Tools, size : ImageSizes, left : Int, stored : Hashes, extra : Extra]
      BY <3>1, <3>2
    <3>. QED  BY <3>1, <3>3 DEF Jobs, Hashes, Extra
  <2>2. 0 <= job.size
    <3>1. PICK n \in ImageSizes : n = job.size
      BY <2>1
    <3>2. n \in Nat
      OBVIOUS
    <3>. QED  BY <3>1, <3>2
  <2>3. /\ main \in [pc : MainPcs, off : Nat, read : 0 .. BufLen, buf : Buffers, k : Nat]
        /\ main.pc = "open" /\ main.off = 0
    BY DEF Init, MainPcs, Buffers
  <2>4. content \in [Buffers -> [1 .. BufLen -> Nat]]
    BY DEF Init
  <2>5. worker \in [HashTypes -> Workers]
    BY DEF Init, Workers, WorkerPcs
  <2>6. full \in [HashTypes -> Channel(Tokens)] /\ empty \in [HashTypes -> Channel(Buffers)]
    BY DEF Init, Channel
  <2>7. digest \in [HashTypes -> Seq(Nat)]
    BY DEF Init
  <2>. QED  BY <2>1, <2>2, <2>3, <2>4, <2>5, <2>6, <2>7, NoneAssumption
            DEF Init, TypeInv, AtWorker
<1>2. HandlesInv
  BY DEF Init, HandlesInv
<1>3. PlaceInv
  BY DEF Init, PlaceInv, Absent
<1>4. DigestInv
  <2>1. Bytes(0) = <<>>
    BY DEF Bytes
  <2>. QED  BY <2>1 DEF Init, DigestInv
<1>5. DigestsWhole /\ ExitTellsMismatch
  BY NoneAssumption DEF Init, DigestsWhole, ExitTellsMismatch
<1>. QED  BY <1>1, <1>2, <1>3, <1>4, <1>5 DEF Inv

-----------------------------------------------------------------------------
\* The steps of a worker.

\* A worker whose channels, buffer and digest are left alone keeps its place.
LEMMA PlaceFrame ==
    ASSUME NEW k, NEW u, main' = main, u \in closed' <=> u \in closed,
           full'[u] = full[u], empty'[u] = empty[u], worker'[u] = worker[u],
           Place(k, u)
    PROVE  Place(k, u)'
  BY DEF Place, One, Two, Closing, Queues, Works, Waits, Other

\* What a worker is fed is untouched by a step that leaves its buffers and what was sent.
LEMMA FeedKept ==
    ASSUME NEW k, NEW u, Sent(k)' = Sent(k), content' = content,
           full'[u] = full[u], worker'[u] = worker[u], digest'[u] = digest[u],
           Feed(u, Sent(k))
    PROVE  Feed(u, Sent(k))'
<1>1. AtHand(u)' = AtHand(u) /\ Queued(u)' = Queued(u)
  BY DEF AtHand, Queued
<1>2. ASSUME NEW b, NEW off, NEW n, Carries(b, off, n) PROVE Carries(b, off, n)'
  BY <1>2 DEF Carries
<1>. QED  BY <1>1, <1>2 DEF Feed

\* The same for a step that leaves the reading thread where it is.
LEMMA FeedFrame ==
    ASSUME NEW k, NEW u, main' = main, content' = content,
           full'[u] = full[u], worker'[u] = worker[u], digest'[u] = digest[u],
           Feed(u, Sent(k))
    PROVE  Feed(u, Sent(k))'
  BY DEF Feed, Sent, AtHand, Queued, Carries

\* A worker that takes a step is one that was started.
LEMMA WorkerStarted ==
    ASSUME Inv, NEW t \in HashTypes, Worker(t)
    PROVE  \E p \in 1 .. Len(handles) : handles[p] = t
  BY DEF Inv, PlaceInv, Absent, Worker, WorkerRecv, WorkerHash, WorkerSend

\* Which workers there are depends on the job and the reading thread alone.
LEMMA HandlesFrame ==
    ASSUME HandlesInv, UNCHANGED <<job, main, handles>>
    PROVE  HandlesInv'
<1>1. htypes' = htypes
  BY WantedStays
<1>. QED  BY <1>1 DEF HandlesInv

\* Two positions of the round are two workers.
LEMMA OtherWorker ==
    ASSUME HandlesInv, handles \in Seq(HashTypes), NEW p \in 1 .. Len(handles),
           NEW k \in 1 .. Len(handles), k # p
    PROVE  handles[k] \in HashTypes \ {handles[p]}
<1>1. handles[k] \in HashTypes
  OBVIOUS
<1>. QED  BY <1>1 DEF HandlesInv

\* A worker that is not there stays so if nothing of it moves.
LEMMA AbsentFrame ==
    ASSUME NEW u, Absent(u), full'[u] = full[u], empty'[u] = empty[u], worker'[u] = worker[u]
    PROVE  Absent(u)'
  BY DEF Absent

\* What a step of worker t leaves to show: the types, and its own place and digest.
LEMMA WorkerFrame ==
    ASSUME Inv, exit = None, NEW t \in HashTypes, NEW p \in 1 .. Len(handles), handles[p] = t,
           UNCHANGED <<job, main, handles, closed, content, exit>>,
           full' \in [HashTypes -> Channel(Tokens)], empty' \in [HashTypes -> Channel(Buffers)],
           worker' \in [HashTypes -> Workers], digest' \in [HashTypes -> Seq(Nat)],
           \A u \in HashTypes \ {t} : /\ full'[u] = full[u] /\ empty'[u] = empty[u]
                                      /\ worker'[u] = worker[u] /\ digest'[u] = digest[u],
           Place(p, t)', Feed(t, Sent(p))'
    PROVE  Inv'
<1>1. TypeInv'
  BY DEF Inv, TypeInv, AtWorker
<1>0. handles \in Seq(HashTypes) /\ main.pc # "exit"
  BY DEF Inv, TypeInv
<1>2. HandlesInv'
  <2>1. HandlesInv
    BY DEF Inv
  <2>. QED  BY <2>1, HandlesFrame
<1>3. ASSUME NEW k \in 1 .. Len(handles), k # p
      PROVE  handles[k] \in HashTypes \ {t}
  <2>1. HandlesInv
    BY DEF Inv
  <2>. QED  BY <1>0, <1>3, <2>1, OtherWorker
<1>4. PlaceInv'
  <2>1. ASSUME NEW k \in 1 .. Len(handles) PROVE Place(k, handles[k])'
    <3>1. CASE k = p
      BY <3>1
    <3>2. CASE k # p
      BY <3>2, <1>3, PlaceFrame DEF Inv, PlaceInv
    <3>. QED  BY <3>1, <3>2
  <2>2. ASSUME NEW u \in HashTypes, \A k \in 1 .. Len(handles) : handles[k] # u
        PROVE  Absent(u)'
    <3>1. u # t
      BY <2>2
    <3>2. Absent(u)
      BY <2>2 DEF Inv, PlaceInv
    <3>. QED  BY <2>2, <3>1, <3>2, AbsentFrame
  <2>. QED  BY <2>1, <2>2 DEF PlaceInv
<1>5. DigestInv'
  <2>1. ASSUME NEW k \in 1 .. Len(handles), job.tool = "e01" PROVE Feed(handles[k], Sent(k))'
    <3>1. CASE k = p
      BY <3>1
    <3>2. CASE k # p
      BY <3>2, <2>1, <1>0, <1>3, FeedFrame DEF Inv, DigestInv
    <3>. QED  BY <3>1, <3>2
  <2>2. job.tool = "e01" /\ main.pc # "open"
    BY <1>0 DEF Inv, HandlesInv
  <2>. QED  BY <2>1, <2>2 DEF Inv, DigestInv, Carries
<1>6. DigestsWhole' /\ ExitTellsMismatch'
  BY <1>0, NoneAssumption DEF DigestsWhole, ExitTellsMismatch
<1>. QED  BY <1>1, <1>2, <1>4, <1>5, <1>6 DEF Inv

\* A worker takes a full buffer, or sees that no other will come.
LEMMA WorkerRecvInv ==
    ASSUME Inv, exit = None, NEW t \in HashTypes, WorkerRecv(t)
    PROVE  Inv'
<1>1. PICK p \in 1 .. Len(handles) : handles[p] = t
  BY WorkerStarted DEF Worker
<1>2. UNCHANGED <<job, main, handles, empty, closed, content, digest, exit>>
  BY DEF WorkerRecv
<1>3. TypeInv /\ Place(p, t) /\ Feed(t, Sent(p)) /\ worker[t].pc = "recv"
      /\ main.pc \notin {"open", "exit"}
  BY <1>1 DEF Inv, PlaceInv, DigestInv, HandlesInv, TypeInv, WorkerRecv
<1>4. full[t] \in Channel(Tokens) /\ worker[t] \in Workers
  BY <1>3 DEF TypeInv
<1>5. CASE full[t] # <<>>
  <2>1. /\ full[t][1] \in Tokens /\ Head(full[t]) = full[t][1] /\ Tail(full[t]) = <<>>
    BY <1>4, <1>5, ChannelFacts
  <2>2. /\ worker' = [worker EXCEPT ![t] = [pc |-> "hash", buf |-> full[t][1].buf,
                                            len |-> full[t][1].len]]
        /\ full' = [full EXCEPT ![t] = <<>>]
    BY <1>5, <2>1 DEF WorkerRecv
  <2>3. /\ worker'[t] = [pc |-> "hash", buf |-> full[t][1].buf, len |-> full[t][1].len]
        /\ full'[t] = <<>>
    BY <2>2, <1>3 DEF TypeInv
  <2>4. worker' \in [HashTypes -> Workers] /\ full' \in [HashTypes -> Channel(Tokens)]
    BY <2>1, <2>2, <1>3 DEF TypeInv, Workers, WorkerPcs, Tokens, Channel
  <2>5. Place(p, t)'
    <3>1. full[t][1].buf \in Buffers
      BY <2>1 DEF Tokens
    <3>. QED  BY <1>2, <1>3, <1>5, <2>3, <3>1
              DEF Place, One, Two, Closing, Queues, Works, Waits, Other
  <2>6. Feed(t, Sent(p))'
    <3>1. PICK d \in Nat :
            /\ Sent(p) = d + Queued(t)
            /\ digest[t] = Bytes(d)
            /\ Carries(full[t][1].buf, d, Queued(t))
      <4>1. AtHand(t) = 0 /\ Queued(t) \in Nat
        BY <1>3, <1>5, <2>1 DEF AtHand, Queued, Tokens
      <4>. QED  BY <1>3, <1>5, <4>1 DEF Feed
    <3>2. AtHand(t)' = Queued(t) /\ Queued(t)' = 0 /\ Sent(p)' = Sent(p) /\ Queued(t) \in Nat
      BY <1>2, <1>5, <2>1, <2>3 DEF AtHand, Queued, Sent, Tokens
    <3>3. Carries(worker[t].buf, d, AtHand(t))'
      BY <3>1, <3>2, <1>2, <2>3 DEF Carries
    <3>. QED  BY <3>1, <3>2, <3>3, <1>2, <2>3 DEF Feed
  <2>. QED  BY <1>1, <1>2, <1>3, <2>2, <2>4, <2>5, <2>6, WorkerFrame DEF TypeInv
<1>6. CASE full[t] = <<>>
  <2>1. worker' = [worker EXCEPT ![t].pc = "done"] /\ full' = full /\ t \in closed
    BY <1>6 DEF WorkerRecv
  <2>2. worker' \in [HashTypes -> Workers] /\ worker'[t] = [worker[t] EXCEPT !.pc = "done"]
    BY <2>1, <1>3, <1>4 DEF TypeInv, Workers, WorkerPcs
  <2>3. worker'[t].pc = "done" /\ worker'[t].buf = worker[t].buf
    BY <2>2, <1>4 DEF Workers
  <2>4. Place(p, t)'
    BY <1>2, <1>3, <1>6, <2>1, <2>3 DEF Place, One, Two, Closing
  <2>5. Feed(t, Sent(p))'
    BY <1>2, <1>3, <1>6, <2>1, <2>3 DEF Feed, AtHand, Queued, Sent, Carries
  <2>. QED  BY <1>1, <1>2, <1>3, <2>1, <2>2, <2>4, <2>5, WorkerFrame DEF TypeInv
<1>. QED  BY <1>5, <1>6

\* A worker hashes the front of the buffer at hand, which is what comes next.
LEMMA WorkerHashInv ==
    ASSUME Inv, exit = None, NEW t \in HashTypes, WorkerHash(t)
    PROVE  Inv'
<1>1. PICK p \in 1 .. Len(handles) : handles[p] = t
  BY WorkerStarted DEF Worker
<1>2. UNCHANGED <<job, main, handles, full, empty, closed, content, exit>>
  BY DEF WorkerHash
<1>3. TypeInv /\ Place(p, t) /\ Feed(t, Sent(p)) /\ worker[t].pc = "hash"
      /\ main.pc \notin {"open", "exit"}
  BY <1>1 DEF Inv, PlaceInv, DigestInv, HandlesInv, TypeInv, WorkerHash
<1>4. full[t] \in Channel(Tokens) /\ worker[t] \in Workers
  BY <1>3 DEF TypeInv
<1>5. worker' \in [HashTypes -> Workers] /\ worker'[t] = [worker[t] EXCEPT !.pc = "send"]
      /\ \A u \in HashTypes \ {t} : worker'[u] = worker[u]
  BY <1>3, <1>4 DEF TypeInv, Workers, WorkerPcs, WorkerHash
<1>6. worker'[t].pc = "send" /\ worker'[t].buf = worker[t].buf
  BY <1>5, <1>4 DEF Workers
<1>7. Place(p, t)'
  BY <1>2, <1>3, <1>6 DEF Place, One, Two, Closing, Queues, Works, Waits, Other
<1>8. AtHand(t) \in 0 .. BufLen /\ AtHand(t) = worker[t].len /\ Queued(t) \in Nat
  <2>1. full[t] # <<>> => full[t][1] \in Tokens
    BY <1>4, ChannelFacts
  <2>. QED  BY <1>3, <1>4, <2>1, BufAssumption DEF AtHand, Queued, Tokens, Workers
<1>9. PICK d \in Nat :
        /\ Sent(p) = d + AtHand(t) + Queued(t)
        /\ digest[t] = Bytes(d)
        /\ Carries(worker[t].buf, d, AtHand(t))
        /\ full[t] # <<>> => Carries(full[t][1].buf, d + AtHand(t), Queued(t))
  BY <1>3 DEF Feed
<1>10. worker[t].buf \in Buffers
  <2>1. job.tool = "e01" /\ main.pc \in {"loop", "send", "recv", "drop", "join", "check"}
    BY <1>1, <1>3 DEF Inv, HandlesInv, TypeInv, MainPcs
  <2>2. main.buf \in Buffers /\ Other \in Buffers
    BY <1>3 DEF TypeInv, Buffers, Other
  <2>3. CASE t \notin closed
    BY <1>3, <2>1, <2>2, <2>3 DEF Place, One, Two, Works, Waits, Closing
  <2>4. CASE t \in closed
    BY <1>3, <1>9, <2>4, <2>1 DEF Place, One, Two, Works, Waits, Closing
  <2>. QED  BY <2>3, <2>4
<1>11. digest'[t] = Bytes(d + AtHand(t))
  <2>1. content[worker[t].buf] \in [1 .. BufLen -> Nat]
    BY <1>3, <1>10 DEF TypeInv
  <2>2. \A i \in 1 .. AtHand(t) : content[worker[t].buf][i] = d + i
    BY <1>9 DEF Carries
  <2>3. Bytes(d) \o SubSeq(content[worker[t].buf], 1, AtHand(t)) = Bytes(d + AtHand(t))
    BY <1>8, <2>1, <2>2, BytesExtend
  <2>. QED  BY <1>3, <1>8, <1>9, <2>3 DEF WorkerHash, Fed, TypeInv
<1>12. digest' \in [HashTypes -> Seq(Nat)] /\ \A u \in HashTypes \ {t} : digest'[u] = digest[u]
  <2>1. d + AtHand(t) \in Nat
    BY <1>8
  <2>2. digest'[t] \in Seq(Nat)
    BY <1>11, <2>1, BytesType
  <2>. QED  BY <1>3, <2>2 DEF WorkerHash, TypeInv
<1>13. Feed(t, Sent(p))'
  <2>1. AtHand(t)' = 0 /\ Queued(t)' = Queued(t) /\ Sent(p)' = Sent(p)
    BY <1>2, <1>6 DEF AtHand, Queued, Sent
  <2>2. PICK e \in Nat : e = d + AtHand(t)
    BY <1>8
  <2>3. full[t] # <<>> => Carries(full[t][1].buf, e, Queued(t))'
    BY <1>2, <1>9, <2>1, <2>2 DEF Carries
  <2>4. AtHand(t)' = 0 /\ Sent(p)' = e + Queued(t) /\ e + 0 = e
    BY <2>1, <2>2, <1>9
  <2>. QED  BY <1>2, <1>6, <1>8, <1>11, <2>1, <2>2, <2>3, <2>4 DEF Feed
<1>. QED  BY <1>1, <1>2, <1>3, <1>5, <1>7, <1>12, <1>13, WorkerFrame DEF TypeInv

\* A worker gives its buffer back, or finds the channel gone and ends.
LEMMA WorkerSendInv ==
    ASSUME Inv, exit = None, NEW t \in HashTypes, WorkerSend(t)
    PROVE  Inv'
<1>1. PICK p \in 1 .. Len(handles) : handles[p] = t
  BY WorkerStarted DEF Worker
<1>2. UNCHANGED <<job, main, handles, full, closed, content, digest, exit>>
  BY DEF WorkerSend
<1>3. TypeInv /\ Place(p, t) /\ Feed(t, Sent(p)) /\ worker[t].pc = "send"
      /\ main.pc \notin {"open", "exit"} /\ job.tool = "e01"
  BY <1>1 DEF Inv, PlaceInv, DigestInv, HandlesInv, TypeInv, WorkerSend
<1>4. empty[t] \in Channel(Buffers) /\ worker[t] \in Workers
  BY <1>3 DEF TypeInv
<1>5. ASSUME worker'[t].pc \in {"recv", "done"}
      PROVE  Feed(t, Sent(p))'
  BY <1>2, <1>3, <1>5 DEF Feed, AtHand, Queued, Sent, Carries
<1>6. CASE t \notin closed
  <2>1. /\ empty[t] = <<>> /\ empty' = [empty EXCEPT ![t] = <<worker[t].buf>>]
        /\ worker' = [worker EXCEPT ![t] = [pc |-> "recv", buf |-> None, len |-> 0]]
    BY <1>4, <1>6, ChannelFacts DEF WorkerSend
  <2>2. worker[t].buf \in Buffers
    <3>1. main.pc \in {"loop", "send", "recv", "drop", "join", "check"}
      BY <1>3 DEF TypeInv, MainPcs
    <3>2. main.buf \in Buffers /\ Other \in Buffers
      BY <1>3 DEF TypeInv, Buffers, Other
    <3>. QED  BY <1>3, <1>6, <3>1, <3>2 DEF Place, One, Two, Works, Waits, Closing
  <2>3. empty'[t] = <<worker[t].buf>> /\ worker'[t] = [pc |-> "recv", buf |-> None, len |-> 0]
    BY <2>1, <1>3 DEF TypeInv
  <2>4. worker' \in [HashTypes -> Workers]
    BY <2>1, <1>3, BufAssumption DEF TypeInv, Workers, WorkerPcs
  <2>5. empty' \in [HashTypes -> Channel(Buffers)]
    BY <2>1, <2>2, <1>3 DEF TypeInv, Channel
  <2>6. Place(p, t)'
    BY <1>2, <1>3, <1>6, <2>1, <2>3 DEF Place, One, Two, Closing, Queues, Works, Waits, Other
  <2>. QED  BY <1>1, <1>2, <1>3, <1>5, <2>1, <2>3, <2>4, <2>5, <2>6, WorkerFrame DEF TypeInv
<1>7. CASE t \in closed
  <2>1. /\ empty' = empty
        /\ worker' = [worker EXCEPT ![t] = [pc |-> "done", buf |-> None, len |-> 0]]
    BY <1>7 DEF WorkerSend
  <2>2. worker'[t] = [pc |-> "done", buf |-> None, len |-> 0]
    BY <2>1, <1>3 DEF TypeInv
  <2>3. worker' \in [HashTypes -> Workers]
    BY <2>1, <1>3, BufAssumption DEF TypeInv, Workers, WorkerPcs
  <2>4. Place(p, t)'
    BY <1>2, <1>3, <1>7, <2>1, <2>2 DEF Place, One, Two, Closing, Queues, Works, Waits, Other
  <2>. QED  BY <1>1, <1>2, <1>3, <1>5, <2>1, <2>2, <2>3, <2>4, WorkerFrame DEF TypeInv
<1>. QED  BY <1>6, <1>7

-----------------------------------------------------------------------------
\* The steps of the reading thread.

\* What is left to show of a step that ends the tool.
LEMMA ExitInv ==
    ASSUME Inv, NEW code \in {"SUCCESS", "FAILURE"}, Exit(code),
           job' \in Jobs, job'.tool = job.tool, job'.size = job.size,
           UNCHANGED <<handles, full, empty, closed, worker, content, digest>>,
           DigestsWhole', ExitTellsMismatch'
    PROVE  Inv'
<1>1. main' = [main EXCEPT !.pc = "exit", !.k = 1] /\ exit' = code
  BY DEF Exit, Goto
<1>2. /\ main' \in [pc : MainPcs, off : Nat, read : 0 .. BufLen, buf : Buffers, k : Nat]
      /\ main'.pc = "exit" /\ main'.off = main.off
  BY <1>1 DEF Inv, TypeInv, MainPcs
<1>3. TypeInv'
  BY <1>1, <1>2, NoneAssumption DEF Inv, TypeInv, AtWorker
<1>4. HandlesInv'
  BY <1>2 DEF Inv, HandlesInv
<1>5. PlaceInv'
  BY <1>2 DEF Inv, PlaceInv, Place, Absent
<1>6. DigestInv'
  BY <1>2 DEF DigestInv
<1>. QED  BY <1>3, <1>4, <1>5, <1>6 DEF Inv

\* The reader or the image cannot be opened: nothing was read.
LEMMA OpenFailsInv == ASSUME Inv, exit = None, OpenFails PROVE Inv'
<1>1. /\ main.pc = "open" /\ Exit("FAILURE") /\ handles = <<>>
      /\ UNCHANGED <<job, handles, full, empty, closed, worker, content, digest>>
  BY DEF OpenFails, Inv, HandlesInv
<1>2. exit' = "FAILURE" /\ main'.off = main.off
  BY <1>1 DEF Exit, Goto, Inv, TypeInv
<1>3. DigestsWhole'
  BY <1>2 DEF DigestsWhole
<1>4. ExitTellsMismatch'
  BY <1>1, <1>2 DEF ExitTellsMismatch, Inv, DigestInv
<1>. QED  BY <1>1, <1>3, <1>4, ExitInv DEF Inv, TypeInv

\* A read fails: the image is not read to its end.
LEMMA ReadFailsInv == ASSUME Inv, exit = None, ReadFails PROVE Inv'
<1>1. /\ main.pc = "loop" /\ Exit("FAILURE") /\ main.off < job.size
      /\ UNCHANGED <<job, handles, full, empty, closed, worker, content, digest>>
  BY DEF ReadFails
<1>2. exit' = "FAILURE" /\ main'.off = main.off
  BY <1>1 DEF Exit, Goto, Inv, TypeInv
<1>3. DigestsWhole'
  BY <1>2 DEF DigestsWhole
<1>4. main.off # job.size
  BY <1>1, BufAssumption DEF Inv, TypeInv, Jobs
<1>5. ExitTellsMismatch'
  BY <1>1, <1>2, <1>4 DEF ExitTellsMismatch
<1>. QED  BY <1>1, <1>3, <1>5, ExitInv DEF Inv, TypeInv

\* Every worker has ended with the whole image hashed, and the stored hashes are compared.
LEMMA CheckHashesInv == ASSUME Inv, exit = None, CheckHashes PROVE Inv'
<1>1. /\ main.pc = "check" /\ job.tool = "e01" /\ main.off = job.size /\ job \in Jobs
      /\ UNCHANGED <<job, handles, full, empty, closed, worker, content, digest>>
  BY DEF CheckHashes, Inv, TypeInv, DigestInv
<1>2. \A t \in htypes : digest[t] = Bytes(job.size)
  <2>. SUFFICES ASSUME NEW t \in htypes PROVE digest[t] = Bytes(job.size)
    OBVIOUS
  <2>1. t \in HashTypes
    BY <1>1, HashAssumption DEF htypes, Jobs
  <2>2. PICK k \in 1 .. Len(handles) : handles[k] = t
    BY <1>1, <2>1 DEF Inv, HandlesInv
  <2>3. worker[t].pc = "done" /\ full[t] = <<>>
    BY <1>1, <2>2 DEF Inv, PlaceInv, Place, Closing
  <2>4. Feed(t, main.off + 0)
    BY <1>1, <2>2 DEF Inv, DigestInv, Sent
  <2>5. PICK d \in Nat : main.off + 0 = d + 0 + 0 /\ digest[t] = Bytes(d)
    BY <2>3, <2>4 DEF Feed, AtHand, Queued
  <2>. QED  BY <1>1, <2>5 DEF Inv, TypeInv
<1>3. \A t \in {"MD5", "SHA1"} : t \in Range(handles) <=> t \in htypes
  <2>. SUFFICES ASSUME NEW t \in {"MD5", "SHA1"} PROVE t \in Range(handles) <=> t \in htypes
    OBVIOUS
  <2>1. t \in htypes <=> \E i \in 1 .. Len(handles) : handles[i] = t
    BY <1>1, HashAssumption DEF Inv, HandlesInv
  <2>2. DOMAIN handles = 1 .. Len(handles)
    BY DEF Inv, TypeInv
  <2>. QED  BY <2>1, <2>2 DEF Range
<1>. DEFINE stored(t) == job.stored[t]
            code == IF Combine(check_hash("MD5"), check_hash("SHA1")) = "false"
                      THEN "FAILURE" ELSE "SUCCESS"
<1>4. job.stored \in [{"MD5", "SHA1"} -> Stored]
  BY <1>1 DEF Jobs
<1>5. ASSUME NEW t \in {"MD5", "SHA1"}
      PROVE  check_hash(t) = "false" <=> job.stored[t] = "other"
  <2>1. job.stored[t] \in {None, "same", "other"} /\ (job.stored[t] # None => t \in htypes)
    BY <1>4 DEF Stored, htypes
  <2>2. t \in htypes => Hash(t) = "same"
    BY <1>2 DEF Hash
  <2>. QED  BY <2>1, <2>2, <1>3, NoneAssumption DEF check_hash
<1>6. \A t \in {"MD5", "SHA1"} : check_hash(t) \in {None, "true", "false"}
  BY DEF check_hash
<1>7. code = "FAILURE" <=> \E t \in {"MD5", "SHA1"} : job.stored[t] = "other"
  BY <1>5, <1>6, NoneAssumption DEF Combine
<1>8. /\ Exit(code) /\ code \in {"SUCCESS", "FAILURE"}
  BY DEF CheckHashes
<1>. HIDE DEF code
<1>9. exit' = code
  BY <1>8 DEF Exit
<1>10. DigestsWhole'
  BY <1>1, <1>2, WantedStays DEF DigestsWhole
<1>11. ExitTellsMismatch'
  BY <1>1, <1>4, <1>7, <1>9 DEF ExitTellsMismatch
<1>. QED  BY <1>1, <1>8, <1>10, <1>11, ExitInv

\* The image is opened and every worker gets the same first buffer.
LEMMA OpenInv == ASSUME Inv, exit = None, Open PROVE Inv'
<1>1. /\ main.pc = "open" /\ job.tool = "e01" /\ job \in Jobs
      /\ UNCHANGED <<job, full, closed, content, digest, exit>>
      /\ main' = [main EXCEPT !.pc = "loop", !.k = 1]
  BY DEF Open, Goto, Inv, TypeInv
<1>2. /\ main' \in [pc : MainPcs, off : Nat, read : 0 .. BufLen, buf : Buffers, k : Nat]
      /\ main'.pc = "loop" /\ main'.off = 0 /\ main'.buf = 1 /\ main.buf = 1
  BY <1>1 DEF Inv, TypeInv, MainPcs, DigestInv
<1>3. htypes \subseteq HashTypes /\ IsFiniteSet(htypes)
  <2>1. htypes \subseteq HashTypes
    BY <1>1, HashAssumption DEF htypes, Jobs
  <2>. QED  BY <2>1, HashAssumption, FS_Subset
<1>4. /\ handles' \in Seq(htypes)
      /\ \A i, j \in 1 .. Len(handles') : handles'[i] = handles'[j] => i = j
      /\ \A x \in htypes : \E i \in 1 .. Len(handles') : handles'[i] = x
  BY <1>3, OrdersList DEF Open
<1>5. handles' \in Seq(HashTypes) /\ \A k \in 1 .. Len(handles') : handles'[k] \in htypes
  BY <1>3, <1>4
<1>6. \A t \in HashTypes : Absent(t) /\ t \notin closed /\ worker[t] \in Workers
  BY <1>1 DEF Inv, PlaceInv, HandlesInv, DigestInv, TypeInv
<1>7. /\ empty' = [t \in HashTypes |-> IF t \in htypes THEN <<0>> ELSE <<>>]
      /\ \A t \in HashTypes :
           worker'[t] = [worker[t] EXCEPT !.pc = IF t \in htypes THEN "recv" ELSE "none"]
      /\ DOMAIN worker' = HashTypes /\ worker' = [t \in HashTypes |-> worker'[t]]
  BY DEF Open
<1>8. ASSUME NEW t \in HashTypes
      PROVE  /\ worker'[t] \in Workers /\ worker'[t].buf = None
             /\ worker'[t].pc = IF t \in htypes THEN "recv" ELSE "none"
  BY <1>6, <1>7 DEF Workers, WorkerPcs, Absent
<1>9. TypeInv'
  <2>1. empty' \in [HashTypes -> Channel(Buffers)]
    BY <1>7 DEF Channel, Buffers
  <2>2. worker' \in [HashTypes -> Workers]
    BY <1>7, <1>8
  <2>3. 0 <= job.size
    BY <1>1 DEF Inv, TypeInv, DigestInv
  <2>. QED  BY <1>1, <1>2, <1>5, <2>1, <2>2, <2>3 DEF Inv, TypeInv, AtWorker
<1>10. htypes' = htypes
  BY <1>1, WantedStays
<1>11. HandlesInv'
  BY <1>1, <1>2, <1>4, <1>5, <1>10 DEF HandlesInv
<1>12. PlaceInv'
  <2>1. ASSUME NEW k \in 1 .. Len(handles') PROVE Place(k, handles[k])'
    <3>1. PICK t \in HashTypes : t = handles'[k] /\ t \in htypes
      BY <1>3, <1>5
    <3>2. full'[t] = <<>> /\ empty'[t] = <<0>> /\ worker'[t].pc = "recv"
          /\ worker'[t].buf = None /\ t \notin closed' /\ Other' = 0
      BY <1>1, <1>2, <1>6, <1>7, <1>8, <3>1 DEF Absent, Other
    <3>3. Place(k, t)'
      BY <1>2, <3>2 DEF Place, One, Waits
    <3>. QED  BY <3>1, <3>3
  <2>2. ASSUME NEW t \in HashTypes, \A k \in 1 .. Len(handles') : handles'[k] # t
        PROVE  Absent(t)'
    <3>1. t \notin htypes
      BY <1>4, <2>2
    <3>. QED  BY <1>1, <1>6, <1>7, <1>8, <3>1 DEF Absent
  <2>. QED  BY <2>1, <2>2 DEF PlaceInv
<1>13. DigestInv'
  <2>1. ASSUME NEW k \in 1 .. Len(handles') PROVE Feed(handles[k], Sent(k))'
    <3>1. PICK t \in HashTypes : t = handles'[k] /\ t \in htypes
      BY <1>3, <1>5
    <3>2. full'[t] = <<>> /\ worker'[t].pc = "recv" /\ digest'[t] = Bytes(0)
      BY <1>1, <1>6, <1>8, <3>1 DEF Absent, Inv, DigestInv
    <3>3. Sent(k)' = 0 /\ AtHand(t)' = 0 /\ Queued(t)' = 0
      BY <1>2, <3>2 DEF Sent, AtHand, Queued
    <3>4. Feed(t, Sent(k))'
      BY <3>2, <3>3 DEF Feed
    <3>. QED  BY <3>1, <3>4
  <2>. QED  BY <1>1, <1>2, <2>1 DEF DigestInv
<1>14. DigestsWhole' /\ ExitTellsMismatch'
  BY <1>1, NoneAssumption DEF DigestsWhole, ExitTellsMismatch
<1>. QED  BY <1>9, <1>11, <1>12, <1>13, <1>14 DEF Inv

\* What a read brings: what is left of the image, as far as the buffer goes.
LEMMA ReadLenFacts ==
    ASSUME TypeInv, main.off < job.size
    PROVE  /\ ReadLen \in 0 .. BufLen /\ main.off + ReadLen <= job.size
           /\ Filled(main.buf) \in [1 .. BufLen -> Nat]
           /\ \A i \in 1 .. ReadLen : Filled(main.buf)[i] = main.off + i
<1>1. job.size \in Nat /\ main.off \in Nat /\ content[main.buf] \in [1 .. BufLen -> Nat]
  BY BufAssumption DEF TypeInv, Jobs
<1>2. ReadLen \in 0 .. BufLen /\ main.off + ReadLen <= job.size
  BY <1>1, BufAssumption DEF ReadLen
<1>. HIDE DEF ReadLen
<1>. QED  BY <1>1, <1>2, BufAssumption DEF Filled

\* The reading thread fills its buffer, which no worker has.
LEMMA ReadImageInv == ASSUME Inv, exit = None, ReadImage PROVE Inv'
<1>1. /\ main.pc = "loop" /\ job.tool = "e01" /\ job \in Jobs /\ main.off < job.size
      /\ UNCHANGED <<job, handles, full, empty, closed, worker, digest, exit>>
      /\ content' = [content EXCEPT ![main.buf] = Filled(main.buf)]
      /\ main' = [main EXCEPT !.pc = IF handles = <<>> THEN "loop" ELSE "send",
                              !.off = IF handles = <<>> THEN @ + ReadLen ELSE @,
                              !.read = ReadLen, !.k = 1]
  BY DEF ReadImage, Inv, TypeInv
<1>2. /\ ReadLen \in 0 .. BufLen /\ main.off + ReadLen <= job.size
      /\ Filled(main.buf) \in [1 .. BufLen -> Nat]
      /\ \A i \in 1 .. ReadLen : Filled(main.buf)[i] = main.off + i
  BY <1>1, ReadLenFacts DEF Inv
<1>. HIDE DEF ReadLen
<1>3. PICK r \in 0 .. BufLen : r = ReadLen
  BY <1>2
<1>4. /\ main' \in [pc : MainPcs, off : Nat, read : 0 .. BufLen, buf : Buffers, k : Nat]
      /\ main'.pc = IF handles = <<>> THEN "loop" ELSE "send"
      /\ main'.off = IF handles = <<>> THEN main.off + r ELSE main.off
      /\ main'.read = r /\ main'.buf = main.buf /\ main'.k = 1
  <2>1. main \in [pc : MainPcs, off : Nat, read : 0 .. BufLen, buf : Buffers, k : Nat]
    BY DEF Inv, TypeInv
  <2>2. main.off + r \in Nat
    BY <2>1, BufAssumption
  <2>. HIDE DEF MainPcs, Buffers
  <2>3. CASE handles = <<>>
    <3>1. main' = [main EXCEPT !.pc = "loop", !.off = main.off + r, !.read = r, !.k = 1]
      BY <1>1, <1>3, <2>3
    <3>. QED  BY <2>1, <2>2, <2>3, <3>1 DEF MainPcs
  <2>4. CASE handles # <<>>
    <3>1. main' = [main EXCEPT !.pc = "send", !.off = main.off, !.read = r, !.k = 1]
      BY <1>1, <1>3, <2>4
    <3>. QED  BY <2>1, <2>4, <3>1 DEF MainPcs
  <2>. QED  BY <2>3, <2>4
<1>5. main'.off <= job.size
  BY <1>2, <1>3, <1>4 DEF Inv, TypeInv
<1>6. handles # <<>> => 1 \in 1 .. Len(handles)
  BY DEF Inv, TypeInv
<1>7. content' \in [Buffers -> [1 .. BufLen -> Nat]] /\ content'[main.buf] = Filled(main.buf)
      /\ content'[Other] = content[Other]
  BY <1>1, <1>2 DEF Inv, TypeInv, Other, Buffers
<1>8. TypeInv'
  BY <1>1, <1>4, <1>5, <1>6, <1>7 DEF Inv, TypeInv, AtWorker
<1>9. HandlesInv'
  BY <1>1, <1>4, WantedStays DEF Inv, HandlesInv
<1>10. ASSUME NEW k \in 1 .. Len(handles)
       PROVE  One(handles[k], Other) /\ Feed(handles[k], main.off + 0) /\ handles # <<>>
  BY <1>1 DEF Inv, PlaceInv, Place, DigestInv, Sent
<1>11. PlaceInv'
  <2>1. ASSUME NEW k \in 1 .. Len(handles) PROVE Place(k, handles[k])'
    BY <1>1, <1>4, <1>10 DEF Place, One, Other, Queues, Works, Waits
  <2>. QED  BY <1>1, <2>1 DEF Inv, PlaceInv, Absent
<1>12. DigestInv'
  <2>1. ASSUME NEW k \in 1 .. Len(handles) PROVE Feed(handles[k], Sent(k))'
    <3>1. PICK t : t = handles[k] /\ One(t, Other) /\ Feed(t, main.off + 0)
      BY <1>10
    <3>2. Sent(k)' = main.off + 0 /\ AtHand(t)' = AtHand(t) /\ Queued(t)' = Queued(t)
      BY <1>1, <1>4, <1>10 DEF Sent, AtHand, Queued
    <3>3. /\ worker[t].pc = "hash" => worker[t].buf = Other
          /\ full[t] # <<>> => full[t][1].buf = Other
      BY <3>1 DEF One, Queues, Works, Waits
    <3>4. ASSUME NEW d, NEW n, Carries(Other, d, n)
          PROVE  \A i \in 1 .. n : content'[Other][i] = d + i
      BY <1>7, <3>4 DEF Carries
    <3>5. PICK d \in Nat :
            /\ main.off + 0 = d + AtHand(t) + Queued(t)
            /\ digest[t] = Bytes(d)
            /\ worker[t].pc = "hash" => Carries(worker[t].buf, d, AtHand(t))
            /\ full[t] # <<>> => Carries(full[t][1].buf, d + AtHand(t), Queued(t))
      BY <3>1 DEF Feed
    <3>6. worker[t].pc = "hash" => Carries(worker[t].buf, d, AtHand(t))'
      BY <1>1, <3>2, <3>3, <3>4, <3>5 DEF Carries
    <3>7. full[t] # <<>> => Carries(full[t][1].buf, d + AtHand(t), Queued(t))'
      BY <1>1, <3>2, <3>3, <3>4, <3>5 DEF Carries
    <3>8. Feed(t, Sent(k))'
      BY <1>1, <3>2, <3>5, <3>6, <3>7 DEF Feed
    <3>. QED  BY <1>1, <3>1, <3>8
  <2>2. Carries(main.buf, main.off, main.read)' \/ handles = <<>>
    BY <1>2, <1>3, <1>4, <1>7 DEF Carries
  <2>. QED  BY <1>1, <1>2, <1>3, <1>4, <2>1, <2>2 DEF DigestInv
<1>13. DigestsWhole' /\ ExitTellsMismatch'
  BY <1>1, NoneAssumption DEF DigestsWhole, ExitTellsMismatch
<1>. QED  BY <1>8, <1>9, <1>11, <1>12, <1>13 DEF Inv

\* The reading thread has worker main.k at hand, and the others are not it.
LEMMA AtHandFacts ==
    ASSUME Inv, main.pc \in AtWorker
    PROVE  /\ main.k \in 1 .. Len(handles) /\ handles[main.k] \in HashTypes
           /\ Len(handles) \in Nat /\ job.tool = "e01" /\ handles # <<>>
           /\ \A k \in 1 .. Len(handles) : handles[k] \in HashTypes
           /\ \A k \in 1 .. Len(handles) : k # main.k => handles[k] # handles[main.k]
           /\ \A k \in 1 .. Len(handles) : Place(k, handles[k]) /\ Feed(handles[k], Sent(k))
<1>1. handles \in Seq(HashTypes) /\ main.k \in 1 .. Len(handles) /\ job.tool = "e01"
      /\ main.pc # "exit"
  BY DEF Inv, TypeInv, AtWorker
<1>2. \A k \in 1 .. Len(handles) : handles[k] \in HashTypes
  BY <1>1
<1>. QED  BY <1>1, <1>2 DEF Inv, HandlesInv, PlaceInv, DigestInv

\* update hands the buffer to the next worker.
LEMMA SendInv == ASSUME Inv, exit = None, Send PROVE Inv'
<1>1. PICK t : t = handles[main.k]
  OBVIOUS
<1>2. main.pc = "send" /\ TypeInv /\ t \in HashTypes
      /\ UNCHANGED <<job, handles, empty, closed, worker, content, digest, exit>>
  BY <1>1, AtHandFacts DEF Send, AtWorker, Inv
<1>3. full[t] = <<>> /\ full' = [full EXCEPT ![t] = <<[len |-> main.read, buf |-> main.buf]>>]
  <2>1. full[t] \in Channel(Tokens)
    BY <1>2 DEF TypeInv
  <2>. QED  BY <1>1, <2>1, ChannelFacts DEF Send
<1>4. /\ full'[t] = <<[len |-> main.read, buf |-> main.buf]>> /\ full'[t] # <<>>
      /\ full'[t][1].buf = main.buf /\ full'[t][1].len = main.read
      /\ \A u \in HashTypes \ {t} : full'[u] = full[u]
  BY <1>2, <1>3 DEF TypeInv
<1>5. full' \in [HashTypes -> Channel(Tokens)]
  BY <1>2, <1>3 DEF TypeInv, Channel, Tokens
<1>6. /\ main' \in [pc : MainPcs, off : Nat, read : 0 .. BufLen, buf : Buffers, k : Nat]
      /\ main'.off = main.off /\ main'.read = main.read /\ main'.buf = main.buf
      /\ \/ main.k < Len(handles) /\ main'.pc = "send" /\ main'.k = main.k + 1
         \/ ~(main.k < Len(handles)) /\ main'.pc = "recv" /\ main'.k = 1
  <2>1. main \in [pc : MainPcs, off : Nat, read : 0 .. BufLen, buf : Buffers, k : Nat]
    BY <1>2 DEF TypeInv
  <2>2. CASE main.k < Len(handles)
    <3>1. main' = [main EXCEPT !.k = @ + 1]
      BY <2>2 DEF Send
    <3>. QED  BY <1>2, <2>1, <2>2, <3>1
  <2>3. CASE ~(main.k < Len(handles))
    <3>1. main' = [main EXCEPT !.pc = "recv", !.k = 1]
      BY <2>3 DEF Send
    <3>. QED  BY <2>1, <2>3, <3>1 DEF MainPcs
  <2>. QED  BY <2>2, <2>3
<1>7. main.k \in 1 .. Len(handles) /\ Len(handles) \in Nat /\ job.tool = "e01"
  BY <1>2, AtHandFacts DEF AtWorker
<1>8. TypeInv'
  <2>1. main'.k \in 1 .. Len(handles)
    BY <1>6, <1>7
  <2>. QED  BY <1>2, <1>5, <1>6, <1>7, <2>1 DEF TypeInv, AtWorker
<1>9. HandlesInv'
  BY <1>2, <1>6, WantedStays DEF Inv, HandlesInv
<1>10. ASSUME NEW k \in 1 .. Len(handles), k # main.k
       PROVE  /\ handles[k] \in HashTypes \ {t}
              /\ Place(k, handles[k]) /\ Feed(handles[k], Sent(k))
  BY <1>1, <1>2, <1>10, AtHandFacts DEF AtWorker
<1>11. Place(main.k, t) /\ Feed(t, Sent(main.k))
  BY <1>1, <1>2, AtHandFacts DEF AtWorker
<1>12. Other' = Other /\ main'.pc \in {"send", "recv"}
  BY <1>6 DEF Other
<1>13. PlaceInv'
  <2>1. ASSUME NEW k \in 1 .. Len(handles), k # main.k PROVE Place(k, handles[k])'
    <3>1. PICK u \in HashTypes \ {t} : u = handles[k] /\ Place(k, u)
      BY <1>10, <2>1
    <3>2. /\ One(u, Other) => One(u, Other)'
          /\ Two(u, Other, main.buf) => Two(u, Other, main.buf)'
      BY <1>2, <1>4, <1>6, <1>12, <3>1 DEF One, Two, Queues, Works, Waits
    <3>3. k < main.k => Two(u, Other, main.buf)
      BY <1>2, <3>1 DEF Place
    <3>4. ~(k < main.k) => One(u, Other)
      BY <1>2, <3>1 DEF Place
    <3>5. Place(k, u)'
      <4>1. CASE main'.pc = "send"
        <5>1. k < main'.k <=> k < main.k
          BY <1>6, <1>7, <2>1, <4>1
        <5>. QED  BY <3>2, <3>3, <3>4, <4>1, <5>1 DEF Place
      <4>2. CASE main'.pc = "recv"
        <5>1. k < main.k /\ ~(k < main'.k)
          BY <1>6, <1>7, <2>1, <4>2
        <5>. QED  BY <3>2, <3>3, <4>2, <5>1 DEF Place
      <4>. QED  BY <1>12, <4>1, <4>2
    <3>. QED  BY <1>2, <3>1, <3>5
  <2>2. ASSUME NEW k \in 1 .. Len(handles), k = main.k PROVE Place(k, handles[k])'
    <3>1. One(t, Other)
      BY <1>2, <1>7, <1>11 DEF Place
    <3>2. Two(t, Other, main.buf)'
      BY <1>2, <1>3, <1>4, <1>6, <1>12, <3>1 DEF One, Two, Queues, Works, Waits
    <3>3. main'.pc = "send" => k < main'.k
      BY <1>6, <1>7, <2>2
    <3>4. main'.pc = "recv" => ~(k < main'.k)
      BY <1>6, <1>7, <2>2
    <3>5. Place(k, t)'
      BY <1>12, <3>2, <3>3, <3>4 DEF Place
    <3>. QED  BY <1>1, <1>2, <2>2, <3>5
  <2>3. ASSUME NEW u \in HashTypes, \A k \in 1 .. Len(handles) : handles[k] # u
        PROVE  Absent(u)'
    <3>1. u # t
      BY <1>1, <1>7, <2>3
    <3>. QED  BY <1>2, <1>4, <2>3, <3>1 DEF Inv, PlaceInv, Absent
  <2>. QED  BY <1>2, <2>1, <2>2, <2>3 DEF PlaceInv
<1>14. Carries(main.buf, main.off, main.read) /\ main.off + main.read <= job.size
  BY <1>2 DEF Inv, DigestInv
<1>15. DigestInv'
  <2>1. ASSUME NEW k \in 1 .. Len(handles), k # main.k PROVE Feed(handles[k], Sent(k))'
    <3>1. PICK u \in HashTypes \ {t} : u = handles[k] /\ Feed(u, Sent(k))
      BY <1>10, <2>1
    <3>2. Sent(k)' = Sent(k)
      BY <1>2, <1>6, <1>7, <2>1 DEF Sent
    <3>3. Feed(u, Sent(k))'
      BY <1>2, <1>4, <3>1, <3>2, FeedKept
    <3>. QED  BY <1>2, <3>1, <3>3
  <2>2. ASSUME NEW k \in 1 .. Len(handles), k = main.k PROVE Feed(handles[k], Sent(k))'
    <3>1. Sent(k) = main.off + 0 /\ Sent(k)' = main.off + main.read
      BY <1>2, <1>6, <1>7, <2>2 DEF Sent
    <3>2. AtHand(t)' = AtHand(t) /\ Queued(t) = 0 /\ Queued(t)' = main.read
      BY <1>2, <1>3, <1>4 DEF AtHand, Queued
    <3>3. AtHand(t) \in Nat /\ main.off \in Nat /\ main.read \in Nat
      BY <1>2, BufAssumption DEF AtHand, TypeInv, Workers
    <3>4. PICK d \in Nat :
            /\ main.off = d + AtHand(t)
            /\ digest[t] = Bytes(d)
            /\ worker[t].pc = "hash" => Carries(worker[t].buf, d, AtHand(t))
      BY <1>11, <2>2, <3>1, <3>2, <3>3 DEF Feed
    <3>5. Carries(full[t][1].buf, d + AtHand(t), Queued(t))'
      BY <1>2, <1>4, <1>14, <3>2, <3>4 DEF Carries
    <3>6. worker[t].pc = "hash" => Carries(worker[t].buf, d, AtHand(t))'
      BY <1>2, <3>2, <3>4 DEF Carries
    <3>7. Feed(t, Sent(k))'
      BY <1>2, <3>1, <3>2, <3>4, <3>5, <3>6 DEF Feed
    <3>. QED  BY <1>1, <1>2, <2>2, <3>7
  <2>. QED  BY <1>2, <1>6, <1>7, <1>12, <1>14, <2>1, <2>2 DEF DigestInv, Carries
<1>16. DigestsWhole' /\ ExitTellsMismatch'
  BY <1>2, NoneAssumption DEF DigestsWhole, ExitTellsMismatch
<1>. QED  BY <1>8, <1>9, <1>13, <1>15, <1>16 DEF Inv

\* update takes a buffer back from the next worker; the last one is the only
\* reference that is left, so that into_inner succeeds.
LEMMA RecvInv == ASSUME Inv, exit = None, Recv PROVE Inv'
<1>1. PICK t : t = handles[main.k]
  OBVIOUS
<1>2. main.pc = "recv" /\ TypeInv /\ t \in HashTypes
      /\ UNCHANGED <<job, handles, full, closed, worker, content, digest, exit>>
  BY <1>1, AtHandFacts DEF Recv, AtWorker, Inv
<1>3. main.k \in 1 .. Len(handles) /\ Len(handles) \in Nat /\ job.tool = "e01"
      /\ handles # <<>>
  BY <1>2, AtHandFacts DEF AtWorker
<1>4. ASSUME NEW k \in 1 .. Len(handles), k # main.k
      PROVE  /\ handles[k] \in HashTypes \ {t}
             /\ Place(k, handles[k]) /\ Feed(handles[k], Sent(k))
  BY <1>1, <1>2, <1>4, AtHandFacts DEF AtWorker
<1>5. Two(t, Other, main.buf) /\ Feed(t, Sent(main.k))
  BY <1>1, <1>2, <1>3, AtHandFacts DEF AtWorker, Place
<1>6. empty[t] = <<Other>> /\ Head(empty[t]) = Other /\ empty' = [empty EXCEPT ![t] = <<>>]
  <2>1. empty[t] \in Channel(Buffers) /\ empty[t] # <<>>
    BY <1>1, <1>2 DEF TypeInv, Recv
  <2>2. empty[t] = <<Other>>
    BY <1>5, <2>1 DEF Two
  <2>. QED  BY <1>1, <2>1, <2>2, ChannelFacts DEF Recv
<1>7. empty'[t] = <<>> /\ \A u \in HashTypes \ {t} : empty'[u] = empty[u]
  BY <1>2, <1>6 DEF TypeInv
<1>8. empty' \in [HashTypes -> Channel(Buffers)]
  BY <1>2, <1>6 DEF TypeInv, Channel
<1>9. Other \in Buffers /\ main.buf \in Buffers /\ Other # main.buf /\ 1 - Other = main.buf
  BY <1>2 DEF TypeInv, Buffers, Other
\* What every worker is left with: the buffer that was just sent.
<1>. DEFINE Left(u) ==
        /\ u \notin closed
        /\ \/ Queues(u, main.buf) /\ Waits(u) /\ empty'[u] = <<>>
           \/ full[u] = <<>> /\ Works(u, main.buf) /\ empty'[u] = <<>>
           \/ full[u] = <<>> /\ Waits(u) /\ empty'[u] = <<main.buf>>
<1>10. Left(t)
  BY <1>5, <1>6, <1>7 DEF Two
<1>11. ASSUME NEW k \in 1 .. Len(handles), k < main.k PROVE Left(handles[k])
  <2>1. k # main.k
    BY <1>3, <1>11
  <2>. QED  BY <1>2, <1>4, <1>7, <1>11, <2>1 DEF Place, One
<1>12. ASSUME ~(main.k < Len(handles)) PROVE ~InUse(Other)
  <2>. SUFFICES ASSUME NEW u \in HashTypes
                PROVE  /\ worker[u].buf # Other
                       /\ \A i \in DOMAIN full[u] : full[u][i].buf # Other
                       /\ \A i \in DOMAIN empty'[u] : empty'[u][i] # Other
    BY DEF InUse
  <2>1. DOMAIN full[u] \subseteq {1} /\ DOMAIN empty'[u] \subseteq {1}
        /\ DOMAIN <<>> = {}
    <3>1. full[u] \in Channel(Tokens) /\ empty'[u] \in Channel(Buffers)
      BY <1>2, <1>8 DEF TypeInv
    <3>. QED  BY <3>1, ChannelFacts
  <2>2. CASE \E k \in 1 .. Len(handles) : handles[k] = u
    <3>1. PICK k \in 1 .. Len(handles) : handles[k] = u
      BY <2>2
    <3>2. k = main.k \/ k < main.k
      BY <1>3, <1>12
    <3>3. Left(u)
      BY <1>1, <1>10, <1>11, <3>1, <3>2
    <3>. QED  BY <1>9, <2>1, <3>3, NoneAssumption DEF Queues, Works, Waits, Buffers
  <2>3. CASE ~ \E k \in 1 .. Len(handles) : handles[k] = u
    <3>1. Absent(u) /\ u # t
      BY <1>1, <1>3, <2>3 DEF Inv, PlaceInv
    <3>2. worker[u].buf = None /\ full[u] = <<>> /\ empty'[u] = <<>>
      BY <1>7, <3>1 DEF Absent
    <3>. QED  BY <1>9, <2>1, <3>2, NoneAssumption DEF Buffers
  <2>. QED  BY <2>2, <2>3
<1>13. main.off + main.read \in Nat /\ main.off + main.read <= job.size
       /\ Carries(main.buf, main.off, main.read)
  BY <1>2, BufAssumption DEF Inv, DigestInv, TypeInv
<1>14. /\ main' \in [pc : MainPcs, off : Nat, read : 0 .. BufLen, buf : Buffers, k : Nat]
       /\ \/ /\ main.k < Len(handles) /\ main'.pc = "recv" /\ main'.k = main.k + 1
             /\ main'.off = main.off /\ main'.read = main.read /\ main'.buf = main.buf
          \/ /\ ~(main.k < Len(handles)) /\ main'.pc = "loop"
             /\ main'.off = main.off + main.read /\ main'.buf = Other
  <2>1. main \in [pc : MainPcs, off : Nat, read : 0 .. BufLen, buf : Buffers, k : Nat]
    BY <1>2 DEF TypeInv
  <2>2. CASE main.k < Len(handles)
    <3>1. main' = [main EXCEPT !.k = @ + 1]
      BY <2>2 DEF Recv
    <3>. QED  BY <1>2, <2>1, <2>2, <3>1
  <2>3. CASE ~(main.k < Len(handles))
    <3>1. PICK off \in Nat : off = main.off + main.read
      BY <1>13
    <3>2. main' = [main EXCEPT !.pc = "loop", !.buf = Other, !.off = off, !.k = 1]
      BY <1>1, <1>6, <1>12, <2>3, <3>1 DEF Recv
    <3>. HIDE DEF MainPcs, Buffers
    <3>. QED  BY <1>9, <2>1, <2>3, <3>1, <3>2 DEF MainPcs
  <2>. QED  BY <2>2, <2>3
<1>15. TypeInv'
  <2>1. main'.pc = "recv" => main'.k \in 1 .. Len(handles)
    BY <1>3, <1>14
  <2>2. main'.off <= job.size
    BY <1>2, <1>13, <1>14 DEF TypeInv
  <2>. QED  BY <1>2, <1>3, <1>8, <1>14, <2>1, <2>2 DEF TypeInv, AtWorker
<1>16. HandlesInv'
  BY <1>2, <1>14, WantedStays DEF Inv, HandlesInv
<1>17. PlaceInv'
  <2>1. ASSUME NEW k \in 1 .. Len(handles) PROVE Place(k, handles[k])'
    <3>1. PICK u : u = handles[k]
      OBVIOUS
    <3>2. CASE main.k < Len(handles)
      <4>1. main'.pc = "recv" /\ main'.k = main.k + 1 /\ main'.buf = main.buf /\ Other' = Other
        BY <1>14, <3>2 DEF Other
      <4>2. CASE k <= main.k
        <5>0. k = main.k \/ k < main.k
          BY <1>3, <4>2
        <5>1. Left(u) /\ k < main'.k
          <6>1. Left(u)
            BY <1>1, <1>10, <1>11, <3>1, <5>0
          <6>. QED  BY <1>3, <4>1, <4>2, <6>1
        <5>2. One(u, main.buf)'
          BY <1>2, <4>1, <5>1 DEF One, Queues, Works, Waits
        <5>. QED  BY <1>2, <3>1, <4>1, <5>1, <5>2 DEF Place
      <4>3. CASE ~(k <= main.k)
        <5>1. ~(k < main.k) /\ ~(k < main'.k) /\ k # main.k
          BY <1>3, <4>1, <4>3
        <5>2. Two(u, Other, main.buf)
          BY <1>2, <1>4, <3>1, <5>1 DEF Place
        <5>3. Two(u, Other, main.buf)'
          BY <1>2, <1>4, <1>7, <3>1, <4>1, <5>1, <5>2 DEF Two, Queues, Works, Waits
        <5>. QED  BY <1>2, <3>1, <4>1, <5>1, <5>3 DEF Place
      <4>. QED  BY <4>2, <4>3
    <3>3. CASE ~(main.k < Len(handles))
      <4>1. main'.pc = "loop" /\ main'.buf = Other /\ Other' = main.buf
        BY <1>9, <1>14, <3>3 DEF Other
      <4>2. Left(u)
        <5>1. k = main.k \/ k < main.k
          BY <1>3, <3>3
        <5>. QED  BY <1>1, <1>10, <1>11, <3>1, <5>1
      <4>3. One(u, Other)'
        BY <1>2, <4>1, <4>2 DEF One, Queues, Works, Waits
      <4>. QED  BY <1>2, <3>1, <4>1, <4>3 DEF Place
    <3>. QED  BY <3>2, <3>3
  <2>2. ASSUME NEW u \in HashTypes, \A k \in 1 .. Len(handles) : handles[k] # u
        PROVE  Absent(u)'
    <3>1. u # t
      BY <1>1, <1>3, <2>2
    <3>. QED  BY <1>2, <1>7, <2>2, <3>1 DEF Inv, PlaceInv, Absent
  <2>. QED  BY <1>2, <2>1, <2>2 DEF PlaceInv
<1>18. DigestInv'
  <2>1. ASSUME NEW k \in 1 .. Len(handles) PROVE Feed(handles[k], Sent(k))'
    <3>1. PICK u : u = handles[k] /\ Feed(u, Sent(k))
      BY <1>1, <1>4, <1>5
    <3>2. Sent(k)' = Sent(k)
      <4>1. CASE main'.pc = "recv"
        BY <1>2, <1>14, <4>1 DEF Sent
      <4>2. CASE main'.pc = "loop"
        BY <1>2, <1>13, <1>14, <4>2 DEF Sent
      <4>. QED  BY <1>14, <4>1, <4>2
    <3>3. Feed(u, Sent(k))'
      BY <1>2, <3>1, <3>2 DEF Feed, AtHand, Queued, Carries
    <3>. QED  BY <1>2, <3>1, <3>3
  <2>2. main'.pc = "recv" =>
          main'.off = main.off /\ main'.read = main.read /\ main'.buf = main.buf
    BY <1>14
  <2>. QED  BY <1>2, <1>3, <1>13, <1>14, <2>1, <2>2 DEF DigestInv, Carries
<1>19. DigestsWhole' /\ ExitTellsMismatch'
  BY <1>2, NoneAssumption DEF DigestsWhole, ExitTellsMismatch
<1>. QED  BY <1>15, <1>16, <1>17, <1>18, <1>19 DEF Inv

\* The image is read to its end and finalize begins.
LEMMA BeginFinalizeInv == ASSUME Inv, exit = None, BeginFinalize PROVE Inv'
<1>1. /\ main.pc = "loop" /\ job.tool = "e01" /\ TypeInv /\ main.off >= job.size
      /\ UNCHANGED <<job, handles, full, empty, closed, worker, content, digest, exit>>
      /\ main' = [main EXCEPT !.pc = IF handles = <<>> THEN "check" ELSE "drop", !.k = 1]
  BY DEF BeginFinalize, Goto, Inv
<1>2. main.off = job.size /\ Len(handles) \in Nat /\ (handles # <<>> => 1 \in 1 .. Len(handles))
  BY <1>1, BufAssumption DEF TypeInv, Jobs
<1>3. /\ main' \in [pc : MainPcs, off : Nat, read : 0 .. BufLen, buf : Buffers, k : Nat]
      /\ main'.pc = IF handles = <<>> THEN "check" ELSE "drop"
      /\ main'.off = main.off /\ main'.buf = main.buf /\ main'.k = 1
  BY <1>1 DEF TypeInv, MainPcs
<1>4. TypeInv'
  BY <1>1, <1>2, <1>3 DEF TypeInv, AtWorker
<1>5. HandlesInv'
  BY <1>1, <1>3, WantedStays DEF Inv, HandlesInv
<1>6. PlaceInv'
  <2>1. ASSUME NEW k \in 1 .. Len(handles) PROVE Place(k, handles[k])'
    <3>1. main'.pc = "drop" /\ ~(k < main'.k)
      BY <1>3
    <3>2. One(handles[k], Other)
      BY <1>1 DEF Inv, PlaceInv, Place
    <3>3. One(handles[k], Other)'
      BY <1>1, <1>3, <3>2 DEF One, Queues, Works, Waits, Other
    <3>. QED  BY <3>1, <3>3 DEF Place
  <2>. QED  BY <1>1, <2>1 DEF Inv, PlaceInv, Absent
<1>7. DigestInv'
  <2>1. ASSUME NEW k \in 1 .. Len(handles) PROVE Feed(handles[k], Sent(k))'
    <3>1. Sent(k)' = Sent(k) /\ Feed(handles[k], Sent(k))
      BY <1>1, <1>3 DEF Sent, Inv, DigestInv
    <3>. QED  BY <1>1, <3>1 DEF Feed, AtHand, Queued, Carries
  <2>. QED  BY <1>1, <1>2, <1>3, <2>1 DEF DigestInv
<1>8. DigestsWhole' /\ ExitTellsMismatch'
  BY <1>1, NoneAssumption DEF DigestsWhole, ExitTellsMismatch
<1>. QED  BY <1>4, <1>5, <1>6, <1>7, <1>8 DEF Inv

\* finalize drops the channels of the worker it is about to join.
LEMMA DropChannelsInv == ASSUME Inv, exit = None, DropChannels PROVE Inv'
<1>1. PICK t : t = handles[main.k]
  OBVIOUS
<1>2. /\ main.pc = "drop" /\ TypeInv /\ t \in HashTypes
      /\ UNCHANGED <<job, handles, full, worker, content, digest, exit>>
      /\ main' = [main EXCEPT !.pc = "join"]
      /\ closed' = closed \cup {t} /\ empty' = [empty EXCEPT ![t] = <<>>]
  BY <1>1, AtHandFacts DEF DropChannels, AtWorker, Inv
<1>3. main.k \in 1 .. Len(handles) /\ Len(handles) \in Nat /\ job.tool = "e01"
      /\ handles # <<>> /\ main.off = job.size
  BY <1>2, AtHandFacts DEF AtWorker, Inv, DigestInv
<1>4. ASSUME NEW k \in 1 .. Len(handles)
      PROVE  /\ handles[k] \in HashTypes /\ (k # main.k => handles[k] # t)
             /\ Place(k, handles[k]) /\ Feed(handles[k], Sent(k))
  BY <1>1, <1>2, AtHandFacts DEF AtWorker
<1>5. /\ main' \in [pc : MainPcs, off : Nat, read : 0 .. BufLen, buf : Buffers, k : Nat]
      /\ main'.pc = "join" /\ main'.off = main.off /\ main'.buf = main.buf /\ main'.k = main.k
  BY <1>2 DEF TypeInv, MainPcs
<1>6. /\ empty' \in [HashTypes -> Channel(Buffers)]
      /\ \A u \in HashTypes \ {t} : empty'[u] = empty[u]
      /\ empty'[t] = <<>>
  BY <1>2 DEF TypeInv, Channel
<1>7. TypeInv'
  BY <1>2, <1>3, <1>5, <1>6 DEF TypeInv, AtWorker
<1>8. HandlesInv'
  BY <1>2, <1>5, WantedStays DEF Inv, HandlesInv
<1>9. PlaceInv'
  <2>1. ASSUME NEW k \in 1 .. Len(handles) PROVE Place(k, handles[k])'
    <3>1. PICK u \in HashTypes : u = handles[k] /\ Place(k, u)
      BY <1>4
    <3>2. CASE k = main.k
      <4>1. u = t /\ One(t, Other) /\ k <= main.k /\ ~(k < main.k)
        BY <1>1, <1>2, <1>3, <3>1, <3>2 DEF Place
      <4>2. Other \in Buffers
        BY <1>2 DEF TypeInv, Other, Buffers
      <4>3. Closing(t)'
        BY <1>2, <4>1, <4>2 DEF One, Closing, Queues, Works, Waits
      <4>. QED  BY <1>2, <1>5, <3>1, <4>1, <4>3 DEF Place
    <3>3. CASE k # main.k
      <4>1. u # t
        BY <1>4, <3>1, <3>3
      <4>2. CASE k < main.k
        <5>1. Closing(u) /\ worker[u].pc = "done" /\ k <= main.k
          BY <1>2, <1>3, <3>1, <4>2 DEF Place
        <5>2. Closing(u)'
          BY <1>2, <5>1 DEF Closing
        <5>. QED  BY <1>2, <1>5, <3>1, <5>1, <5>2 DEF Place
      <4>3. CASE ~(k < main.k)
        <5>1. One(u, Other) /\ ~(k <= main.k)
          BY <1>2, <1>3, <3>1, <3>3, <4>3 DEF Place
        <5>2. One(u, Other)'
          BY <1>2, <1>5, <1>6, <4>1, <5>1 DEF One, Queues, Works, Waits, Other
        <5>. QED  BY <1>2, <1>5, <3>1, <4>3, <5>1, <5>2 DEF Place
      <4>. QED  BY <4>2, <4>3
    <3>. QED  BY <3>2, <3>3
  <2>2. ASSUME NEW u \in HashTypes, \A k \in 1 .. Len(handles) : handles[k] # u
        PROVE  Absent(u)'
    <3>1. u # t
      BY <1>1, <1>3, <2>2
    <3>. QED  BY <1>2, <1>6, <2>2, <3>1 DEF Inv, PlaceInv, Absent
  <2>. QED  BY <1>2, <2>1, <2>2 DEF PlaceInv
<1>10. DigestInv'
  <2>1. ASSUME NEW k \in 1 .. Len(handles) PROVE Feed(handles[k], Sent(k))'
    <3>1. Sent(k)' = Sent(k)
      BY <1>2, <1>5 DEF Sent
    <3>. QED  BY <1>2, <1>4, <3>1 DEF Feed, AtHand, Queued, Carries
  <2>. QED  BY <1>2, <1>3, <1>5, <2>1 DEF DigestInv
<1>11. DigestsWhole' /\ ExitTellsMismatch'
  BY <1>2, NoneAssumption DEF DigestsWhole, ExitTellsMismatch
<1>. QED  BY <1>7, <1>8, <1>9, <1>10, <1>11 DEF Inv

\* A worker is joined when it has ended.
LEMMA JoinInv == ASSUME Inv, exit = None, Join PROVE Inv'
<1>1. /\ main.pc = "join" /\ TypeInv /\ worker[handles[main.k]].pc = "done"
      /\ UNCHANGED <<job, handles, full, empty, closed, worker, content, digest, exit>>
  BY DEF Join, Inv
<1>2. main.k \in 1 .. Len(handles) /\ Len(handles) \in Nat /\ job.tool = "e01"
      /\ handles # <<>> /\ main.off = job.size
  BY <1>1, AtHandFacts DEF AtWorker, Inv, DigestInv
<1>3. ASSUME NEW k \in 1 .. Len(handles)
      PROVE  Place(k, handles[k]) /\ Feed(handles[k], Sent(k))
  BY <1>1, AtHandFacts DEF AtWorker
<1>4. /\ main' \in [pc : MainPcs, off : Nat, read : 0 .. BufLen, buf : Buffers, k : Nat]
      /\ main'.off = main.off /\ main'.buf = main.buf
      /\ \/ main.k < Len(handles) /\ main'.pc = "drop" /\ main'.k = main.k + 1
         \/ ~(main.k < Len(handles)) /\ main'.pc = "check"
  <2>1. main \in [pc : MainPcs, off : Nat, read : 0 .. BufLen, buf : Buffers, k : Nat]
    BY <1>1 DEF TypeInv
  <2>2. CASE main.k < Len(handles)
    <3>1. PICK m \in Nat : m = main.k + 1
      BY <2>1
    <3>2. main' = [main EXCEPT !.pc = "drop", !.k = m]
      BY <2>2, <3>1 DEF Join
    <3>. QED  BY <2>1, <2>2, <3>1, <3>2 DEF MainPcs
  <2>3. CASE ~(main.k < Len(handles))
    <3>1. main' = [main EXCEPT !.pc = "check", !.k = 1]
      BY <2>3 DEF Join
    <3>. QED  BY <2>1, <2>3, <3>1 DEF MainPcs
  <2>. QED  BY <2>2, <2>3
<1>5. TypeInv'
  <2>1. main'.pc = "drop" => main'.k \in 1 .. Len(handles)
    BY <1>2, <1>4
  <2>. QED  BY <1>1, <1>2, <1>4, <2>1 DEF TypeInv, AtWorker
<1>6. HandlesInv'
  BY <1>1, <1>4, WantedStays DEF Inv, HandlesInv
<1>7. PlaceInv'
  <2>1. ASSUME NEW k \in 1 .. Len(handles) PROVE Place(k, handles[k])'
    <3>1. PICK u : u = handles[k] /\ Place(k, u)
      BY <1>3
    <3>2. CASE k <= main.k
      <4>1. k = main.k \/ k < main.k
        BY <1>2, <3>2
      <4>2. Closing(u) /\ worker[u].pc = "done" /\ (main'.pc = "drop" => k < main'.k)
        <5>1. Closing(u) /\ worker[u].pc = "done"
          BY <1>1, <3>1, <3>2, <4>1 DEF Place
        <5>. QED  BY <1>2, <1>4, <3>2, <5>1
      <4>3. Closing(u)' /\ worker'[u].pc = "done"
        BY <1>1, <4>2 DEF Closing
      <4>. QED  BY <1>1, <1>4, <3>1, <4>2, <4>3 DEF Place
    <3>3. CASE ~(k <= main.k)
      <4>1. One(u, Other) /\ main'.pc = "drop" /\ ~(k < main'.k)
        <5>1. One(u, Other)
          BY <1>1, <3>1, <3>3 DEF Place
        <5>. QED  BY <1>2, <1>4, <3>3, <5>1
      <4>2. One(u, Other)'
        BY <1>1, <1>4, <4>1 DEF One, Queues, Works, Waits, Other
      <4>. QED  BY <1>1, <3>1, <4>1, <4>2 DEF Place
    <3>. QED  BY <3>2, <3>3
  <2>. QED  BY <1>1, <2>1 DEF Inv, PlaceInv, Absent
<1>8. DigestInv'
  <2>1. ASSUME NEW k \in 1 .. Len(handles) PROVE Feed(handles[k], Sent(k))'
    <3>1. Sent(k)' = Sent(k)
      BY <1>1, <1>4 DEF Sent
    <3>. QED  BY <1>1, <1>3, <3>1 DEF Feed, AtHand, Queued, Carries
  <2>. QED  BY <1>1, <1>2, <1>4, <2>1 DEF DigestInv
<1>9. DigestsWhole' /\ ExitTellsMismatch'
  BY <1>1, NoneAssumption DEF DigestsWhole, ExitTellsMismatch
<1>. QED  BY <1>5, <1>6, <1>7, <1>8, <1>9 DEF Inv

\* The rawdisk and vmdk tools: the digest is the image up to the offset.
LEMMA DoHashInv ==
    ASSUME Inv, exit = None, NEW tool \in {"rawdisk", "vmdk"},
           DoHashOpen(tool) \/ DoHashRead(tool) \/ NextPath(tool)
    PROVE  Inv'
<1>1. job.tool = tool /\ job.tool # "e01" /\ TypeInv /\ handles = <<>> /\ "SHA1" \in HashTypes
  BY HashAssumption DEF DoHashOpen, DoHashRead, NextPath, Inv, HandlesInv
<1>2. main \in [pc : MainPcs, off : Nat, read : 0 .. BufLen, buf : Buffers, k : Nat]
  BY <1>1 DEF TypeInv
<1>3. \A t \in HashTypes : Absent(t)
  BY <1>1 DEF Inv, PlaceInv
\* What is left to show of a step that goes on.
<1>4. ASSUME UNCHANGED <<handles, full, empty, closed, worker, exit>>,
             job' \in Jobs, job'.tool = job.tool, job'.size = job.size,
             content' \in [Buffers -> [1 .. BufLen -> Nat]],
             digest' \in [HashTypes -> Seq(Nat)],
             main' \in [pc : MainPcs, off : Nat, read : 0 .. BufLen, buf : Buffers, k : Nat],
             main'.off <= job.size, main'.pc \in {"open", "loop"},
             main'.pc = "loop" => digest'["SHA1"] = Bytes(main'.off)
      PROVE  Inv'
  <2>1. TypeInv'
    BY <1>1, <1>4 DEF TypeInv, AtWorker
  <2>2. HandlesInv'
    BY <1>1, <1>4 DEF HandlesInv, Inv
  <2>3. PlaceInv'
    BY <1>1, <1>3, <1>4 DEF PlaceInv, Absent
  <2>4. DigestInv'
    BY <1>1, <1>4 DEF DigestInv
  <2>5. DigestsWhole' /\ ExitTellsMismatch'
    BY <1>4, NoneAssumption DEF DigestsWhole, ExitTellsMismatch
  <2>. QED  BY <2>1, <2>2, <2>3, <2>4, <2>5 DEF Inv
<1>5. CASE DoHashOpen(tool)
  <2>1. /\ UNCHANGED <<job, handles, full, empty, closed, worker, content, exit>>
        /\ main' = [main EXCEPT !.pc = "loop", !.off = 0]
        /\ digest' = [digest EXCEPT !["SHA1"] = <<>>]
    BY <1>5 DEF DoHashOpen
  <2>2. /\ main' \in [pc : MainPcs, off : Nat, read : 0 .. BufLen, buf : Buffers, k : Nat]
        /\ main'.pc = "loop" /\ main'.off = 0
    BY <1>2, <2>1 DEF MainPcs
  <2>3. digest' \in [HashTypes -> Seq(Nat)] /\ digest'["SHA1"] = Bytes(0)
    BY <1>1, <2>1 DEF TypeInv, Bytes
  <2>4. 0 <= job.size
    <3>1. job.size \in Nat /\ main.off \in Nat
      BY <1>1, BufAssumption DEF TypeInv, Jobs
    <3>. QED  BY <3>1
  <2>. QED  BY <1>1, <1>4, <2>1, <2>2, <2>3, <2>4 DEF TypeInv
<1>6. CASE DoHashRead(tool)
  <2>1. /\ UNCHANGED <<job, handles, full, empty, closed, worker, exit>>
        /\ main.pc = "loop" /\ main.off < job.size
        /\ main' = [main EXCEPT !.off = @ + ReadLen]
        /\ content' = [content EXCEPT ![main.buf] = Filled(main.buf)]
        /\ digest' = [digest EXCEPT !["SHA1"] = @ \o SubSeq(Filled(main.buf), 1, ReadLen)]
    BY <1>6 DEF DoHashRead
  <2>2. /\ ReadLen \in 0 .. BufLen /\ main.off + ReadLen <= job.size
        /\ Filled(main.buf) \in [1 .. BufLen -> Nat]
        /\ \A i \in 1 .. ReadLen : Filled(main.buf)[i] = main.off + i
    BY <1>1, <2>1, ReadLenFacts
  <2>. HIDE DEF ReadLen, Filled
  <2>3. main.off \in Nat /\ main.off + ReadLen \in Nat
    BY <1>2, <2>2, BufAssumption
  <2>4. /\ main' \in [pc : MainPcs, off : Nat, read : 0 .. BufLen, buf : Buffers, k : Nat]
        /\ main'.pc = "loop" /\ main'.off = main.off + ReadLen
    BY <1>2, <2>1, <2>3
  <2>5. content' \in [Buffers -> [1 .. BufLen -> Nat]]
    BY <1>1, <2>1, <2>2 DEF TypeInv
  <2>6. Bytes(main.off) \o SubSeq(Filled(main.buf), 1, ReadLen) = Bytes(main.off + ReadLen)
    BY <2>2, <2>3, BytesExtend
  <2>7. digest["SHA1"] = Bytes(main.off)
    BY <1>1, <2>1 DEF Inv, DigestInv
  <2>8. digest'["SHA1"] = Bytes(main.off + ReadLen) /\ digest' \in [HashTypes -> Seq(Nat)]
    <3>1. Bytes(main.off + ReadLen) \in Seq(Nat)
      BY <2>3, BytesType
    <3>. QED  BY <1>1, <2>1, <2>6, <2>7, <3>1 DEF TypeInv
  <2>. QED  BY <1>1, <1>4, <2>1, <2>2, <2>4, <2>5, <2>8 DEF TypeInv
<1>7. CASE NextPath(tool)
  <2>1. /\ UNCHANGED <<handles, full, empty, closed, worker, content, digest>>
        /\ main.pc = "loop" /\ main.off >= job.size
        /\ job' = [job EXCEPT !.left = @ - 1]
    BY <1>7 DEF NextPath
  <2>2. job' \in Jobs /\ job'.tool = job.tool /\ job'.size = job.size
    <3>. DEFINE Hashes == [{"MD5", "SHA1"} -> Stored]
                Extra == SUBSET HashTypes
    <3>1. job \in [tool : Tools, size : ImageSizes, left : Int, stored : Hashes, extra : Extra]
      BY <1>1 DEF TypeInv, Jobs
    <3>. HIDE DEF Hashes, Extra, Tools
    <3>2. /\ job' \in [tool : Tools, size : ImageSizes, left : Int,
                       stored : Hashes, extra : Extra]
          /\ job'.tool = job.tool /\ job'.size = job.size
      BY <2>1, <3>1
    <3>. QED  BY <3>2 DEF Jobs, Hashes, Extra
  <2>3. main.off = job.size /\ digest["SHA1"] = Bytes(job.size)
    <3>1. main.off = job.size
      BY <1>1, <2>1, BufAssumption DEF TypeInv, Jobs
    <3>. QED  BY <1>1, <2>1, <3>1 DEF Inv, DigestInv
  <2>4. CASE job.left > 1
    <3>1. main' = [main EXCEPT !.pc = "open", !.k = 1] /\ exit' = exit
      BY <1>7, <2>4 DEF NextPath, Goto
    <3>2. /\ main' \in [pc : MainPcs, off : Nat, read : 0 .. BufLen, buf : Buffers, k : Nat]
          /\ main'.pc = "open" /\ main'.off = main.off
      BY <1>2, <3>1 DEF MainPcs
    <3>. QED  BY <1>1, <1>4, <2>1, <2>2, <3>1, <3>2 DEF TypeInv
  <2>5. CASE ~(job.left > 1)
    <3>1. Exit("SUCCESS")
      BY <1>7, <2>5 DEF NextPath
    <3>2. DigestsWhole'
      BY <1>1, <2>1, <2>2, <2>3 DEF DigestsWhole
    <3>3. ExitTellsMismatch'
      BY <1>1, <2>2 DEF ExitTellsMismatch
    <3>. QED  BY <2>1, <2>2, <3>1, <3>2, <3>3, ExitInv
  <2>. QED  BY <2>4, <2>5
<1>. QED  BY <1>5, <1>6, <1>7

-----------------------------------------------------------------------------
\* A step that changes nothing.
LEMMA StutterInv == ASSUME Inv, UNCHANGED vars PROVE Inv'
<1>. USE DEF vars
<1>1. TypeInv'
  BY DEF Inv, TypeInv
<1>2. HandlesInv'
  BY WantedStays DEF Inv, HandlesInv
<1>3. PlaceInv'
  <2>1. ASSUME NEW k \in 1 .. Len(handles) PROVE Place(k, handles[k])'
    BY PlaceFrame DEF Inv, PlaceInv
  <2>. QED  BY <2>1 DEF Inv, PlaceInv, Absent
<1>4. DigestInv'
  <2>1. ASSUME NEW k \in 1 .. Len(handles), job.tool = "e01", main.pc # "exit"
        PROVE  Feed(handles[k], Sent(k))'
    BY <2>1, FeedFrame DEF Inv, DigestInv
  <2>. QED  BY <2>1 DEF Inv, DigestInv, Carries
<1>5. DigestsWhole' /\ ExitTellsMismatch'
  BY WantedStays DEF Inv, DigestsWhole, ExitTellsMismatch
<1>. QED  BY <1>1, <1>2, <1>3, <1>4, <1>5 DEF Inv

\* Every step keeps the invariant.
LEMMA NextInv == ASSUME Inv, [Next]_vars PROVE Inv'
<1>1. CASE exit = None /\ Main
  BY <1>1, OpenInv, OpenFailsInv, ReadImageInv, ReadFailsInv, SendInv, RecvInv,
     BeginFinalizeInv, DropChannelsInv, JoinInv, CheckHashesInv, DoHashInv
     DEF Main, rawdisk_do_hash, vmdk_do_hash
<1>2. ASSUME exit = None, NEW t \in HashTypes, Worker(t) PROVE Inv'
  BY <1>2, WorkerRecvInv, WorkerHashInv, WorkerSendInv DEF Worker
<1>3. CASE Done
  BY <1>3, StutterInv DEF Done
<1>4. CASE UNCHANGED vars
  BY <1>4, StutterInv
<1>. QED  BY <1>1, <1>2, <1>3, <1>4 DEF Next

\* The inductive invariant: where the buffers are and how far the digests have come,
\* at every step of MultiHasher and its workers.
THEOREM HashInvariance == Spec => []Inv
<1>1. Init => Inv
  BY InitInv
<1>2. Inv /\ [Next]_vars => Inv'
  BY NextInv
<1>. QED  BY <1>1, <1>2, PTL DEF Spec

\* The reading thread never fills a buffer that a worker has still to hash, and
\* into_inner never panics, for any number of workers.
THEOREM BufferStaysSole == Spec => []BufferIsSole
<1>1. ASSUME Inv PROVE BufferIsSole
  <2>1. main.pc # "panic" /\ main.buf \in Buffers /\ Other # main.buf
    BY <1>1 DEF Inv, TypeInv, MainPcs, Buffers, Other
  <2>2. ASSUME main.pc = "loop", NEW t \in HashTypes
        PROVE  /\ worker[t].buf # main.buf
               /\ \A i \in DOMAIN full[t] : full[t][i].buf # main.buf
               /\ \A i \in DOMAIN empty[t] : empty[t][i] # main.buf
    <3>1. DOMAIN full[t] \subseteq {1} /\ DOMAIN empty[t] \subseteq {1} /\ DOMAIN <<>> = {}
      <4>1. full[t] \in Channel(Tokens) /\ empty[t] \in Channel(Buffers)
        BY <1>1 DEF Inv, TypeInv
      <4>. QED  BY <4>1, ChannelFacts
    <3>2. CASE \E k \in 1 .. Len(handles) : handles[k] = t
      <4>1. One(t, Other)
        BY <1>1, <2>2, <3>2 DEF Inv, PlaceInv, Place
      <4>. QED  BY <2>1, <3>1, <4>1, NoneAssumption DEF One, Queues, Works, Waits, Buffers
    <3>3. CASE ~ \E k \in 1 .. Len(handles) : handles[k] = t
      <4>1. Absent(t)
        BY <1>1, <3>3 DEF Inv, PlaceInv
      <4>. QED  BY <2>1, <3>1, <4>1, NoneAssumption DEF Absent, Buffers
    <3>. QED  BY <3>2, <3>3
  <2>. QED  BY <2>1, <2>2 DEF BufferIsSole
<1>. QED  BY <1>1, HashInvariance, PTL

\* A tool that reports success has hashed every byte of the image once and in order
\* with every hasher, whatever the length of the buffer and the size of the image.
THEOREM DigestsAreWhole == Spec => []DigestsWhole
<1>1. Inv => DigestsWhole
  BY DEF Inv
<1>. QED  BY <1>1, HashInvariance, PTL

\* The e01 tool's exit code is failure exactly when a stored hash is not the image's.
THEOREM ExitCodeTells == Spec => []ExitTellsMismatch
<1>1. Inv => ExitTellsMismatch
  BY DEF Inv
<1>. QED  BY <1>1, HashInvariance, PTL
=============================================================================
