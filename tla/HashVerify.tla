----------------------------- MODULE HashVerify -----------------------------
(***************************************************************************)
(* The command-line tools that read an image from one end to the other.    *)
(* The e01 tool hashes with one worker thread for each hash type and       *)
(* compares the digests with the stored ones; the rawdisk and vmdk tools   *)
(* print one SHA1 for every image named.                                   *)
(*                                                                         *)
(* Sources: e01/src/hasher.rs, e01/src/main.rs, rawdisk/src/main.rs and    *)
(* vmdk/src/main.rs.                                                       *)
(*                                                                         *)
(* Two buffers go round between the reading thread and the workers; each   *)
(* worker has a channel for full buffers and one for empty ones, with one  *)
(* place each.  A buffer is a vector of bytes, a byte is its position in   *)
(* the image, and a digest is the sequence of bytes it was fed.            *)
(***************************************************************************)
EXTENDS Naturals, Sequences, FiniteSets, SequencesExt

CONSTANTS
  HashTypes,    \* "MD5", "SHA1", "SHA256"
  ImageSizes,   \* the sizes of the images hashed
  BufLen,       \* the length of a buffer
  Paths,        \* how many images the rawdisk or vmdk tool is given
  Faults,       \* what may fail: "open", "read"
  None

ASSUME HashAssumption == {"MD5", "SHA1"} \subseteq HashTypes /\ IsFiniteSet(HashTypes)
ASSUME BufAssumption ==
  /\ BufLen \in Nat \ {0} /\ ImageSizes \subseteq Nat
  /\ Paths \in Nat \ {0}     \* without a path the loop has no turn
ASSUME NoneAssumption ==
  None \notin {0, 1} /\ None \notin {"same", "other", "true", "false", "SUCCESS", "FAILURE"}

VARIABLES
  job,      \* the tool, the size of the image, the hashes stored in it
  main,     \* the reading thread: pc, offset, bytes read, its buffer
  handles,  \* MultiHasher: the hash types with a worker, in order
  full,     \* the full channel of each worker
  empty,    \* the empty channel of each worker
  closed,   \* the workers whose channels the reading thread has dropped
  worker,   \* the workers: pc and the buffer at hand
  content,  \* what each buffer holds
  digest,   \* what each hasher was fed
  exit      \* the exit code of the tool

vars == <<job, main, handles, full, empty, closed, worker, content, digest, exit>>

-----------------------------------------------------------------------------
Bytes(n) == [i \in 1..n |-> i]

(* The buffers: the one MultiHasher::new is given and the reader's.        *)
Buffers == {0, 1}

Tools == {"e01", "rawdisk", "vmdk"}

(* A stored hash is absent, that of the image, or another.                 *)
Stored == {None, "same", "other"}

Init ==
  /\ job \in [tool : Tools, size : ImageSizes, left : {Paths},
              stored : [{"MD5", "SHA1"} -> Stored], extra : SUBSET HashTypes]
  /\ job.tool # "e01" => job.extra = {} /\ \A t \in DOMAIN job.stored : job.stored[t] = None
  /\ main = [pc |-> "open", off |-> 0, read |-> 0, buf |-> 1, k |-> 1]
  /\ handles = <<>>
  /\ full = [t \in HashTypes |-> <<>>]
  /\ empty = [t \in HashTypes |-> <<>>]
  /\ closed = {}
  /\ worker = [t \in HashTypes |-> [pc |-> "none", buf |-> None, len |-> 0]]
  /\ content = [b \in Buffers |-> [i \in 1..BufLen |-> 0]]
  /\ digest = [t \in HashTypes |-> <<>>]
  /\ exit = None

Goto(pc) == main' = [main EXCEPT !.pc = pc, !.k = 1]

(* The tool ends.  The process takes its threads along.                    *)
Exit(code) ==
  /\ exit' = code
  /\ Goto("exit")

-----------------------------------------------------------------------------
(* The e01 tool.                                                           *)

(* The hash types worth a worker: those asked for and those stored.        *)
htypes == job.extra \cup {t \in DOMAIN job.stored : job.stored[t] # None}

(* run opens the image and MultiHasher::new starts the workers, each with  *)
(* the same first buffer in its empty channel.  The order of a HashSet is  *)
(* any order.                                                              *)
Open ==
  /\ job.tool = "e01" /\ main.pc = "open"
  /\ \E order \in SetToSeqs(htypes) : handles' = order
  /\ empty' = [t \in HashTypes |-> IF t \in htypes THEN <<0>> ELSE <<>>]
  /\ worker' = [t \in HashTypes |->
                  [worker[t] EXCEPT !.pc = IF t \in htypes THEN "recv" ELSE "none"]]
  /\ Goto("loop")
  /\ UNCHANGED <<job, full, closed, content, digest, exit>>

OpenFails ==
  /\ main.pc = "open"
  /\ "open" \in Faults
  /\ Exit("FAILURE")
  /\ UNCHANGED <<job, handles, full, empty, closed, worker, content, digest>>

(* read_at_offset fills the front of the buffer and leaves the rest.       *)
ReadLen == LET rest == job.size - main.off IN IF rest < BufLen THEN rest ELSE BufLen

Filled(b) ==
  [i \in 1..BufLen |-> IF i <= ReadLen THEN main.off + i ELSE content[b][i]]

(* One turn of the loop: read, and then MultiHasher::update.               *)
ReadImage ==
  /\ job.tool = "e01" /\ main.pc = "loop" /\ main.off < job.size
  /\ content' = [content EXCEPT ![main.buf] = Filled(main.buf)]
  /\ main' = [main EXCEPT !.pc = IF handles = <<>> THEN "loop" ELSE "send",
                          !.off = IF handles = <<>> THEN @ + ReadLen ELSE @,
                          !.read = ReadLen, !.k = 1]
  /\ UNCHANGED <<job, handles, full, empty, closed, worker, digest, exit>>

(* A read that fails ends the run; so does the hasher, whose workers see   *)
(* their channels close.                                                   *)
ReadFails ==
  /\ main.pc = "loop" /\ main.off < job.size
  /\ "read" \in Faults
  /\ Exit("FAILURE")
  /\ UNCHANGED <<job, handles, full, empty, closed, worker, content, digest>>

(* update hands the buffer to one worker after the other, and waits where  *)
(* the worker still has the buffer before.                                 *)
Send ==
  /\ main.pc = "send"
  /\ LET t == handles[main.k] IN
       /\ Len(full[t]) < 1
       /\ full' = [full EXCEPT ![t] = Append(@, [len |-> main.read, buf |-> main.buf])]
  /\ main' = IF main.k < Len(handles) THEN [main EXCEPT !.k = @ + 1]
                                      ELSE [main EXCEPT !.pc = "recv", !.k = 1]
  /\ UNCHANGED <<job, handles, empty, closed, worker, content, digest, exit>>

(* The references to buffer b that are left when the caller holds one.     *)
InUse(b) ==
  \E t \in HashTypes :
    \/ worker[t].buf = b
    \/ \E i \in DOMAIN full[t] : full[t][i].buf = b
    \/ \E i \in DOMAIN empty'[t] : empty'[t][i] = b

(* Mutant: the buffer comes back from the last worker only.                *)
RecvLast ==
  /\ main.pc = "recv"
  /\ LET t == Last(handles) IN
       /\ empty[t] # <<>>
       /\ empty' = [empty EXCEPT ![t] = Tail(@)]
       /\ main' = [main EXCEPT !.pc = "loop", !.buf = Head(empty[t]),
                               !.off = @ + main.read, !.k = 1]
  /\ UNCHANGED <<job, handles, full, closed, worker, content, digest, exit>>

(* update then takes one buffer from each worker.  All of them are the     *)
(* same buffer, and the last reference to it: else into_inner panics.      *)
Recv ==
  /\ main.pc = "recv"
  /\ LET t == handles[main.k] IN
       /\ empty[t] # <<>>
       /\ empty' = [empty EXCEPT ![t] = Tail(@)]
       /\ IF main.k < Len(handles)
            THEN main' = [main EXCEPT !.k = @ + 1]
            ELSE main' = [main EXCEPT !.pc = IF InUse(Head(empty[t])) THEN "panic" ELSE "loop",
                                      !.buf = Head(empty[t]),
                                      !.off = @ + main.read, !.k = 1]
  /\ UNCHANGED <<job, handles, full, closed, worker, content, digest, exit>>

-----------------------------------------------------------------------------
(* A worker: take a full buffer, hash its front, give it back.             *)
WorkerRecv(t) ==
  /\ worker[t].pc = "recv"
  /\ \/ /\ full[t] # <<>>
        /\ worker' = [worker EXCEPT ![t] = [pc |-> "hash", buf |-> Head(full[t]).buf,
                                            len |-> Head(full[t]).len]]
        /\ full' = [full EXCEPT ![t] = Tail(@)]
     \/ /\ full[t] = <<>> /\ t \in closed
        /\ worker' = [worker EXCEPT ![t].pc = "done"]
        /\ UNCHANGED full
  /\ UNCHANGED <<job, main, handles, empty, closed, content, digest, exit>>

(* Mutant: the whole buffer, whatever its length.                          *)
FedWhole(b, n) == content[b]

Fed(b, n) == SubSeq(content[b], 1, n)

WorkerHash(t) ==
  /\ worker[t].pc = "hash"
  /\ digest' = [digest EXCEPT ![t] = @ \o Fed(worker[t].buf, worker[t].len)]
  /\ worker' = [worker EXCEPT ![t].pc = "send"]
  /\ UNCHANGED <<job, main, handles, full, empty, closed, content, exit>>

(* The empty channel takes the buffer, or is gone and the worker ends.     *)
WorkerSend(t) ==
  /\ worker[t].pc = "send"
  /\ \/ /\ t \notin closed /\ Len(empty[t]) < 1
        /\ empty' = [empty EXCEPT ![t] = Append(@, worker[t].buf)]
        /\ worker' = [worker EXCEPT ![t] = [pc |-> "recv", buf |-> None, len |-> 0]]
     \/ /\ t \in closed
        /\ worker' = [worker EXCEPT ![t] = [pc |-> "done", buf |-> None, len |-> 0]]
        /\ UNCHANGED empty
  /\ UNCHANGED <<job, main, handles, full, closed, content, digest, exit>>

-----------------------------------------------------------------------------
(* finalize, one worker after the other: drop its channels, join it.       *)
BeginFinalize ==
  /\ job.tool = "e01" /\ main.pc = "loop" /\ main.off >= job.size
  /\ Goto(IF handles = <<>> THEN "check" ELSE "drop")
  /\ UNCHANGED <<job, handles, full, empty, closed, worker, content, digest, exit>>

(* Mutant: the channels live until the join returns.                       *)
DropChannelsLate ==
  /\ main.pc = "drop"
  /\ main' = [main EXCEPT !.pc = "join"]
  /\ UNCHANGED <<job, handles, full, empty, closed, worker, content, digest, exit>>

DropChannels ==
  /\ main.pc = "drop"
  /\ LET t == handles[main.k] IN
       /\ closed' = closed \cup {t}
       /\ empty' = [empty EXCEPT ![t] = <<>>]
  /\ main' = [main EXCEPT !.pc = "join"]
  /\ UNCHANGED <<job, handles, full, worker, content, digest, exit>>

Join ==
  /\ main.pc = "join"
  /\ worker[handles[main.k]].pc = "done"
  /\ main' = IF main.k < Len(handles) THEN [main EXCEPT !.pc = "drop", !.k = @ + 1]
                                      ELSE [main EXCEPT !.pc = "check", !.k = 1]
  /\ UNCHANGED <<job, handles, full, empty, closed, worker, content, digest, exit>>

-----------------------------------------------------------------------------
(* The hash of the image, as far as a comparison can tell.                 *)
Hash(t) == IF digest[t] = Bytes(job.size) THEN "same" ELSE "different"

(* check_hash: None without a computed hash; a mismatch only with a stored *)
(* one that differs.                                                       *)
check_hash(t) ==
  IF t \notin Range(handles) THEN None
  ELSE IF job.stored[t] # None /\ job.stored[t] # Hash(t) THEN "false" ELSE "true"

(* Mutant: the last comparison decides.                                    *)
CombineLast(l, r) == IF r = None THEN l ELSE r

(* flatten, and reduce with &&.                                            *)
Combine(l, r) ==
  IF l = None THEN r ELSE IF r = None THEN l
  ELSE IF l = "true" /\ r = "true" THEN "true" ELSE "false"

CheckHashes ==
  /\ main.pc = "check"
  /\ Exit(IF Combine(check_hash("MD5"), check_hash("SHA1")) = "false"
            THEN "FAILURE" ELSE "SUCCESS")
  /\ UNCHANGED <<job, handles, full, empty, closed, worker, content, digest>>

-----------------------------------------------------------------------------
(* The rawdisk and vmdk tools: do_hash for one path after the other, with  *)
(* one buffer and no other thread.  The readers return no byte only at the *)
(* end of the image, where the loop has ended already.                     *)
DoHashOpen(tool) ==
  /\ job.tool = tool /\ main.pc = "open"
  /\ digest' = [digest EXCEPT !["SHA1"] = <<>>]
  /\ main' = [main EXCEPT !.pc = "loop", !.off = 0]
  /\ UNCHANGED <<job, handles, full, empty, closed, worker, content, exit>>

DoHashRead(tool) ==
  /\ job.tool = tool /\ main.pc = "loop" /\ main.off < job.size
  /\ LET filled == Filled(main.buf) IN
       /\ content' = [content EXCEPT ![main.buf] = filled]
       /\ digest' = [digest EXCEPT !["SHA1"] = @ \o SubSeq(filled, 1, ReadLen)]
  /\ main' = [main EXCEPT !.off = @ + ReadLen]
  /\ UNCHANGED <<job, handles, full, empty, closed, worker, exit>>

(* The digest of this path is printed, and the next path is opened.        *)
NextPath(tool) ==
  /\ job.tool = tool /\ main.pc = "loop" /\ main.off >= job.size
  /\ job' = [job EXCEPT !.left = @ - 1]
  /\ IF job.left > 1 THEN Goto("open") /\ UNCHANGED exit ELSE Exit("SUCCESS")
  /\ UNCHANGED <<handles, full, empty, closed, worker, content, digest>>

rawdisk_do_hash == DoHashOpen("rawdisk") \/ DoHashRead("rawdisk") \/ NextPath("rawdisk")

vmdk_do_hash == DoHashOpen("vmdk") \/ DoHashRead("vmdk") \/ NextPath("vmdk")

-----------------------------------------------------------------------------
Worker(t) == WorkerRecv(t) \/ WorkerHash(t) \/ WorkerSend(t)

Main ==
  \/ Open \/ OpenFails \/ ReadImage \/ ReadFails \/ Send \/ Recv
  \/ BeginFinalize \/ DropChannels \/ Join \/ CheckHashes
  \/ rawdisk_do_hash \/ vmdk_do_hash

(* The process has ended.                                                  *)
Done == exit # None /\ UNCHANGED vars

Next ==
  \/ exit = None /\ (Main \/ \E t \in HashTypes : Worker(t))
  \/ Done

(* The operating system runs every thread that can run.                    *)
Fairness ==
  /\ WF_vars(exit = None /\ Main)
  /\ \A t \in HashTypes : WF_vars(exit = None /\ Worker(t))

Spec == Init /\ [][Next]_vars /\ Fairness

-----------------------------------------------------------------------------
TypeOK ==
  /\ main.pc \in {"open", "loop", "send", "recv", "drop", "join", "check", "exit", "panic"}
  /\ main.off \in 0..job.size /\ main.read \in 0..BufLen
  /\ main.buf \in Buffers
  /\ \A t \in HashTypes :
       /\ Len(full[t]) <= 1 /\ Len(empty[t]) <= 1
       /\ worker[t].buf \in Buffers \cup {None}
       /\ worker[t].pc \in {"none", "recv", "hash", "send", "done"}
  /\ exit \in {None, "SUCCESS", "FAILURE"}

(* The buffer the reading thread is about to fill is referred to by nobody *)
(* else: no worker still has to hash it, and into_inner never panics.      *)
BufferIsSole ==
  /\ main.pc # "panic"
  /\ main.pc = "loop" =>
       \A t \in HashTypes :
         /\ worker[t].buf # main.buf
         /\ \A i \in DOMAIN full[t] : full[t][i].buf # main.buf
         /\ \A i \in DOMAIN empty[t] : empty[t][i] # main.buf

(* A tool that reports success hashed every byte of the image once and in  *)
(* order, with every hasher: no worker ends before the last buffer, and    *)
(* what a shorter last read leaves in the buffer is not hashed.            *)
DigestsWhole ==
  exit = "SUCCESS" =>
    \A t \in IF job.tool = "e01" THEN htypes ELSE {"SHA1"} : digest[t] = Bytes(job.size)

(* Once the whole image is read (an empty one: opened), the tool fails     *)
(* exactly when a stored hash is not that of the image, whichever of the   *)
(* two it is.                                                              *)
ExitTellsMismatch ==
  job.tool = "e01" /\ exit # None /\ main.off = job.size /\ (job.size = 0 => handles # <<>>) =>
    (exit = "FAILURE" <=> \E t \in DOMAIN job.stored : job.stored[t] = "other")

(* The tool ends: the buffers never stop going round, and no join waits    *)
(* for a worker that waits for its channel.                                *)
Terminates == <>(exit # None)
=============================================================================
