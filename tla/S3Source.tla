------------------------------ MODULE S3Source ------------------------------
(***************************************************************************)
(* An image whose segments are S3 objects: resolving the credentials,      *)
(* probing for the segments, opening one source for each segment, and then *)
(* concurrent range reads, every one of which first brings the credentials *)
(* of its segment's bucket up to date.                                     *)
(*                                                                         *)
(* Sources: imagesource/src/s3_creds.rs, s3source.rs, urlsource.rs and the *)
(* S3 half of exists.rs.                                                   *)
(*                                                                         *)
(* The locks are the code's: refresh_lock is an asynchronous mutex held    *)
(* over the call to the provider; the lock around a bucket is a fair       *)
(* read-write lock (tokio serves it first come, first served) that a GET   *)
(* holds for reading from the signature to the last byte.                  *)
(*                                                                         *)
(* Time is a clock with a bound.  Nothing in the code bounds how long a    *)
(* task waits between the freshness check and the signature, so the model  *)
(* says what EXPIRY_SKEW is chosen for: no task waits longer than Delay.   *)
(***************************************************************************)
EXTENDS Naturals, Sequences, FiniteSets, SequencesExt

CONSTANTS
  Fetches,        \* the tasks of the fetch runtime that read a source
  N,              \* the number of segments the image has
  ObjectLen,      \* the length of each object
  Requests,       \* the reads made: records [seg, beg, end]
  EXPIRY_SKEW,    \* how long before its expiry a credential is renewed
  Delay,          \* the longest wait between a freshness check and a signature
  Lifetimes,      \* for how long the provider's credentials are valid
  ExpiryKnown,    \* whether the provider may tell, or keep back, the expiry
  MaxTime,        \* the bound of the clock
  Faults,         \* what may fail: "provider", "probe", "denied", "length", "get"
  None

ASSUME DelayAssumption ==
  /\ Delay \in Nat /\ EXPIRY_SKEW \in Nat
  /\ 2 * Delay <= EXPIRY_SKEW
  /\ \A t \in Lifetimes : t \in Nat /\ t > 2 * Delay

ASSUME SourceAssumption ==
  /\ N \in Nat /\ MaxTime \in Nat /\ ObjectLen \in Nat
  /\ Requests \subseteq [seg : Nat, beg : Nat, end : Nat]
  /\ ExpiryKnown \subseteq BOOLEAN
  /\ None \notin Nat

Opener == "opener"          \* the thread that opens the image
ASSUME OpenerAssumption == Opener \notin Fetches

Tasks == Fetches \cup {Opener}

VARIABLES
  now,      \* the clock
  auth,     \* S3Auth: shared_creds, and whether there is a chain
  issued,   \* how many credentials the provider has handed out
  refresh,  \* refresh_lock: the tasks that wait for it, the holder first
  task,     \* what every task is doing
  answer,   \* the read that returned in the last step, and what it returned
  open,     \* what the opener has found: next name to probe, sources opened, and
            \* for OpenedWhole the segment whose denial ended the walk
  bucket,   \* the credentials of each bucket: of the checker (0), of a segment
  waiting,  \* the lock of each bucket: the tasks that wait, in order
  reading   \* the lock of each bucket: the tasks that hold it for reading

vars == <<now, auth, issued, refresh, task, answer, open, bucket, waiting, reading>>

-----------------------------------------------------------------------------
(* Credentials.  "id" stands for the three fields that are signed, "exp"   *)
(* is the expiry the provider reports (None when it reports none) and      *)
(* "until" is when the service stops accepting the credential.             *)

Forever == MaxTime + 1
Anonymous == [id |-> 0, exp |-> None, until |-> Forever]

Credentials ==
  [id : Nat, exp : Nat \cup {None}, until : Nat]

(* What the provider answers: a credential not handed out before.          *)
Provided ==
  {[id |-> issued + 1, exp |-> IF known THEN now + t ELSE None, until |-> now + t]
      : t \in Lifetimes, known \in ExpiryKnown}

(* Mutant: no margin before the expiry.                                    *)
is_expired_no_skew(c) == c.exp # None /\ c.exp <= now

is_expired(c) == c.exp # None /\ c.exp <= now + EXPIRY_SKEW

(* Mutant: a bucket keeps the credentials it was opened with.              *)
credentials_rotated_never(current, fresh) == FALSE

credentials_rotated(current, fresh) == current.id # fresh.id

Valid(c) == now < c.until

-----------------------------------------------------------------------------
(* Tasks.  "age" is the time since the task's freshness check.             *)

Checked == {"clone", "compare", "comparing", "write", "get", "locate", "head"}
Pcs == Checked \cup {"idle", "resolve", "fresh", "provide", "getting", "serving", "failed"}

Buckets == 0..N

Goto(i, pc) == task' = [task EXCEPT ![i].pc = pc]

Idle == [pc |-> "idle", cred |-> Anonymous, age |-> 0, req |-> None, signed |-> FALSE]

NoAnswer == answer' = None

(* A read returns: with the bytes [beg, end) of its object, or an error.   *)
Return(f, ok, beg, end) ==
  /\ task' = [task EXCEPT ![f] = Idle]
  /\ answer' = [req |-> task[f].req, ok |-> ok, beg |-> beg, end |-> end]

ReturnError(f) == Return(f, FALSE, 0, 0)

(* The refresh lock is released and the next waiting task holds it.        *)
Unlock == refresh' = Tail(refresh)

Holds(i) == refresh # <<>> /\ Head(refresh) = i

(* The bucket the opener has at hand: the checker's while it probes, the   *)
(* one it is building for a segment afterwards.                            *)
OpenBucket == IF open.probing THEN 0 ELSE open.seg

-----------------------------------------------------------------------------
Init ==
  /\ now = 0
  /\ auth = [shared |-> Anonymous, chain |-> FALSE]
  /\ issued = 0
  /\ refresh = <<>>
  /\ task = [i \in Tasks |->
               IF i = Opener THEN [Idle EXCEPT !.pc = "resolve"] ELSE Idle]
  /\ answer = None
  /\ open = [probing |-> TRUE, seg |-> 0, count |-> 0, located |-> FALSE, denied |-> 0]
  /\ bucket = [b \in Buckets |-> Anonymous]
  /\ waiting = [b \in Buckets |-> <<>>]
  /\ reading = [b \in Buckets |-> {}]

(* Time passes, but no task is kept longer than Delay between its          *)
(* freshness check and its signature.                                      *)
Tick ==
  /\ now < MaxTime
  /\ \A i \in Tasks : task[i].pc \in Checked => task[i].age < Delay
  /\ now' = now + 1
  /\ task' = [i \in Tasks |->
                IF task[i].pc \in Checked THEN [task[i] EXCEPT !.age = @ + 1]
                                          ELSE task[i]]
  /\ NoAnswer
  /\ UNCHANGED <<auth, issued, refresh, open, bucket, waiting, reading>>

-----------------------------------------------------------------------------
(* ensure_fresh_async, run by every task that is about to sign something.  *)

(* The guards of the lock and of the two early returns: no chain, or       *)
(* credentials that are not about to expire.                               *)
EnsureFresh(i) ==
  /\ task[i].pc = "fresh" /\ Holds(i)
  /\ IF auth.chain /\ is_expired(auth.shared)
       THEN /\ Goto(i, "provide")
            /\ UNCHANGED refresh
       ELSE /\ task' = [task EXCEPT ![i].pc = "clone", ![i].age = 0]
            /\ Unlock
  /\ NoAnswer
  /\ UNCHANGED <<now, auth, issued, open, bucket, waiting, reading>>

(* provide_credentials answers; the lock is still held.                    *)
Provide(i) ==
  /\ task[i].pc = "provide"
  /\ \E c \in Provided : auth' = [auth EXCEPT !.shared = c]
  /\ issued' = issued + 1
  /\ task' = [task EXCEPT ![i].pc = "clone", ![i].age = 0]
  /\ Unlock
  /\ NoAnswer
  /\ UNCHANGED <<now, open, bucket, waiting, reading>>

(* provide_credentials fails: the read, or the open, fails and the shared  *)
(* credentials stay as they are.                                           *)
ProvideFails(i) ==
  /\ task[i].pc = "provide"
  /\ "provider" \in Faults
  /\ IF i = Opener THEN Goto(i, "failed") /\ NoAnswer
                    ELSE ReturnError(i)
  /\ Unlock
  /\ UNCHANGED <<now, auth, issued, open, bucket, waiting, reading>>

-----------------------------------------------------------------------------
(* Opening: one thread, which drives the runtime with block_on.            *)

(* The opener asks for a snapshot of the credentials, and nobody else is   *)
(* there to hold the lock.                                                 *)
AskSnapshot ==
  /\ Goto(Opener, "fresh")
  /\ refresh' = <<Opener>>

(* resolve_s3_auth: the chain's credentials; when the chain has none, an   *)
(* error if something on this host configures them (aws_auth_configured)   *)
(* and anonymous access otherwise.                                         *)
ResolveAuth ==
  /\ task[Opener].pc = "resolve"
  /\ \/ /\ \E c \in Provided : auth' = [shared |-> c, chain |-> TRUE]
        /\ issued' = issued + 1
        /\ AskSnapshot
     \/ /\ "provider" \in Faults
        /\ UNCHANGED <<auth, issued>>
        /\ \/ Goto(Opener, "failed") /\ UNCHANGED refresh
           \/ AskSnapshot
  /\ NoAnswer
  /\ UNCHANGED <<now, open, bucket, waiting, reading>>

(* snapshot_credentials_sync returns.  The checker keeps its bucket and    *)
(* rewrites the credentials only when they rotated; s3_bucket makes a new  *)
(* bucket and, unless the region was just looked up, asks for the bucket's *)
(* location or, with a configured region or an access-point alias, does    *)
(* not.                                                                    *)
Snapshot ==
  /\ task[Opener].pc = "clone"
  /\ LET b     == OpenBucket
         keeps == open.probing /\ open.seg > 0
     IN /\ bucket' = IF keeps /\ ~credentials_rotated(bucket[b], auth.shared)
                       THEN bucket
                       ELSE [bucket EXCEPT ![b] = auth.shared]
        /\ \/ Goto(Opener, "head")
           \/ ~keeps /\ ~open.located /\ Goto(Opener, "locate")
  /\ open' = [open EXCEPT !.located = FALSE]
  /\ NoAnswer
  /\ UNCHANGED <<now, auth, issued, refresh, waiting, reading>>

(* bucket.location(): another region means a second snapshot and a new     *)
(* bucket; the same region, or an error, keeps the bucket.                 *)
Locate ==
  /\ task[Opener].pc = "locate"
  /\ \/ /\ Goto(Opener, "head")
        /\ UNCHANGED <<refresh, open>>
     \/ /\ Valid(bucket[OpenBucket])
        /\ AskSnapshot
        /\ open' = [open EXCEPT !.located = TRUE]
  /\ NoAnswer
  /\ UNCHANGED <<now, auth, issued, bucket, waiting, reading>>

(* S3Checker::new has its bucket; the walk starts at the first name.       *)
NewChecker ==
  /\ open.probing /\ open.seg = 0
  /\ task[Opener].pc = "head"
  /\ open' = [open EXCEPT !.seg = 1]
  /\ AskSnapshot
  /\ NoAnswer
  /\ UNCHANGED <<now, auth, issued, bucket, waiting, reading>>

(* What HEAD may answer: 403 to a credential that is no longer valid, for  *)
(* a missing key when the principal may not list the bucket, and for a key *)
(* that is there but that the principal may not read; None stands for a    *)
(* transport failure, which carries no status.                             *)
HeadStatuses(c, seg) ==
  (IF ~Valid(c) THEN {403}
   ELSE IF seg \in 1..N THEN {200} \cup (IF "denied" \in Faults THEN {403} ELSE {})
   ELSE {404, 410, 403})
    \cup IF "probe" \in Faults THEN {503, None} ELSE {}

(* The service refuses a segment that exists to a credential it accepts.   *)
Denied(code) == code = 403 /\ open.seg \in 1..N /\ Valid(bucket[0])

(* Mutant: whatever is not there is absent.                                *)
classify_head_status_lenient(code) ==
  CASE code = 200 -> "present"
    [] OTHER -> "absent"

classify_head_status(code) ==
  CASE code = 200 -> "present"
    [] code \in {404, 410} -> "absent"
    [] code = 403 -> "absent_or_forbidden"
    [] OTHER -> "undetermined"

(* S3Checker::exists on the next name of the sequence: a present name is   *)
(* counted, the first absent one ends the walk (an image without a segment *)
(* is refused), and an undetermined answer fails the open.                 *)
Probe ==
  /\ open.probing /\ open.seg > 0
  /\ task[Opener].pc = "head"
  /\ \E code \in HeadStatuses(bucket[0], open.seg) :
       LET verdict == classify_head_status(code) IN
       \/ /\ verdict = "present"
          /\ open' = [open EXCEPT !.seg = @ + 1, !.count = @ + 1]
          /\ AskSnapshot
       \/ /\ verdict \in {"absent", "absent_or_forbidden"} /\ open.count > 0
          /\ open' = [open EXCEPT !.probing = FALSE, !.seg = 1,
                                 !.denied = IF Denied(code) THEN open.seg ELSE 0]
          /\ AskSnapshot
       \/ /\ \/ verdict = "undetermined"
             \/ verdict \in {"absent", "absent_or_forbidden"} /\ open.count = 0
          /\ Goto(Opener, "failed")
          /\ UNCHANGED <<open, refresh>>
  /\ NoAnswer
  /\ UNCHANGED <<now, auth, issued, bucket, waiting, reading>>

(* source_for_url on one segment of the list: HEAD for the length.  Any    *)
(* status but 200, no length or a negative one fails the open.             *)
SourceForUrl ==
  /\ ~open.probing
  /\ task[Opener].pc = "head"
  /\ \E code \in HeadStatuses(bucket[open.seg], open.seg),
        len \in {"ok"} \cup (Faults \cap {"length"}) :
       \/ /\ code = 200 /\ len = "ok" /\ open.seg < open.count
          /\ open' = [open EXCEPT !.seg = @ + 1]
          /\ AskSnapshot
       \/ /\ code = 200 /\ len = "ok" /\ open.seg = open.count
          /\ Goto(Opener, "serving")
          /\ UNCHANGED <<open, refresh>>
       \/ /\ code # 200 \/ len # "ok"
          /\ Goto(Opener, "failed")
          /\ UNCHANGED <<open, refresh>>
  /\ NoAnswer
  /\ UNCHANGED <<now, auth, issued, bucket, waiting, reading>>

-----------------------------------------------------------------------------
(* Reading.                                                                *)

(* S3Source::read is called.                                               *)
Read(f) ==
  /\ task[Opener].pc = "serving"
  /\ task[f].pc = "idle"
  /\ \E q \in Requests :
       /\ q.seg <= open.count
       /\ task' = [task EXCEPT ![f].pc = "fresh", ![f].req = q]
  /\ refresh' = Append(refresh, f)
  /\ NoAnswer
  /\ UNCHANGED <<now, auth, issued, open, bucket, waiting, reading>>

Seg(f) == task[f].req.seg

Enqueue(f) == waiting' = [waiting EXCEPT ![Seg(f)] = Append(@, f)]

(* sync_credentials clones the shared credentials and asks for the bucket. *)
Clone(f) ==
  /\ f \in Fetches /\ task[f].pc = "clone"
  /\ task' = [task EXCEPT ![f].pc = "compare", ![f].cred = auth.shared]
  /\ Enqueue(f)
  /\ NoAnswer
  /\ UNCHANGED <<now, auth, issued, refresh, open, bucket, reading>>

(* The lock lets the first task of its queue in as a reader (a writer      *)
(* holds it for one step only).  A GET is signed with what the bucket then *)
(* holds; the service decides on the signature.                            *)
Acquire(f) ==
  /\ task[f].pc \in {"compare", "get"}
  /\ LET b == Seg(f) IN
       /\ waiting[b] # <<>> /\ Head(waiting[b]) = f
       /\ waiting' = [waiting EXCEPT ![b] = Tail(@)]
       /\ reading' = [reading EXCEPT ![b] = @ \cup {f}]
       /\ task' = [task EXCEPT
                     ![f].pc = IF @ = "get" THEN "getting" ELSE "comparing",
                     ![f].cred = IF task[f].pc = "get" THEN bucket[b] ELSE @,
                     ![f].signed = task[f].pc = "get" /\ Valid(bucket[b])]
  /\ NoAnswer
  /\ UNCHANGED <<now, auth, issued, refresh, open, bucket>>

(* The range of the request is empty or inverted: an error without a GET.  *)
Inverted(q) == q.end <= q.beg

(* What follows sync_credentials: the GET, or at once the error.           *)
AfterSync(f) ==
  IF Inverted(task[f].req)
    THEN ReturnError(f) /\ UNCHANGED waiting
    ELSE Goto(f, "get") /\ Enqueue(f) /\ NoAnswer

(* Mutant: the read guard lives on while the task waits for the write lock. *)
CompareKeepsGuard(f) ==
  /\ task[f].pc = "comparing"
  /\ LET b == Seg(f) IN
       IF credentials_rotated(bucket[b], task[f].cred)
         THEN Goto(f, "write") /\ Enqueue(f) /\ NoAnswer /\ UNCHANGED reading
         ELSE AfterSync(f) /\ reading' = [reading EXCEPT ![b] = @ \ {f}]
  /\ UNCHANGED <<now, auth, issued, refresh, open, bucket>>

(* The comparison releases its read lock before the task asks for the      *)
(* write lock.                                                             *)
Compare(f) ==
  /\ task[f].pc = "comparing"
  /\ LET b == Seg(f) IN
       /\ reading' = [reading EXCEPT ![b] = @ \ {f}]
       /\ IF credentials_rotated(bucket[b], task[f].cred)
            THEN Goto(f, "write") /\ Enqueue(f) /\ NoAnswer
            ELSE AfterSync(f)
  /\ UNCHANGED <<now, auth, issued, refresh, open, bucket>>

(* The write lock: first in the queue and no reader inside.                *)
WriteCredentials(f) ==
  /\ task[f].pc = "write"
  /\ LET b == Seg(f)
         q == Tail(waiting[b])
     IN /\ Head(waiting[b]) = f
        /\ reading[b] = {}
        /\ bucket' = [bucket EXCEPT ![b] = task[f].cred]
        /\ IF Inverted(task[f].req)
             THEN /\ ReturnError(f)
                  /\ waiting' = [waiting EXCEPT ![b] = q]
             ELSE /\ Goto(f, "get") /\ NoAnswer
                  /\ waiting' = [waiting EXCEPT ![b] = Append(q, f)]
  /\ UNCHANGED <<now, auth, issued, refresh, open, reading>>

(* What the GET may bring: the range; an answer that was cut short; the    *)
(* whole object, from an endpoint that ignores the Range header; an error. *)
Answers(q, signed) ==
  IF ~signed THEN {[status |-> 403, beg |-> 0, end |-> 0]}
  ELSE {[status |-> 206, beg |-> q.beg, end |-> q.end]}
         \cup IF "get" \in Faults
                THEN {[status |-> 206, beg |-> q.beg, end |-> q.end - 1],
                      [status |-> 200, beg |-> 0, end |-> ObjectLen],
                      [status |-> None, beg |-> 0, end |-> 0]}
                ELSE {}

(* Mutant: any successful status will do.                                  *)
check_range_response_lax(q, status, got) == status \in {200, 206}

check_range_response(q, status, got) == status = 206 /\ got = q.end - q.beg

(* The GET ends and its lock is released.                                  *)
GetReturns(f) ==
  /\ task[f].pc = "getting"
  /\ \E a \in Answers(task[f].req, task[f].signed) :
       IF check_range_response(task[f].req, a.status, a.end - a.beg)
         THEN Return(f, TRUE, a.beg, a.end)
         ELSE ReturnError(f)
  /\ reading' = [reading EXCEPT ![Seg(f)] = @ \ {f}]
  /\ UNCHANGED <<now, auth, issued, refresh, open, bucket, waiting>>
-----------------------------------------------------------------------------
(* What each task does of its own accord, a read's start apart.            *)
FetchStep(f) ==
  \/ EnsureFresh(f) \/ Provide(f) \/ ProvideFails(f)
  \/ Clone(f) \/ Acquire(f) \/ Compare(f) \/ WriteCredentials(f) \/ GetReturns(f)

OpenStep ==
  \/ ResolveAuth \/ EnsureFresh(Opener) \/ Provide(Opener) \/ ProvideFails(Opener)
  \/ Snapshot \/ Locate \/ NewChecker \/ Probe \/ SourceForUrl

(* The open failed and the program is done with the image.                 *)
Failed == task[Opener].pc = "failed" /\ UNCHANGED vars

Next ==
  \/ Tick \/ OpenStep \/ Failed
  \/ \E f \in Fetches : Read(f) \/ FetchStep(f)

(* The runtime polls every task that is ready, and the provider and the    *)
(* service answer or time out; nobody has to start a read.                 *)
Fairness == WF_vars(OpenStep) /\ \A f \in Fetches : WF_vars(FetchStep(f))

Spec == Init /\ [][Next]_vars /\ Fairness

-----------------------------------------------------------------------------
TypeOK ==
  /\ now \in 0..MaxTime
  /\ auth.shared \in Credentials /\ auth.chain \in BOOLEAN
  /\ issued \in Nat
  /\ open \in [probing : BOOLEAN, seg : 0..N + 1, count : 0..N, located : BOOLEAN,
               denied : 0..N]
  /\ \A i \in Tasks :
       /\ task[i].pc \in Pcs /\ task[i].age \in 0..Delay /\ task[i].cred \in Credentials
  /\ answer \in {None} \cup
       [req : Requests, ok : BOOLEAN, beg : 0..ObjectLen, end : 0..ObjectLen]
  /\ refresh \in Seq(Tasks) /\ IsInjective(refresh)
  /\ \A b \in Buckets :
       /\ bucket[b] \in Credentials
       /\ waiting[b] \in Seq(Fetches) /\ IsInjective(waiting[b])
       /\ reading[b] \subseteq Fetches

(* Whatever is signed with credentials whose expiry is known is signed     *)
(* while the service still accepts them: a HEAD or a location request of   *)
(* the opener at any moment it may be sent, and a GET, even when another   *)
(* fetch put its older snapshot into the bucket between this fetch's       *)
(* comparison and its signature.                                           *)
SignedWhileValid ==
  /\ \A f \in Fetches :
       task[f].pc = "getting" /\ task[f].cred.exp # None => task[f].signed
  /\ task[Opener].pc \in {"locate", "head"} /\ bucket[OpenBucket].exp # None
       => Valid(bucket[OpenBucket])

(* An image that opens has all its segments: no failure of a probe or of   *)
(* the provider, and no credential that expires without notice, makes the  *)
(* program serve a short image.  The one thing that does is the service    *)
(* denying, to a credential it accepts, the very segment after the last    *)
(* one served: the code reads its 403 as the end of the image and warns.   *)
OpenedWhole ==
  task[Opener].pc = "serving" => open.count = N \/ open.denied = open.count + 1

(* A read that succeeds returns the bytes it was asked for, and one of an  *)
(* empty or inverted range fails.                                          *)
AnswersAreExact ==
  answer # None /\ answer.ok =>
    /\ answer.beg = answer.req.beg /\ answer.end = answer.req.end
    /\ answer.beg < answer.end

(* Every read returns and the open ends, whoever else is refreshing,       *)
(* rewriting the bucket or reading through it: neither lock is kept.       *)
TasksFinish ==
  /\ \A f \in Fetches : task[f].pc # "idle" ~> task[f].pc = "idle"
  /\ <>(task[Opener].pc \in {"serving", "failed"})
=============================================================================
