--------------------------- MODULE S3SourceProofs ---------------------------
(***************************************************************************)
(* Proofs about S3Source, for every number of fetches and segments, every  *)
(* lifetime of the credentials and every bound of the clock.               *)
(*   CredsInv   a credential is known by its id, and its expiry is true;   *)
(*   FetchInv   how long what a fetch is about to sign with is still       *)
(*              valid, counted from its own freshness check, and that no   *)
(*              request with an empty range gets as far as a GET;          *)
(*   OpenInv    the opener is alone until it is done, and what it signs    *)
(*              with is the shared credential;                             *)
(*   WalkInv    how many segments were counted, and what a walk that ended *)
(*              early says about the credentials.                          *)
(* The queues of the two locks play no part.                               *)
(***************************************************************************)
EXTENDS S3Source, TLAPS

TaskStates ==
    [pc : Pcs, cred : Credentials, age : 0 .. Delay, req : Requests \cup {None},
     signed : BOOLEAN]

OpenStates ==
    [probing : BOOLEAN, seg : 0 .. N + 1, count : 0 .. N, located : BOOLEAN, denied : 0 .. N]

TypeInv ==
    /\ now \in Nat /\ now <= MaxTime
    /\ auth \in [shared : Credentials, chain : BOOLEAN]
    /\ issued \in Nat
    /\ task \in [Tasks -> TaskStates]
    /\ open \in OpenStates
    /\ bucket \in [Buckets -> Credentials]

\* The credentials that are anywhere in the program.
Known ==
    {Anonymous, auth.shared} \cup {bucket[b] : b \in Buckets} \cup {task[i].cred : i \in Tasks}

\* Two credentials with the same id are the same, none comes from the future, and
\* an expiry that is known is the service's.
CredsInv ==
    /\ \A c \in Known : c.id <= issued /\ (c.exp # None => c.exp = c.until)
    /\ \A c, d \in Known : c.id = d.id => c = d
    /\ ~auth.chain => auth.shared.exp = None

\* The credential outlives the task's freshness check by more than "margin".
Lasts(c, age, margin) == c.exp = None \/ c.until + age > now + margin

FetchPcs ==
    {"idle", "fresh", "provide", "clone", "compare", "comparing", "write", "get", "getting"}

\* How long what a fetch is about to sign with is still valid.  Another fetch may put an
\* older snapshot into the bucket, so that only half of the margin is left for the GET.
FetchInv(f) ==
    /\ task[f].pc \in FetchPcs
    /\ task[f].pc # "idle" => task[f].req \in Requests /\ Seg(f) \in Buckets
    /\ task[f].pc = "provide" => auth.chain
    /\ task[f].pc = "clone" => Lasts(auth.shared, task[f].age, 2 * Delay)
    /\ task[f].pc \in {"compare", "comparing", "write"} =>
        Lasts(task[f].cred, task[f].age, 2 * Delay)
    /\ task[f].pc = "get" => Lasts(bucket[Seg(f)], task[f].age, Delay)
    /\ task[f].pc = "getting" => task[f].cred.exp = None \/ task[f].signed
    /\ task[f].pc \in {"get", "getting"} => ~Inverted(task[f].req)

OpenerPcs == {"resolve", "fresh", "provide", "clone", "locate", "head", "serving", "failed"}

\* The opener is alone, and what it signs with is the shared credential.
OpenInv ==
    /\ task[Opener].pc \in OpenerPcs
    /\ task[Opener].pc # "serving" => \A f \in Fetches : task[f].pc = "idle"
    /\ task[Opener].pc \in {"clone", "locate", "head"} =>
        Lasts(auth.shared, task[Opener].age, 2 * Delay)
    /\ task[Opener].pc \in {"locate", "head"} => bucket[OpenBucket] = auth.shared
    /\ task[Opener].pc = "provide" => auth.shared.exp # None

\* A walk that missed a segment was denied that segment, or had a credential that the
\* service no longer takes and that will never be renewed.
WalkInv ==
    /\ open.probing => open.count = IF open.seg = 0 THEN 0 ELSE open.seg - 1
    /\ ~open.probing => open.seg \in 1 .. open.count
    /\ ~open.probing /\ open.count # N /\ open.denied # open.count + 1 =>
        /\ auth.shared.exp = None /\ ~Valid(auth.shared)
        /\ task[Opener].pc \notin {"resolve", "serving"}
    /\ OpenedWhole
    /\ task[Opener].pc = "resolve" => open.probing

Inv ==
    /\ TypeInv /\ CredsInv /\ OpenInv /\ WalkInv
    /\ \A f \in Fetches : FetchInv(f)
    /\ AnswersAreExact

-----------------------------------------------------------------------------
\* The credential of a program that has none.
LEMMA AnonymousFacts ==
    /\ Anonymous \in Credentials /\ Anonymous.exp = None /\ Anonymous.id = 0
    /\ Idle \in TaskStates /\ Idle.pc = "idle" /\ Idle.cred = Anonymous
<1>1. MaxTime + 1 \in Nat /\ 0 \in 0 .. Delay
  BY SourceAssumption, DelayAssumption
<1>2. Anonymous \in Credentials /\ Anonymous.exp = None /\ Anonymous.id = 0
  BY <1>1 DEF Anonymous, Credentials, Forever
<1>. HIDE DEF Anonymous, Credentials
<1>. QED  BY <1>1, <1>2 DEF Idle, TaskStates, Pcs, Checked

\* What is known at every state about a task and a credential.
LEMMA TypeFacts ==
    ASSUME TypeInv
    PROVE  /\ Opener \in Tasks /\ \A f \in Fetches : f \in Tasks /\ f # Opener
           /\ \A i \in Tasks : task[i] \in TaskStates
           /\ \A c \in Known : c \in Credentials
           /\ Anonymous \in Known /\ auth.shared \in Known
           /\ \A i \in Tasks : task[i].cred \in Known /\ task[i].age \in 0 .. Delay
           /\ \A b \in Buckets : bucket[b] \in Known
<1>1. Opener \in Tasks /\ \A f \in Fetches : f \in Tasks /\ f # Opener
  BY OpenerAssumption DEF Tasks
<1>2. \A i \in Tasks : task[i] \in TaskStates
  BY DEF TypeInv
<1>3. \A i \in Tasks : task[i].cred \in Credentials /\ task[i].age \in 0 .. Delay
  BY <1>2 DEF TaskStates
<1>4. \A c \in Known : c \in Credentials
  BY <1>3, AnonymousFacts DEF Known, TypeInv
<1>. QED  BY <1>1, <1>2, <1>3, <1>4 DEF Known

\* No new credential: what holds of the known ones still does.
LEMMA CredsFrame ==
    ASSUME CredsInv, auth' = auth, issued' = issued,
           \A b \in Buckets : bucket'[b] \in Known,
           \A i \in Tasks : task'[i].cred \in Known
    PROVE  CredsInv'
<1>1. Anonymous' = Anonymous
  BY DEF Anonymous, Forever
<1>2. Known' \subseteq Known
  BY <1>1 DEF Known
<1>. QED  BY <1>2 DEF CredsInv

\* The provider's credential has an id that no other has, and lasts.
LEMMA ProvidedFacts ==
    ASSUME TypeInv, CredsInv, NEW c \in Provided
    PROVE  /\ c \in Credentials /\ c.id = issued + 1
           /\ c.exp # None => c.exp = c.until
           /\ c.until > now + 2 * Delay
<1>1. PICK t \in Lifetimes, known \in ExpiryKnown :
        c = [id |-> issued + 1, exp |-> IF known THEN now + t ELSE None, until |-> now + t]
  BY DEF Provided
<1>2. t \in Nat /\ t > 2 * Delay /\ Delay \in Nat /\ now \in Nat /\ issued \in Nat
  BY DelayAssumption DEF TypeInv
<1>3. now + t \in Nat /\ issued + 1 \in Nat
  BY <1>2
<1>4. c.id = issued + 1 /\ c.until = now + t /\ (c.exp = now + t \/ c.exp = None)
  BY <1>1
<1>5. c \in Credentials
  BY <1>1, <1>3 DEF Credentials
<1>. QED  BY <1>2, <1>4, <1>5

\* New credentials of the provider have an id of their own.
LEMMA ProvidedCreds ==
    ASSUME TypeInv, CredsInv, NEW c \in Provided,
           auth'.shared = c, auth'.chain = TRUE, issued' = issued + 1, bucket' = bucket,
           \A i \in Tasks : task'[i].cred = task[i].cred
    PROVE  CredsInv'
<1>1. Anonymous' = Anonymous
  BY DEF Anonymous, Forever
<1>2. Known' \subseteq Known \cup {c}
  BY <1>1 DEF Known
<1>3. \A d \in Known : d.id \in Nat /\ d.id <= issued
  BY TypeFacts DEF CredsInv, Credentials
<1>4. \A d \in Known : d.id <= issued' /\ d.id # c.id
  BY <1>3, ProvidedFacts DEF TypeInv
<1>5. c.id <= issued' /\ (c.exp # None => c.exp = c.until)
  BY ProvidedFacts DEF TypeInv
<1>. QED  BY <1>2, <1>4, <1>5 DEF CredsInv

\* One task goes to another step and keeps the rest.
LEMMA GotoFacts ==
    ASSUME TypeInv, NEW i \in Tasks, NEW p \in Pcs, Goto(i, p)
    PROVE  /\ task' \in [Tasks -> TaskStates]
           /\ \A j \in Tasks \ {i} : task'[j] = task[j]
           /\ task'[i].pc = p /\ task'[i].cred = task[i].cred /\ task'[i].age = task[i].age
           /\ task'[i].req = task[i].req /\ task'[i].signed = task[i].signed
<1>1. task[i] \in TaskStates /\ task \in [Tasks -> TaskStates]
  BY DEF TypeInv
<1>2. task' = [task EXCEPT ![i] = [task[i] EXCEPT !.pc = p]]
  BY <1>1 DEF Goto
<1>3. [task[i] EXCEPT !.pc = p] \in TaskStates
  BY <1>1 DEF TaskStates
<1>. QED  BY <1>1, <1>2, <1>3 DEF TaskStates

\* A fetch that nothing has touched.
LEMMA FetchFrame ==
    ASSUME NEW g \in Fetches, FetchInv(g), task'[g] = task[g], now' = now,
           task[g].pc # "idle" => auth' = auth /\ bucket'[Seg(g)] = bucket[Seg(g)]
    PROVE  FetchInv(g)'
  BY DEF FetchInv, Lasts, Seg, Inverted

\* A fetch that is not idle is there only once the image is open.
LEMMA FetchServing ==
    ASSUME Inv, NEW f \in Fetches, task[f].pc # "idle"
    PROVE  task[Opener].pc = "serving" /\ task[f].req \in Requests /\ Seg(f) \in Buckets
  BY DEF Inv, OpenInv, FetchInv

\* What is left to show of the step of a fetch.
LEMMA FetchStepFrame ==
    ASSUME Inv, NEW f \in Fetches, task[Opener].pc = "serving",
           UNCHANGED <<now, open>>,
           task' \in [Tasks -> TaskStates], \A i \in Tasks \ {f} : task'[i] = task[i],
           auth' \in [shared : Credentials, chain : BOOLEAN], issued' \in Nat,
           bucket' \in [Buckets -> Credentials],
           CredsInv', AnswersAreExact', \A g \in Fetches : FetchInv(g)'
    PROVE  Inv'
<1>1. TypeInv'
  BY DEF Inv, TypeInv
<1>2. task'[Opener] = task[Opener]
  BY TypeFacts DEF Inv
<1>3. OpenInv'
  BY <1>2 DEF OpenInv, Inv, OpenerPcs
<1>4. WalkInv'
  BY <1>2 DEF WalkInv, Inv, OpenedWhole
<1>. QED  BY <1>1, <1>3, <1>4 DEF Inv

\* What is left to show of the step of the opener.
LEMMA OpenStepFrame ==
    ASSUME Inv, task[Opener].pc # "serving", answer' = None,
           \A f \in Fetches : task'[f] = task[f],
           TypeInv', CredsInv', WalkInv',
           task'[Opener].pc \in OpenerPcs,
           task'[Opener].pc \in {"clone", "locate", "head"} =>
               Lasts(auth.shared, task[Opener].age, 2 * Delay)',
           task'[Opener].pc \in {"locate", "head"} => bucket'[OpenBucket'] = auth'.shared,
           task'[Opener].pc = "provide" => auth'.shared.exp # None
    PROVE  Inv'
<1>1. \A f \in Fetches : task'[f].pc = "idle"
  BY DEF Inv, OpenInv
<1>2. OpenInv'
  BY <1>1 DEF OpenInv
<1>3. \A f \in Fetches : FetchInv(f)'
  BY <1>1 DEF FetchInv, FetchPcs
<1>4. AnswersAreExact'
  BY DEF AnswersAreExact
<1>. QED  BY <1>2, <1>3, <1>4 DEF Inv

-----------------------------------------------------------------------------
\* The image is not open and nothing was asked of the provider.
LEMMA InitInv == Init => Inv
<1>. SUFFICES ASSUME Init PROVE Inv
  OBVIOUS
<1>1. \A i \in Tasks : task[i] = IF i = Opener THEN [Idle EXCEPT !.pc = "resolve"] ELSE Idle
  BY DEF Init
<1>2. [Idle EXCEPT !.pc = "resolve"] \in TaskStates
      /\ [Idle EXCEPT !.pc = "resolve"].pc = "resolve"
      /\ [Idle EXCEPT !.pc = "resolve"].cred = Anonymous
  BY AnonymousFacts DEF TaskStates, Pcs
<1>3. \A i \in Tasks : task[i] \in TaskStates /\ task[i].cred = Anonymous
  BY <1>1, <1>2, AnonymousFacts
<1>4. Opener \in Tasks /\ \A f \in Fetches : f \in Tasks /\ f # Opener
  BY OpenerAssumption DEF Tasks
<1>5. task[Opener].pc = "resolve" /\ \A f \in Fetches : task[f].pc = "idle"
  BY <1>1, <1>2, <1>4, AnonymousFacts
<1>6. TypeInv
  <2>1. task \in [Tasks -> TaskStates]
    BY <1>3 DEF Init
  <2>2. auth \in [shared : Credentials, chain : BOOLEAN] /\ bucket \in [Buckets -> Credentials]
    BY AnonymousFacts DEF Init
  <2>3. open \in OpenStates
    BY SourceAssumption DEF OpenStates, Init
  <2>. QED  BY <2>1, <2>2, <2>3, SourceAssumption DEF Init, TypeInv
<1>7. CredsInv
  <2>1. Known = {Anonymous}
    BY <1>3 DEF Known, Init
  <2>. QED  BY <2>1, AnonymousFacts DEF CredsInv, Init
<1>8. OpenInv /\ WalkInv
  BY <1>5 DEF OpenInv, WalkInv, OpenedWhole, OpenerPcs, Init
<1>9. \A f \in Fetches : FetchInv(f)
  BY <1>5 DEF FetchInv, FetchPcs
<1>10. AnswersAreExact
  BY DEF Init, AnswersAreExact
<1>. QED  BY <1>6, <1>7, <1>8, <1>9, <1>10 DEF Inv

\* Time passes: a credential's life gets shorter as the task's check gets older.
LEMMA TickInv == ASSUME Inv, Tick PROVE Inv'
<1>1. /\ now' = now + 1 /\ now < MaxTime /\ answer' = None
      /\ UNCHANGED <<auth, issued, open, bucket>>
      /\ \A i \in Tasks : task[i].pc \in Checked => task[i].age < Delay
      /\ task' = [i \in Tasks |-> IF task[i].pc \in Checked
                                    THEN [task[i] EXCEPT !.age = @ + 1] ELSE task[i]]
  BY DEF Tick, NoAnswer
<1>2. TypeInv /\ Opener \in Tasks /\ Delay \in Nat /\ now \in Nat
      /\ \A f \in Fetches : f \in Tasks
  BY TypeFacts, DelayAssumption DEF Inv, TypeInv
<1>3. ASSUME NEW i \in Tasks
      PROVE  /\ task'[i] \in TaskStates
             /\ task'[i].pc = task[i].pc /\ task'[i].cred = task[i].cred
             /\ task'[i].req = task[i].req /\ task'[i].signed = task[i].signed
             /\ task[i].age \in Nat
             /\ task'[i].age = IF task[i].pc \in Checked THEN task[i].age + 1 ELSE task[i].age
  <2>1. task[i] \in TaskStates /\ task[i].age \in 0 .. Delay
    BY <1>2, TypeFacts
  <2>2. CASE task[i].pc \in Checked
    <3>1. PICK a \in 0 .. Delay : a = task[i].age + 1
      BY <1>1, <1>2, <2>1, <2>2
    <3>2. task'[i] = [task[i] EXCEPT !.age = a]
      BY <1>1, <2>2, <3>1
    <3>. QED  BY <2>1, <2>2, <3>1, <3>2 DEF TaskStates
  <2>3. CASE task[i].pc \notin Checked
    BY <1>1, <2>1, <2>3
  <2>. QED  BY <2>2, <2>3
<1>4. ASSUME NEW c \in Credentials, NEW i \in Tasks, NEW m \in Nat,
             task[i].pc \in Checked, Lasts(c, task[i].age, m)
      PROVE  c.exp = None \/ c.until + task'[i].age > now' + m
  <2>1. c.until \in Nat
    BY DEF Credentials
  <2>. QED  BY <1>1, <1>2, <1>3, <1>4, <2>1 DEF Lasts
<1>5. TypeInv'
  <2>1. task' \in [Tasks -> TaskStates]
    BY <1>1, <1>3
  <2>. QED  BY <1>1, <1>2, <2>1, SourceAssumption DEF TypeInv
<1>6. CredsInv'
  BY <1>1, <1>2, <1>3, TypeFacts, CredsFrame DEF Inv
<1>7. OpenInv'
  <2>1. auth.shared \in Credentials /\ 2 * Delay \in Nat
    BY <1>2 DEF TypeInv
  <2>2. task[Opener].pc \in {"clone", "locate", "head"} =>
          Lasts(auth.shared, task[Opener].age, 2 * Delay)'
    BY <1>1, <1>2, <1>4, <2>1 DEF Inv, OpenInv, Lasts, Checked
  <2>. QED  BY <1>1, <1>2, <1>3, <2>2 DEF Inv, OpenInv, OpenBucket
<1>8. WalkInv'
  <2>1. ~Valid(auth.shared) => ~Valid(auth.shared)'
    <3>1. auth.shared.until \in Nat
      BY <1>2 DEF TypeInv, Credentials
    <3>. QED  BY <1>1, <1>2, <3>1 DEF Valid
  <2>. QED  BY <1>1, <1>2, <1>3, <2>1 DEF Inv, WalkInv, OpenedWhole
<1>9. ASSUME NEW f \in Fetches PROVE FetchInv(f)'
  <2>1. FetchInv(f) /\ f \in Tasks /\ task[f].cred \in Credentials /\ 2 * Delay \in Nat
    BY <1>2, TypeFacts DEF Inv
  <2>2. task[f].pc # "idle" => bucket[Seg(f)] \in Credentials /\ Seg(f)' = Seg(f)
    BY <1>2, <1>3, <2>1 DEF FetchInv, TypeInv, Seg
  <2>3. task[f].pc = "clone" => Lasts(auth.shared, task[f].age, 2 * Delay)'
    BY <1>1, <1>2, <1>4, <2>1, TypeFacts DEF FetchInv, Lasts, Checked
  <2>4. task[f].pc \in {"compare", "comparing", "write"} =>
          Lasts(task[f].cred, task[f].age, 2 * Delay)'
    BY <1>1, <1>3, <1>4, <2>1 DEF FetchInv, Lasts, Checked
  <2>5. task[f].pc = "get" => Lasts(bucket[Seg(f)], task[f].age, Delay)'
    BY <1>1, <1>2, <1>4, <2>1, <2>2 DEF FetchInv, Lasts, Checked
  <2>. QED  BY <1>1, <1>3, <2>1, <2>2, <2>3, <2>4, <2>5 DEF FetchInv, Inverted
<1>10. AnswersAreExact'
  BY <1>1 DEF AnswersAreExact
<1>. QED  BY <1>5, <1>6, <1>7, <1>8, <1>9, <1>10 DEF Inv

\* A task has made sure of the credentials, and its clock starts.
LEMMA ToCloneFacts ==
    ASSUME TypeInv, NEW i \in Tasks, task' = [task EXCEPT ![i].pc = "clone", ![i].age = 0]
    PROVE  /\ task' \in [Tasks -> TaskStates]
           /\ \A j \in Tasks \ {i} : task'[j] = task[j]
           /\ task'[i].pc = "clone" /\ task'[i].age = 0 /\ task'[i].cred = task[i].cred
           /\ task'[i].req = task[i].req
<1>1. task[i] \in TaskStates /\ task \in [Tasks -> TaskStates] /\ 0 \in 0 .. Delay
  BY DelayAssumption DEF TypeInv
<1>2. task' = [task EXCEPT ![i] = [task[i] EXCEPT !.pc = "clone", !.age = 0]]
  BY <1>1
<1>3. [task[i] EXCEPT !.pc = "clone", !.age = 0] \in TaskStates
  BY <1>1 DEF TaskStates, Pcs, Checked
<1>. QED  BY <1>1, <1>2, <1>3 DEF TaskStates

\* Credentials that are not about to expire outlive the check by EXPIRY_SKEW.
LEMMA NotExpiredLasts ==
    ASSUME TypeInv, CredsInv, ~(auth.chain /\ is_expired(auth.shared))
    PROVE  auth.shared.exp = None \/ auth.shared.until + 0 > now + 2 * Delay
<1>1. auth.shared \in Known /\ auth.shared \in Credentials /\ auth.chain \in BOOLEAN
  BY TypeFacts DEF TypeInv
<1>2. auth.shared.exp # None => auth.shared.exp = auth.shared.until
  BY <1>1 DEF CredsInv
<1>3. auth.shared.until \in Nat /\ now \in Nat /\ Delay \in Nat /\ EXPIRY_SKEW \in Nat
      /\ 2 * Delay <= EXPIRY_SKEW
  BY <1>1, DelayAssumption DEF Credentials, TypeInv
<1>4. CASE ~auth.chain
  BY <1>4 DEF CredsInv
<1>5. CASE ~is_expired(auth.shared)
  <2>1. auth.shared.exp # None => ~(auth.shared.until <= now + EXPIRY_SKEW)
    BY <1>2, <1>5 DEF is_expired
  <2>. QED  BY <1>3, <2>1
<1>. QED  BY <1>4, <1>5

\* ensure_fresh_async finds the credentials good, or goes on to ask for others.
LEMMA EnsureFreshInv == ASSUME Inv, NEW i \in Tasks, EnsureFresh(i) PROVE Inv'
<1>1. /\ task[i].pc = "fresh" /\ answer' = None
      /\ UNCHANGED <<now, auth, issued, open, bucket>>
      /\ TypeInv /\ CredsInv
  BY DEF EnsureFresh, NoAnswer, Inv
<1>2. Opener \in Tasks /\ \A f \in Fetches : f \in Tasks /\ f # Opener
  BY <1>1, TypeFacts
<1>3. /\ task' \in [Tasks -> TaskStates]
      /\ \A j \in Tasks \ {i} : task'[j] = task[j]
      /\ task'[i].cred = task[i].cred /\ task'[i].req = task[i].req
      /\ \/ task'[i].pc = "provide" /\ auth.shared.exp # None /\ auth.chain
         \/ task'[i].pc = "clone" /\ Lasts(auth.shared, task[i].age, 2 * Delay)'
  <2>1. CASE auth.chain /\ is_expired(auth.shared)
    <3>1. Goto(i, "provide") /\ "provide" \in Pcs
      BY <2>1 DEF EnsureFresh, Pcs
    <3>2. auth.shared.exp # None
      BY <2>1 DEF is_expired
    <3>. QED  BY <1>1, <2>1, <3>1, <3>2, GotoFacts
  <2>2. CASE ~(auth.chain /\ is_expired(auth.shared))
    <3>1. task' = [task EXCEPT ![i].pc = "clone", ![i].age = 0]
      BY <2>2 DEF EnsureFresh
    <3>2. Lasts(auth.shared, task[i].age, 2 * Delay)'
      BY <1>1, <2>2, <3>1, ToCloneFacts, NotExpiredLasts DEF Lasts
    <3>. QED  BY <1>1, <3>1, <3>2, ToCloneFacts
  <2>. QED  BY <2>1, <2>2
<1>4. CredsInv'
  <2>1. \A j \in Tasks : task'[j].cred \in Known
    BY <1>1, <1>3, TypeFacts
  <2>. QED  BY <1>1, <2>1, TypeFacts, CredsFrame
<1>5. CASE i = Opener
  <2>1. TypeInv'
    BY <1>1, <1>3 DEF TypeInv
  <2>2. WalkInv'
    BY <1>1, <1>3, <1>5 DEF Inv, WalkInv, OpenedWhole, Valid
  <2>3. \A f \in Fetches : task'[f] = task[f]
    BY <1>2, <1>3, <1>5
  <2>4. task[Opener].pc # "serving" /\ task'[Opener].pc \in OpenerPcs
        /\ task'[Opener].pc \notin {"locate", "head"}
    BY <1>1, <1>3, <1>5 DEF OpenerPcs
  <2>. QED  BY <1>1, <1>3, <1>4, <1>5, <2>1, <2>2, <2>3, <2>4, OpenStepFrame
<1>6. CASE i \in Fetches
  <2>1. task[Opener].pc = "serving" /\ task[i].req \in Requests /\ Seg(i) \in Buckets
    BY <1>1, <1>6, FetchServing
  <2>2. FetchInv(i)'
    BY <1>1, <1>3, <1>6, <2>1 DEF FetchInv, FetchPcs, Seg
  <2>3. \A g \in Fetches : FetchInv(g)'
    BY <1>1, <1>2, <1>3, <1>6, <2>2, FetchFrame DEF Inv
  <2>4. AnswersAreExact'
    BY <1>1 DEF AnswersAreExact
  <2>. QED  BY <1>1, <1>3, <1>4, <1>6, <2>1, <2>3, <2>4, FetchStepFrame DEF TypeInv
<1>. QED  BY <1>5, <1>6 DEF Tasks

\* The provider answers, and every task that waits to clone gets the new credentials.
LEMMA ProvideInv == ASSUME Inv, NEW i \in Tasks, Provide(i) PROVE Inv'
<1>1. PICK c \in Provided : auth' = [auth EXCEPT !.shared = c]
  BY DEF Provide
<1>2. /\ task[i].pc = "provide" /\ answer' = None /\ issued' = issued + 1
      /\ UNCHANGED <<now, open, bucket>>
      /\ task' = [task EXCEPT ![i].pc = "clone", ![i].age = 0]
      /\ TypeInv /\ CredsInv
  BY DEF Provide, NoAnswer, Inv
<1>3. Opener \in Tasks /\ \A f \in Fetches : f \in Tasks /\ f # Opener
  BY <1>2, TypeFacts
<1>4. /\ task' \in [Tasks -> TaskStates]
      /\ \A j \in Tasks \ {i} : task'[j] = task[j]
      /\ task'[i].cred = task[i].cred /\ task'[i].req = task[i].req
      /\ task'[i].pc = "clone" /\ task'[i].age = 0
  BY <1>2, ToCloneFacts
<1>5. /\ c \in Credentials /\ c.until > now + 2 * Delay
      /\ auth' \in [shared : Credentials, chain : BOOLEAN]
      /\ auth'.shared = c /\ auth'.chain = auth.chain
  BY <1>1, <1>2, ProvidedFacts DEF TypeInv
<1>6. auth.chain = TRUE
  <2>1. CASE i = Opener
    BY <1>2, <2>1 DEF CredsInv, TypeInv, Inv, OpenInv
  <2>2. CASE i \in Fetches
    BY <1>2, <2>2 DEF TypeInv, Inv, FetchInv
  <2>. QED  BY <2>1, <2>2 DEF Tasks
<1>7. CredsInv'
  <2>1. \A j \in Tasks : task'[j].cred = task[j].cred
    BY <1>4
  <2>. QED  BY <1>2, <1>5, <1>6, <2>1, ProvidedCreds
<1>8. ASSUME NEW j \in Tasks PROVE Lasts(auth.shared, task[j].age, 2 * Delay)'
  <2>1. task'[j].age \in Nat /\ c.until \in Nat /\ now \in Nat /\ Delay \in Nat
    <3>1. task'[j] \in TaskStates
      BY <1>4
    <3>. QED  BY <1>2, <1>5, <3>1, DelayAssumption DEF TaskStates, Credentials, TypeInv
  <2>. QED  BY <1>2, <1>5, <2>1 DEF Lasts
<1>9. CASE i = Opener
  <2>1. TypeInv'
    BY <1>2, <1>4, <1>5 DEF TypeInv
  <2>2. WalkInv'
    BY <1>2, <1>4, <1>9 DEF Inv, OpenInv, WalkInv, OpenedWhole
  <2>3. \A f \in Fetches : task'[f] = task[f]
    BY <1>3, <1>4, <1>9
  <2>4. task[Opener].pc # "serving" /\ task'[Opener].pc \in OpenerPcs
        /\ task'[Opener].pc \notin {"locate", "head", "provide"}
    BY <1>2, <1>4, <1>9 DEF OpenerPcs
  <2>. QED  BY <1>2, <1>3, <1>7, <1>8, <2>1, <2>2, <2>3, <2>4, OpenStepFrame
<1>10. CASE i \in Fetches
  <2>1. task[Opener].pc = "serving" /\ task[i].req \in Requests /\ Seg(i) \in Buckets
    BY <1>2, <1>10, FetchServing
  <2>2. FetchInv(i)'
    BY <1>4, <1>8, <1>10, <2>1 DEF FetchInv, FetchPcs, Seg
  <2>3. ASSUME NEW g \in Fetches, g # i PROVE FetchInv(g)'
    BY <1>2, <1>3, <1>4, <1>5, <1>8, <2>3 DEF Inv, FetchInv, Lasts, Seg, Inverted
  <2>4. AnswersAreExact'
    BY <1>2 DEF AnswersAreExact
  <2>. QED  BY <1>2, <1>4, <1>5, <1>7, <1>10, <2>1, <2>2, <2>3, <2>4, FetchStepFrame DEF TypeInv
<1>. QED  BY <1>9, <1>10 DEF Tasks

\* A read returns, with an answer or an error, and its task is idle again.
LEMMA ReturnFacts ==
    ASSUME TypeInv, NEW f \in Fetches, NEW ok, NEW beg, NEW end, Return(f, ok, beg, end)
    PROVE  /\ task' \in [Tasks -> TaskStates]
           /\ \A j \in Tasks \ {f} : task'[j] = task[j]
           /\ task'[f].pc = "idle" /\ task'[f].cred = Anonymous
           /\ FetchInv(f)'
<1>1. task' = [task EXCEPT ![f] = Idle] /\ f \in Tasks /\ task \in [Tasks -> TaskStates]
  BY TypeFacts DEF Return, TypeInv
<1>2. task'[f] = Idle
  BY <1>1
<1>. QED  BY <1>1, <1>2, AnonymousFacts DEF FetchInv, FetchPcs

\* An answer that is an error is exact.
LEMMA ErrorFacts ==
    ASSUME NEW f, ReturnError(f)
    PROVE  AnswersAreExact'
  BY DEF ReturnError, Return, AnswersAreExact

\* A step of fetch f that changes nothing but its task and the locks.
LEMMA FetchOnlyTask ==
    ASSUME Inv, NEW f \in Fetches, task[f].pc # "idle" \/ task[Opener].pc = "serving",
           UNCHANGED <<now, auth, issued, open, bucket>>,
           task' \in [Tasks -> TaskStates], \A j \in Tasks \ {f} : task'[j] = task[j],
           task'[f].cred \in Known, FetchInv(f)', AnswersAreExact'
    PROVE  Inv'
<1>1. TypeInv /\ CredsInv /\ task[Opener].pc = "serving"
  BY FetchServing DEF Inv
<1>2. \A j \in Tasks : task'[j].cred \in Known
  BY <1>1, TypeFacts
<1>3. CredsInv'
  BY <1>1, <1>2, TypeFacts, CredsFrame
<1>4. \A g \in Fetches : FetchInv(g)'
  BY <1>1, TypeFacts, FetchFrame DEF Inv
<1>. QED  BY <1>1, <1>3, <1>4, FetchStepFrame DEF TypeInv

\* The provider fails: the open or the read does too.
LEMMA ProvideFailsInv == ASSUME Inv, NEW i \in Tasks, ProvideFails(i) PROVE Inv'
<1>1. /\ task[i].pc = "provide" /\ UNCHANGED <<now, auth, issued, open, bucket>>
      /\ TypeInv /\ CredsInv
  BY DEF ProvideFails, Inv
<1>2. Opener \in Tasks /\ \A f \in Fetches : f \in Tasks /\ f # Opener
  BY <1>1, TypeFacts
<1>3. CASE i = Opener
  <2>1. Goto(Opener, "failed") /\ answer' = None /\ "failed" \in Pcs
    BY <1>3 DEF ProvideFails, NoAnswer, Pcs
  <2>2. /\ task' \in [Tasks -> TaskStates] /\ task'[Opener].pc = "failed"
        /\ \A j \in Tasks : task'[j].cred = task[j].cred
        /\ \A f \in Fetches : task'[f] = task[f]
    BY <1>1, <1>2, <2>1, GotoFacts
  <2>3. TypeInv'
    BY <1>1, <2>2 DEF TypeInv
  <2>4. CredsInv'
    BY <1>1, <2>2, TypeFacts, CredsFrame
  <2>5. WalkInv'
    BY <1>1, <2>2 DEF Inv, WalkInv, OpenedWhole, Valid
  <2>. QED  BY <1>1, <1>3, <2>1, <2>2, <2>3, <2>4, <2>5, OpenStepFrame DEF OpenerPcs
<1>4. CASE i \in Fetches
  <2>1. ReturnError(i)
    BY <1>2, <1>4 DEF ProvideFails
  <2>2. Return(i, FALSE, 0, 0)
    BY <2>1 DEF ReturnError
  <2>3. task'[i].cred \in Known
    BY <1>1, <1>4, <2>2, ReturnFacts, TypeFacts
  <2>. QED  BY <1>1, <1>4, <2>1, <2>2, <2>3, ReturnFacts, ErrorFacts, FetchOnlyTask
<1>. QED  BY <1>3, <1>4 DEF Tasks

-----------------------------------------------------------------------------
\* The steps of the opener.

\* Resolving the credentials at open keeps the invariant.
LEMMA ResolveAuthInv == ASSUME Inv, ResolveAuth PROVE Inv'
<1>1. /\ task[Opener].pc = "resolve" /\ answer' = None /\ UNCHANGED <<now, open, bucket>>
      /\ TypeInv /\ CredsInv
  BY DEF ResolveAuth, NoAnswer, Inv
<1>2. Opener \in Tasks /\ \A f \in Fetches : f \in Tasks /\ f # Opener
  BY <1>1, TypeFacts
<1>3. PICK p \in {"fresh", "failed"} : Goto(Opener, p) /\ p \in Pcs
  BY DEF ResolveAuth, AskSnapshot, Pcs
<1>4. /\ task' \in [Tasks -> TaskStates] /\ task'[Opener].pc = p
      /\ \A j \in Tasks : task'[j].cred = task[j].cred
      /\ \A f \in Fetches : task'[f] = task[f]
  BY <1>1, <1>2, <1>3, GotoFacts
<1>5. /\ auth' \in [shared : Credentials, chain : BOOLEAN] /\ issued' \in Nat
      /\ CredsInv'
  <2>1. CASE \E c \in Provided : auth' = [shared |-> c, chain |-> TRUE] /\ issued' = issued + 1
    <3>1. PICK c \in Provided : auth' = [shared |-> c, chain |-> TRUE] /\ issued' = issued + 1
      BY <2>1
    <3>2. c \in Credentials /\ auth'.shared = c /\ auth'.chain = TRUE
      BY <1>1, <3>1, ProvidedFacts
    <3>3. CredsInv'
      BY <1>1, <1>4, <3>1, <3>2, ProvidedCreds
    <3>. QED  BY <1>1, <3>1, <3>2, <3>3 DEF TypeInv
  <2>2. CASE UNCHANGED <<auth, issued>>
    <3>1. CredsInv'
      BY <1>1, <1>4, <2>2, TypeFacts, CredsFrame
    <3>. QED  BY <1>1, <2>2, <3>1 DEF TypeInv
  <2>. QED  BY <2>1, <2>2 DEF ResolveAuth
<1>6. TypeInv'
  BY <1>1, <1>4, <1>5 DEF TypeInv
<1>7. WalkInv'
  BY <1>1, <1>3, <1>4 DEF Inv, WalkInv, OpenedWhole
<1>. QED  BY <1>1, <1>3, <1>4, <1>5, <1>6, <1>7, OpenStepFrame DEF OpenerPcs

\* The opener takes the shared credentials into the bucket it has at hand, unless the
\* bucket has them already.
LEMMA SnapshotInv == ASSUME Inv, Snapshot PROVE Inv'
<1>1. /\ task[Opener].pc = "clone" /\ answer' = None /\ UNCHANGED <<now, auth, issued>>
      /\ open' = [open EXCEPT !.located = FALSE] /\ TypeInv /\ CredsInv
  BY DEF Snapshot, NoAnswer, Inv
<1>2. Opener \in Tasks /\ \A f \in Fetches : f \in Tasks /\ f # Opener
  BY <1>1, TypeFacts
<1>3. PICK p \in {"head", "locate"} : Goto(Opener, p) /\ p \in Pcs
  BY DEF Snapshot, Pcs, Checked
<1>4. /\ task' \in [Tasks -> TaskStates] /\ task'[Opener].pc = p
      /\ task'[Opener].age = task[Opener].age
      /\ \A j \in Tasks : task'[j].cred = task[j].cred
      /\ \A f \in Fetches : task'[f] = task[f]
  BY <1>1, <1>2, <1>3, GotoFacts
<1>5. /\ open' \in OpenStates
      /\ open'.probing = open.probing /\ open'.seg = open.seg /\ open'.count = open.count
      /\ open'.denied = open.denied
  BY <1>1 DEF OpenStates, TypeInv
<1>6. OpenBucket' = OpenBucket /\ OpenBucket \in Buckets
  <2>1. 0 \in Buckets /\ (~open.probing => open.seg \in Buckets)
    <3>1. ~open.probing => open.seg \in 1 .. open.count
      BY DEF Inv, WalkInv
    <3>. QED  BY <1>1, <3>1, SourceAssumption DEF OpenStates, TypeInv, Buckets
  <2>. QED  BY <1>5, <2>1 DEF OpenBucket
<1>7. /\ bucket' \in [Buckets -> Credentials] /\ bucket'[OpenBucket] = auth.shared
      /\ \A b \in Buckets : bucket'[b] \in Known
  <2>1. CASE bucket' = [bucket EXCEPT ![OpenBucket] = auth.shared]
    BY <1>1, <1>6, <2>1, TypeFacts DEF TypeInv
  <2>2. CASE bucket' = bucket /\ ~credentials_rotated(bucket[OpenBucket], auth.shared)
    <3>1. bucket[OpenBucket].id = auth.shared.id
      BY <2>2 DEF credentials_rotated
    <3>2. bucket[OpenBucket] = auth.shared
      BY <1>1, <1>6, <3>1, TypeFacts DEF CredsInv
    <3>. QED  BY <1>1, <2>2, <3>2, TypeFacts DEF TypeInv
  <2>. QED  BY <2>1, <2>2 DEF Snapshot
<1>8. TypeInv'
  BY <1>1, <1>4, <1>5, <1>7 DEF TypeInv
<1>9. CredsInv'
  BY <1>1, <1>4, <1>7, TypeFacts, CredsFrame
<1>10. WalkInv'
  BY <1>1, <1>3, <1>4, <1>5 DEF Inv, WalkInv, OpenedWhole, Valid
<1>11. Lasts(auth.shared, task[Opener].age, 2 * Delay)'
  BY <1>1, <1>4 DEF Inv, OpenInv, Lasts
<1>. QED  BY <1>1, <1>3, <1>4, <1>6, <1>7, <1>8, <1>9, <1>10, <1>11, OpenStepFrame DEF OpenerPcs

\* The opener goes on to another step; what it has found may have changed.
LEMMA OpenerGoes ==
    ASSUME Inv, task[Opener].pc \in {"locate", "head"}, answer' = None,
           UNCHANGED <<now, auth, issued, bucket>>,
           NEW p \in {"fresh", "failed", "serving", "head"}, Goto(Opener, p),
           open' \in OpenStates,
           p = "head" => open' = open,
           task'[Opener].pc = p => WalkInv'
    PROVE  Inv'
<1>1. TypeInv /\ CredsInv /\ p \in Pcs
  BY DEF Inv, Pcs, Checked
<1>2. Opener \in Tasks /\ \A f \in Fetches : f \in Tasks /\ f # Opener
  BY <1>1, TypeFacts
<1>3. /\ task' \in [Tasks -> TaskStates] /\ task'[Opener].pc = p
      /\ task'[Opener].age = task[Opener].age
      /\ \A j \in Tasks : task'[j].cred = task[j].cred
      /\ \A f \in Fetches : task'[f] = task[f]
  BY <1>1, <1>2, GotoFacts
<1>4. TypeInv'
  BY <1>1, <1>3 DEF TypeInv
<1>5. CredsInv'
  BY <1>1, <1>3, TypeFacts, CredsFrame
<1>6. p = "head" => /\ Lasts(auth.shared, task[Opener].age, 2 * Delay)'
                    /\ bucket'[OpenBucket'] = auth'.shared
  BY <1>3 DEF Inv, OpenInv, Lasts, OpenBucket
<1>. QED  BY <1>3, <1>4, <1>5, <1>6, OpenStepFrame DEF OpenerPcs

\* The bucket's location is looked up.
LEMMA LocateInv == ASSUME Inv, Locate PROVE Inv'
<1>1. /\ task[Opener].pc = "locate" /\ answer' = None /\ UNCHANGED <<now, auth, issued, bucket>>
      /\ TypeInv
  BY DEF Locate, NoAnswer, Inv
<1>2. PICK p \in {"fresh", "head"} :
        /\ Goto(Opener, p) /\ (p = "head" => open' = open)
        /\ open' = open \/ open' = [open EXCEPT !.located = TRUE]
  BY DEF Locate, AskSnapshot
<1>3. /\ open' \in OpenStates
      /\ open'.probing = open.probing /\ open'.seg = open.seg /\ open'.count = open.count
      /\ open'.denied = open.denied
  <2>1. open \in OpenStates
    BY <1>1 DEF TypeInv
  <2>. QED  BY <1>2, <2>1 DEF OpenStates
<1>4. task'[Opener].pc = p => WalkInv'
  BY <1>1, <1>2, <1>3 DEF Inv, WalkInv, OpenedWhole, Valid
<1>. QED  BY <1>1, <1>2, <1>3, <1>4, OpenerGoes

\* The walk starts at the first name.
LEMMA NewCheckerInv == ASSUME Inv, NewChecker PROVE Inv'
<1>1. /\ task[Opener].pc = "head" /\ answer' = None /\ UNCHANGED <<now, auth, issued, bucket>>
      /\ open.probing /\ open.seg = 0 /\ open' = [open EXCEPT !.seg = 1] /\ Goto(Opener, "fresh")
      /\ TypeInv
  BY DEF NewChecker, AskSnapshot, NoAnswer, Inv
<1>2. /\ open' \in OpenStates
      /\ open'.probing /\ open'.seg = 1 /\ open'.count = open.count
      /\ open'.denied = open.denied
  <2>1. 1 \in 0 .. N + 1
    BY SourceAssumption
  <2>. QED  BY <1>1, <2>1 DEF OpenStates, TypeInv
<1>3. open.count = 0
  BY <1>1 DEF Inv, WalkInv
<1>4. task'[Opener].pc = "fresh" => WalkInv'
  BY <1>2, <1>3 DEF WalkInv, OpenedWhole
<1>. QED  BY <1>1, <1>2, <1>4, OpenerGoes

\* What a HEAD says about the name, and about the credentials it was signed with.
LEMMA HeadFacts ==
    ASSUME NEW c, NEW seg, NEW code \in HeadStatuses(c, seg)
    PROVE  /\ code = 200 => Valid(c) /\ seg \in 1 .. N
           /\ classify_head_status(code) = "present" => code = 200
           /\ classify_head_status(code) \in {"absent", "absent_or_forbidden"} =>
                ~Valid(c) \/ seg \notin 1 .. N \/ code = 403
<1>. USE SourceAssumption DEF HeadStatuses, classify_head_status
<1>1. code \in {200, 404, 410, 403, 503, None}
  OBVIOUS
<1>2. code = 200 => Valid(c) /\ seg \in 1 .. N
  OBVIOUS
<1>3. classify_head_status(code) = "present" => code = 200
  BY <1>1
<1>4. classify_head_status(code) \in {"absent", "absent_or_forbidden"} => code \in {404, 410, 403}
  BY <1>1
<1>5. code \in {404, 410, 403} => ~Valid(c) \/ seg \notin 1 .. N \/ code = 403
  OBVIOUS
<1>. QED  BY <1>2, <1>3, <1>4, <1>5

\* A credential whose expiry is known is valid whenever the opener sends a request.
LEMMA OpenerSignsValid ==
    ASSUME Inv, task[Opener].pc \in {"locate", "head"}
    PROVE  bucket[OpenBucket].exp = None \/ Valid(bucket[OpenBucket])
<1>1. bucket[OpenBucket] = auth.shared /\ Lasts(auth.shared, task[Opener].age, 2 * Delay)
  BY DEF Inv, OpenInv
<1>2. auth.shared.until \in Nat /\ now \in Nat /\ Delay \in Nat /\ task[Opener].age \in 0 .. Delay
  BY TypeFacts, DelayAssumption DEF Inv, TypeInv, Credentials
<1>. QED  BY <1>1, <1>2 DEF Lasts, Valid

\* The walk over the names: one more segment, the end, or an error.
LEMMA ProbeInv == ASSUME Inv, Probe PROVE Inv'
<1>1. /\ task[Opener].pc = "head" /\ answer' = None /\ UNCHANGED <<now, auth, issued, bucket>>
      /\ open.probing /\ open.seg > 0 /\ TypeInv
  BY DEF Probe, NoAnswer, Inv
<1>2. PICK code \in HeadStatuses(bucket[0], open.seg) :
        \/ /\ classify_head_status(code) = "present"
           /\ open' = [open EXCEPT !.seg = @ + 1, !.count = @ + 1]
           /\ Goto(Opener, "fresh")
        \/ /\ classify_head_status(code) \in {"absent", "absent_or_forbidden"} /\ open.count > 0
           /\ open' = [open EXCEPT !.probing = FALSE, !.seg = 1,
                                  !.denied = IF Denied(code) THEN open.seg ELSE 0]
           /\ Goto(Opener, "fresh")
        \/ open' = open /\ Goto(Opener, "failed")
  BY DEF Probe, AskSnapshot
<1>3. /\ open \in OpenStates
      /\ N \in Nat /\ open.count = open.seg - 1
  BY <1>1, SourceAssumption DEF TypeInv, Inv, WalkInv
<1>4. bucket[0] = auth.shared /\ (auth.shared.exp = None \/ Valid(auth.shared))
  BY <1>1, OpenerSignsValid DEF Inv, OpenInv, OpenBucket
<1>5. CASE classify_head_status(code) = "present" /\ Goto(Opener, "fresh")
           /\ open' = [open EXCEPT !.seg = @ + 1, !.count = @ + 1]
  <2>1. open.seg \in 1 .. N
    BY <1>5, HeadFacts
  <2>2. PICK s \in 0 .. N + 1, n \in 0 .. N : s = open.seg + 1 /\ n = open.count + 1
    BY <1>3, <2>1
  <2>3. open' = [open EXCEPT !.seg = s, !.count = n]
    BY <1>5, <2>2
  <2>4. /\ open' \in OpenStates
        /\ open'.probing /\ open'.seg = s /\ open'.count = n
    BY <1>1, <1>3, <2>3 DEF OpenStates
  <2>5. task'[Opener].pc = "fresh" => WalkInv'
    <3>1. n = IF s = 0 THEN 0 ELSE s - 1
      BY <1>3, <2>1, <2>2
    <3>. QED  BY <2>4, <3>1 DEF WalkInv, OpenedWhole
  <2>. QED  BY <1>1, <1>5, <2>4, <2>5, OpenerGoes
<1>6. CASE /\ classify_head_status(code) \in {"absent", "absent_or_forbidden"} /\ open.count > 0
           /\ open' = [open EXCEPT !.probing = FALSE, !.seg = 1,
                                  !.denied = IF Denied(code) THEN open.seg ELSE 0]
           /\ Goto(Opener, "fresh")
  <2>1. ~Valid(bucket[0]) \/ open.seg \notin 1 .. N \/ code = 403
    BY <1>6, HeadFacts
  <2>2. /\ 1 \in 0 .. N + 1 /\ 1 \in 1 .. open.count
        /\ (IF Denied(code) THEN open.seg ELSE 0) \in 0 .. N
    BY <1>3, <1>6 DEF Denied, OpenStates
  <2>3. /\ open' \in OpenStates
        /\ ~open'.probing /\ open'.seg = 1 /\ open'.count = open.count
        /\ open'.denied = IF Denied(code) THEN open.seg ELSE 0
    BY <1>3, <1>6, <2>2 DEF OpenStates
  <2>4. open.count # N /\ open'.denied # open.count + 1 =>
          auth.shared.exp = None /\ ~Valid(auth.shared)
    <3>1. open.seg \notin 1 .. N => open.count = N
      BY <1>1, <1>3 DEF OpenStates
    <3>2. open'.denied # open.count + 1 => ~Denied(code)
      BY <1>3, <2>3 DEF OpenStates
    <3>. QED  BY <1>4, <2>1, <3>1, <3>2 DEF Denied
  <2>5. task'[Opener].pc = "fresh" => WalkInv'
    BY <1>1, <2>2, <2>3, <2>4 DEF WalkInv, OpenedWhole, Valid
  <2>. QED  BY <1>1, <1>6, <2>3, <2>5, OpenerGoes
<1>7. CASE open' = open /\ Goto(Opener, "failed")
  <2>1. task'[Opener].pc = "failed" => WalkInv'
    BY <1>1, <1>7 DEF Inv, WalkInv, OpenedWhole, Valid
  <2>. QED  BY <1>1, <1>3, <1>7, <2>1, OpenerGoes
<1>. QED  BY <1>2, <1>5, <1>6, <1>7

\* One source after the other is opened; the last one opens the image.
LEMMA SourceForUrlInv == ASSUME Inv, SourceForUrl PROVE Inv'
<1>1. /\ task[Opener].pc = "head" /\ answer' = None /\ UNCHANGED <<now, auth, issued, bucket>>
      /\ ~open.probing /\ TypeInv
  BY DEF SourceForUrl, NoAnswer, Inv
<1>2. PICK code \in HeadStatuses(bucket[open.seg], open.seg) :
        \/ /\ code = 200 /\ open.seg < open.count
           /\ open' = [open EXCEPT !.seg = @ + 1] /\ Goto(Opener, "fresh")
        \/ code = 200 /\ open.seg = open.count /\ open' = open /\ Goto(Opener, "serving")
        \/ open' = open /\ Goto(Opener, "failed")
  BY DEF SourceForUrl, AskSnapshot
<1>3. /\ open \in OpenStates
      /\ N \in Nat /\ open.seg \in 1 .. open.count
      /\ open.count # N /\ open.denied # open.count + 1 =>
           auth.shared.exp = None /\ ~Valid(auth.shared)
  BY <1>1, SourceAssumption DEF TypeInv, Inv, WalkInv
<1>4. bucket[open.seg] = auth.shared
  BY <1>1 DEF Inv, OpenInv, OpenBucket
<1>5. code = 200 => open.count = N \/ open.denied = open.count + 1
  BY <1>3, <1>4, HeadFacts
<1>6. CASE code = 200 /\ open.seg < open.count
           /\ open' = [open EXCEPT !.seg = @ + 1] /\ Goto(Opener, "fresh")
  <2>1. PICK s \in 0 .. N + 1 : s = open.seg + 1 /\ s \in 1 .. open.count
    BY <1>3, <1>6 DEF OpenStates
  <2>2. open' = [open EXCEPT !.seg = s]
    BY <1>6, <2>1
  <2>3. /\ open' \in OpenStates
        /\ ~open'.probing /\ open'.seg = s /\ open'.count = open.count
        /\ open'.denied = open.denied
    BY <1>1, <1>3, <2>2 DEF OpenStates
  <2>4. task'[Opener].pc = "fresh" => WalkInv'
    BY <1>5, <1>6, <2>1, <2>3 DEF WalkInv, OpenedWhole
  <2>. QED  BY <1>1, <1>6, <2>3, <2>4, OpenerGoes
<1>7. CASE code = 200 /\ open.seg = open.count /\ open' = open /\ Goto(Opener, "serving")
  <2>1. task'[Opener].pc = "serving" => WalkInv'
    BY <1>1, <1>3, <1>5, <1>7 DEF WalkInv, OpenedWhole
  <2>. QED  BY <1>1, <1>3, <1>7, <2>1, OpenerGoes
<1>8. CASE open' = open /\ Goto(Opener, "failed")
  <2>1. task'[Opener].pc = "failed" => WalkInv'
    BY <1>1, <1>8 DEF Inv, WalkInv, OpenedWhole, Valid
  <2>. QED  BY <1>1, <1>3, <1>8, <2>1, OpenerGoes
<1>. QED  BY <1>2, <1>6, <1>7, <1>8

-----------------------------------------------------------------------------
\* The steps of a fetch.

\* A read is called.
LEMMA ReadInv == ASSUME Inv, NEW f \in Fetches, Read(f) PROVE Inv'
<1>1. /\ task[Opener].pc = "serving" /\ task[f].pc = "idle" /\ answer' = None
      /\ UNCHANGED <<now, auth, issued, open, bucket>> /\ TypeInv
  BY DEF Read, NoAnswer, Inv
<1>2. PICK q \in Requests :
        q.seg <= open.count /\ task' = [task EXCEPT ![f].pc = "fresh", ![f].req = q]
  BY DEF Read
<1>3. f \in Tasks /\ task[f] \in TaskStates /\ task \in [Tasks -> TaskStates]
      /\ task[f].cred \in Known
  BY <1>1, TypeFacts DEF TypeInv
<1>4. task' = [task EXCEPT ![f] = [task[f] EXCEPT !.pc = "fresh", !.req = q]]
  BY <1>2, <1>3
<1>5. [task[f] EXCEPT !.pc = "fresh", !.req = q] \in TaskStates
  BY <1>3 DEF TaskStates, Pcs
<1>6. /\ task' \in [Tasks -> TaskStates] /\ \A j \in Tasks \ {f} : task'[j] = task[j]
      /\ task'[f].pc = "fresh" /\ task'[f].req = q /\ task'[f].cred = task[f].cred
  BY <1>3, <1>4, <1>5 DEF TaskStates
<1>7. q.seg \in Buckets
  <2>1. q.seg \in Nat /\ open.count \in 0 .. N /\ N \in Nat
    BY <1>1, SourceAssumption DEF OpenStates, TypeInv
  <2>. QED  BY <1>2, <2>1 DEF Buckets
<1>8. FetchInv(f)'
  BY <1>6, <1>7 DEF FetchInv, FetchPcs, Seg
<1>9. AnswersAreExact'
  BY <1>1 DEF AnswersAreExact
<1>. QED  BY <1>1, <1>3, <1>6, <1>8, <1>9, FetchOnlyTask

\* sync_credentials takes its copy of the shared credentials.
LEMMA CloneInv == ASSUME Inv, NEW f \in Fetches, Clone(f) PROVE Inv'
<1>1. /\ task[f].pc = "clone" /\ answer' = None
      /\ UNCHANGED <<now, auth, issued, open, bucket>> /\ TypeInv
      /\ task' = [task EXCEPT ![f].pc = "compare", ![f].cred = auth.shared]
  BY DEF Clone, NoAnswer, Inv
<1>2. /\ f \in Tasks /\ task[f] \in TaskStates /\ task \in [Tasks -> TaskStates]
      /\ auth.shared \in Known /\ auth.shared \in Credentials
  BY <1>1, TypeFacts DEF TypeInv
<1>3. task' = [task EXCEPT ![f] = [task[f] EXCEPT !.pc = "compare", !.cred = auth.shared]]
  BY <1>1, <1>2
<1>4. [task[f] EXCEPT !.pc = "compare", !.cred = auth.shared] \in TaskStates
  BY <1>2 DEF TaskStates, Pcs, Checked
<1>5. /\ task' \in [Tasks -> TaskStates] /\ \A j \in Tasks \ {f} : task'[j] = task[j]
      /\ task'[f].pc = "compare" /\ task'[f].req = task[f].req
      /\ task'[f].cred = auth.shared /\ task'[f].age = task[f].age
  BY <1>2, <1>3, <1>4 DEF TaskStates
<1>6. FetchInv(f)'
  BY <1>1, <1>5 DEF Inv, FetchInv, FetchPcs, Seg, Lasts
<1>7. AnswersAreExact'
  BY <1>1 DEF AnswersAreExact
<1>. QED  BY <1>1, <1>2, <1>5, <1>6, <1>7, FetchOnlyTask

\* A GET is signed while the bucket's credentials are valid: half of the margin is
\* left when another fetch has just written the bucket, and the check is no older.
LEMMA AcquireInv == ASSUME Inv, NEW f \in Fetches, Acquire(f) PROVE Inv'
<1>1. /\ task[f].pc \in {"compare", "get"} /\ answer' = None
      /\ UNCHANGED <<now, auth, issued, open, bucket>> /\ TypeInv /\ FetchInv(f)
      /\ task' = [task EXCEPT
                    ![f].pc = IF @ = "get" THEN "getting" ELSE "comparing",
                    ![f].cred = IF task[f].pc = "get" THEN bucket[Seg(f)] ELSE @,
                    ![f].signed = task[f].pc = "get" /\ Valid(bucket[Seg(f)])]
  BY DEF Acquire, NoAnswer, Inv
<1>2. /\ f \in Tasks /\ task[f] \in TaskStates /\ task \in [Tasks -> TaskStates]
      /\ task[f].cred \in Known /\ task[f].cred \in Credentials
      /\ task[f].age \in 0 .. Delay /\ task[f].signed \in BOOLEAN
      /\ Seg(f) \in Buckets /\ bucket[Seg(f)] \in Known /\ bucket[Seg(f)] \in Credentials
  BY <1>1, TypeFacts DEF TypeInv, TaskStates, FetchInv
<1>. DEFINE c == bucket[Seg(f)]
<1>3. CASE task[f].pc = "get"
  <2>1. Valid(c) \in BOOLEAN /\ (task[f].pc = "get" /\ Valid(c)) = Valid(c)
    BY <1>3 DEF Valid
  <2>2. task' = [task EXCEPT ![f] = [task[f] EXCEPT !.pc = "getting", !.cred = c,
                                                     !.signed = Valid(c)]]
    BY <1>1, <1>2, <1>3, <2>1
  <2>3. [task[f] EXCEPT !.pc = "getting", !.cred = c, !.signed = Valid(c)] \in TaskStates
    BY <1>2, <2>1 DEF TaskStates, Pcs
  <2>4. /\ task' \in [Tasks -> TaskStates] /\ \A j \in Tasks \ {f} : task'[j] = task[j]
        /\ task'[f].pc = "getting" /\ task'[f].req = task[f].req
        /\ task'[f].cred = c /\ task'[f].signed = Valid(c)
    BY <1>2, <2>2, <2>3 DEF TaskStates
  <2>5. c.exp = None \/ Valid(c)
    <3>1. Lasts(c, task[f].age, Delay)
      BY <1>1, <1>3 DEF FetchInv
    <3>2. c.until \in Nat /\ now \in Nat /\ Delay \in Nat
      BY <1>1, <1>2, DelayAssumption DEF TypeInv, Credentials
    <3>. QED  BY <1>2, <3>1, <3>2 DEF Lasts, Valid
  <2>6. FetchInv(f)'
    BY <1>1, <1>3, <2>4, <2>5 DEF FetchInv, FetchPcs, Seg, Inverted
  <2>7. AnswersAreExact'
    BY <1>1 DEF AnswersAreExact
  <2>. QED  BY <1>1, <1>2, <2>4, <2>6, <2>7, FetchOnlyTask
<1>4. CASE task[f].pc = "compare"
  <2>1. task' = [task EXCEPT ![f] = [task[f] EXCEPT !.pc = "comparing", !.signed = FALSE]]
    BY <1>1, <1>2, <1>4
  <2>3. [task[f] EXCEPT !.pc = "comparing", !.signed = FALSE] \in TaskStates
    BY <1>2 DEF TaskStates, Pcs, Checked
  <2>4. /\ task' \in [Tasks -> TaskStates] /\ \A j \in Tasks \ {f} : task'[j] = task[j]
        /\ task'[f].pc = "comparing" /\ task'[f].req = task[f].req
        /\ task'[f].cred = task[f].cred /\ task'[f].age = task[f].age
    BY <1>2, <2>1, <2>3 DEF TaskStates
  <2>5. FetchInv(f)'
    BY <1>1, <1>4, <2>4 DEF FetchInv, FetchPcs, Seg, Lasts
  <2>6. AnswersAreExact'
    BY <1>1 DEF AnswersAreExact
  <2>. QED  BY <1>1, <1>2, <2>4, <2>5, <2>6, FetchOnlyTask
<1>. QED  BY <1>1, <1>3, <1>4

\* What a fetch asks for the GET with, given what the bucket then holds.
LEMMA LastsHalf ==
    ASSUME NEW c \in Credentials, TypeInv, NEW age \in 0 .. Delay, NEW other \in 0 .. Delay,
           Lasts(c, age, 2 * Delay)
    PROVE  Lasts(c, other, Delay)
<1>1. c.until \in Nat /\ now \in Nat /\ Delay \in Nat
  BY DelayAssumption DEF TypeInv, Credentials
<1>. QED  BY <1>1 DEF Lasts

\* The bucket has the fetch's credentials already, or the fetch asks for the write lock.
LEMMA CompareInv == ASSUME Inv, NEW f \in Fetches, Compare(f) PROVE Inv'
<1>1. /\ task[f].pc = "comparing" /\ UNCHANGED <<now, auth, issued, open, bucket>>
      /\ TypeInv /\ CredsInv /\ FetchInv(f)
  BY DEF Compare, Inv
<1>2. /\ f \in Tasks /\ task[f].cred \in Known /\ task[f].cred \in Credentials
      /\ task[f].age \in 0 .. Delay
      /\ Seg(f) \in Buckets /\ bucket[Seg(f)] \in Known
  BY <1>1, TypeFacts DEF FetchInv
<1>3. Lasts(task[f].cred, task[f].age, 2 * Delay)
  BY <1>1 DEF FetchInv
<1>4. ASSUME NEW p \in {"write", "get"}, Goto(f, p), answer' = None,
             p = "get" => ~Inverted(task[f].req) /\ bucket[Seg(f)].id = task[f].cred.id
      PROVE  Inv'
  <2>1. /\ task' \in [Tasks -> TaskStates] /\ \A j \in Tasks \ {f} : task'[j] = task[j]
        /\ task'[f].pc = p /\ task'[f].req = task[f].req
        /\ task'[f].cred = task[f].cred /\ task'[f].age = task[f].age
    <3>1. p \in Pcs
      BY DEF Pcs, Checked
    <3>. QED  BY <1>1, <1>2, <1>4, <3>1, GotoFacts
  <2>2. p = "get" => Lasts(bucket[Seg(f)], task[f].age, Delay)
    <3>1. p = "get" => bucket[Seg(f)] = task[f].cred
      BY <1>1, <1>2, <1>4 DEF CredsInv
    <3>. QED  BY <1>1, <1>2, <1>3, <3>1, LastsHalf
  <2>3. FetchInv(f)'
    BY <1>1, <1>3, <1>4, <2>1, <2>2 DEF FetchInv, FetchPcs, Seg, Lasts, Inverted
  <2>4. AnswersAreExact'
    BY <1>4 DEF AnswersAreExact
  <2>. QED  BY <1>1, <1>2, <2>1, <2>3, <2>4, FetchOnlyTask
<1>5. CASE credentials_rotated(bucket[Seg(f)], task[f].cred)
  <2>1. Goto(f, "write") /\ answer' = None
    BY <1>5 DEF Compare, NoAnswer
  <2>. QED  BY <1>4, <2>1
<1>6. CASE ~credentials_rotated(bucket[Seg(f)], task[f].cred) /\ ~Inverted(task[f].req)
  <2>1. Goto(f, "get") /\ answer' = None /\ bucket[Seg(f)].id = task[f].cred.id
    BY <1>6 DEF Compare, AfterSync, NoAnswer, credentials_rotated
  <2>. QED  BY <1>4, <1>6, <2>1
<1>7. CASE ~credentials_rotated(bucket[Seg(f)], task[f].cred) /\ Inverted(task[f].req)
  <2>1. ReturnError(f)
    BY <1>7 DEF Compare, AfterSync
  <2>2. Return(f, FALSE, 0, 0)
    BY <2>1 DEF ReturnError
  <2>3. task'[f].cred \in Known
    BY <1>1, <2>2, ReturnFacts, TypeFacts
  <2>. QED  BY <1>1, <2>1, <2>2, <2>3, ReturnFacts, ErrorFacts, FetchOnlyTask
<1>. QED  BY <1>5, <1>6, <1>7

\* The bucket gets the fetch's credentials; another fetch that waits to sign with the
\* bucket gets them too, old as this fetch's check may be.
LEMMA WriteCredentialsInv == ASSUME Inv, NEW f \in Fetches, WriteCredentials(f) PROVE Inv'
<1>1. /\ task[f].pc = "write" /\ UNCHANGED <<now, auth, issued, open>>
      /\ bucket' = [bucket EXCEPT ![Seg(f)] = task[f].cred]
      /\ TypeInv /\ CredsInv /\ FetchInv(f)
  BY DEF WriteCredentials, Inv
<1>2. /\ f \in Tasks /\ task[f].cred \in Known /\ task[f].cred \in Credentials
      /\ task[f].age \in 0 .. Delay /\ Seg(f) \in Buckets /\ task[Opener].pc = "serving"
      /\ \A g \in Fetches : g \in Tasks /\ task[g].age \in 0 .. Delay
  BY <1>1, TypeFacts, FetchServing DEF FetchInv
<1>3. /\ bucket' \in [Buckets -> Credentials] /\ \A b \in Buckets : bucket'[b] \in Known
      /\ bucket'[Seg(f)] = task[f].cred
      /\ \A b \in Buckets : b # Seg(f) => bucket'[b] = bucket[b]
  BY <1>1, <1>2, TypeFacts DEF TypeInv
<1>4. Lasts(task[f].cred, task[f].age, 2 * Delay)
  BY <1>1 DEF FetchInv
<1>5. \A g \in Fetches : Lasts(task[f].cred, task[g].age, Delay)
  BY <1>1, <1>2, <1>4, LastsHalf
<1>6. /\ task' \in [Tasks -> TaskStates] /\ \A j \in Tasks \ {f} : task'[j] = task[j]
      /\ task'[f].cred \in Known /\ FetchInv(f)' /\ AnswersAreExact'
  <2>1. CASE Inverted(task[f].req)
    <3>1. ReturnError(f)
      BY <2>1 DEF WriteCredentials
    <3>2. Return(f, FALSE, 0, 0)
      BY <3>1 DEF ReturnError
    <3>. QED  BY <1>1, <3>1, <3>2, ReturnFacts, ErrorFacts, TypeFacts
  <2>2. CASE ~Inverted(task[f].req)
    <3>1. Goto(f, "get") /\ answer' = None /\ "get" \in Pcs
      BY <2>2 DEF WriteCredentials, NoAnswer, Pcs, Checked
    <3>2. /\ task' \in [Tasks -> TaskStates] /\ \A j \in Tasks \ {f} : task'[j] = task[j]
          /\ task'[f].pc = "get" /\ task'[f].req = task[f].req
          /\ task'[f].cred = task[f].cred /\ task'[f].age = task[f].age
      BY <1>1, <1>2, <3>1, GotoFacts
    <3>3. FetchInv(f)'
      BY <1>1, <1>3, <1>5, <2>2, <3>2 DEF FetchInv, FetchPcs, Seg, Lasts, Inverted
    <3>. QED  BY <1>2, <3>1, <3>2, <3>3 DEF AnswersAreExact
  <2>. QED  BY <2>1, <2>2
<1>7. CredsInv'
  <2>1. \A j \in Tasks : task'[j].cred \in Known
    BY <1>1, <1>6, TypeFacts
  <2>. QED  BY <1>1, <1>3, <2>1, CredsFrame
<1>8. ASSUME NEW g \in Fetches, g # f PROVE FetchInv(g)'
  <2>1. FetchInv(g) /\ task'[g] = task[g]
    BY <1>2, <1>6, <1>8 DEF Inv
  <2>2. CASE task[g].pc # "idle" /\ Seg(g) = Seg(f)
    <3>1. task[g].pc = "get" => Lasts(bucket[Seg(g)], task[g].age, Delay)'
      BY <1>1, <1>3, <1>5, <2>1, <2>2 DEF Lasts, Seg
    <3>. QED  BY <1>1, <2>1, <3>1 DEF FetchInv, Lasts, Seg, Inverted
  <2>3. CASE task[g].pc = "idle" \/ Seg(g) # Seg(f)
    BY <1>1, <1>3, <2>1, <2>3, FetchFrame DEF FetchInv
  <2>. QED  BY <2>2, <2>3
<1>. QED  BY <1>1, <1>2, <1>3, <1>6, <1>7, <1>8, FetchStepFrame DEF TypeInv

\* The GET ends, and only the range that was asked for is an answer.
LEMMA GetReturnsInv == ASSUME Inv, NEW f \in Fetches, GetReturns(f) PROVE Inv'
<1>1. /\ task[f].pc = "getting" /\ UNCHANGED <<now, auth, issued, open, bucket>>
      /\ TypeInv /\ FetchInv(f)
  BY DEF GetReturns, Inv
<1>2. PICK q \in Requests : q = task[f].req /\ ~Inverted(q)
  BY <1>1 DEF FetchInv
<1>3. q.beg \in Nat /\ q.end \in Nat /\ q.beg < q.end
  <2>1. q \in [seg : Nat, beg : Nat, end : Nat]
    BY SourceAssumption
  <2>. QED  BY <1>2, <2>1 DEF Inverted
<1>4. PICK a \in Answers(q, task[f].signed) :
        IF check_range_response(q, a.status, a.end - a.beg)
          THEN Return(f, TRUE, a.beg, a.end) ELSE ReturnError(f)
  BY <1>2 DEF GetReturns
<1>5. CASE check_range_response(q, a.status, a.end - a.beg)
  <2>1. a.beg = q.beg /\ a.end = q.end
    <3>1. a.status = 206 /\ a.end - a.beg = q.end - q.beg
      BY <1>5 DEF check_range_response
    <3>2. \/ a = [status |-> 403, beg |-> 0, end |-> 0]
          \/ a = [status |-> 206, beg |-> q.beg, end |-> q.end]
          \/ a = [status |-> 206, beg |-> q.beg, end |-> q.end - 1]
          \/ a = [status |-> 200, beg |-> 0, end |-> ObjectLen]
          \/ a = [status |-> None, beg |-> 0, end |-> 0]
      BY <1>4 DEF Answers
    <3>3. None # 206
      BY SourceAssumption
    <3>. QED  BY <1>3, <3>1, <3>2, <3>3
  <2>2. Return(f, TRUE, a.beg, a.end)
    BY <1>4, <1>5
  <2>3. AnswersAreExact'
    BY <1>2, <1>3, <2>1, <2>2 DEF Return, AnswersAreExact
  <2>4. task'[f].cred \in Known
    BY <1>1, <2>2, ReturnFacts, TypeFacts
  <2>. QED  BY <1>1, <2>2, <2>3, <2>4, ReturnFacts, FetchOnlyTask
<1>6. CASE ~check_range_response(q, a.status, a.end - a.beg)
  <2>1. ReturnError(f)
    BY <1>4, <1>6
  <2>2. Return(f, FALSE, 0, 0)
    BY <2>1 DEF ReturnError
  <2>3. task'[f].cred \in Known
    BY <1>1, <2>2, ReturnFacts, TypeFacts
  <2>. QED  BY <1>1, <2>1, <2>2, <2>3, ReturnFacts, ErrorFacts, FetchOnlyTask
<1>. QED  BY <1>5, <1>6

-----------------------------------------------------------------------------
\* A stuttering step keeps the invariant.
LEMMA StutterInv == ASSUME Inv, UNCHANGED vars PROVE Inv'
<1>. USE DEF vars
<1>1. TypeInv' /\ TypeInv
  BY DEF Inv, TypeInv
<1>2. CredsInv'
  BY <1>1, TypeFacts, CredsFrame DEF Inv
<1>3. OpenInv'
  BY DEF Inv, OpenInv, Lasts, OpenBucket
<1>4. WalkInv'
  BY DEF Inv, WalkInv, OpenedWhole, Valid
<1>5. \A f \in Fetches : FetchInv(f)'
  BY FetchFrame DEF Inv
<1>6. AnswersAreExact'
  BY DEF Inv, AnswersAreExact
<1>. QED  BY <1>1, <1>2, <1>3, <1>4, <1>5, <1>6 DEF Inv

\* Every step keeps the invariant.
LEMMA NextInv == ASSUME Inv, [Next]_vars PROVE Inv'
<1>1. Opener \in Tasks /\ \A f \in Fetches : f \in Tasks
  BY DEF Tasks
<1>2. CASE Tick
  BY <1>2, TickInv
<1>3. CASE OpenStep
  BY <1>1, <1>3, ResolveAuthInv, EnsureFreshInv, ProvideInv, ProvideFailsInv, SnapshotInv,
     LocateInv, NewCheckerInv, ProbeInv, SourceForUrlInv DEF OpenStep
<1>4. CASE Failed \/ UNCHANGED vars
  BY <1>4, StutterInv DEF Failed
<1>5. ASSUME NEW f \in Fetches, Read(f) \/ FetchStep(f) PROVE Inv'
  BY <1>1, <1>5, ReadInv, EnsureFreshInv, ProvideInv, ProvideFailsInv, CloneInv, AcquireInv,
     CompareInv, WriteCredentialsInv, GetReturnsInv DEF FetchStep
<1>. QED  BY <1>2, <1>3, <1>4, <1>5 DEF Next

\* The inductive invariant: what every task may rely on between its freshness check and
\* its signature, whatever the other tasks do to the shared credentials and the buckets.
THEOREM CredentialInvariance == Spec => []Inv
<1>1. Init => Inv
  BY InitInv
<1>2. Inv /\ [Next]_vars => Inv'
  BY NextInv
<1>. QED  BY <1>1, <1>2, PTL DEF Spec

\* With an EXPIRY_SKEW of twice the longest wait, no request is signed with credentials
\* that are known to have expired, for any number of concurrent fetches.
THEOREM AlwaysSignedWhileValid == Spec => []SignedWhileValid
<1>1. ASSUME Inv PROVE SignedWhileValid
  <2>1. ASSUME NEW f \in Fetches, task[f].pc = "getting", task[f].cred.exp # None
        PROVE  task[f].signed
    BY <1>1, <2>1 DEF Inv, FetchInv
  <2>2. task[Opener].pc \in {"locate", "head"} /\ bucket[OpenBucket].exp # None
          => Valid(bucket[OpenBucket])
    BY <1>1, OpenerSignsValid
  <2>. QED  BY <2>1, <2>2 DEF SignedWhileValid
<1>. QED  BY <1>1, CredentialInvariance, PTL

\* An image that opens has all its segments, for any number of them, unless the service
\* denied a credential it accepts the segment after the last one served
\* (S3Checker::exists, source_for_url).
THEOREM AlwaysOpenedWhole == Spec => []OpenedWhole
<1>1. Inv => OpenedWhole
  BY DEF Inv, WalkInv
<1>. QED  BY <1>1, CredentialInvariance, PTL

\* A read that succeeds returns exactly the bytes it was asked for.
THEOREM AnswersStayExact == Spec => []AnswersAreExact
<1>1. Inv => AnswersAreExact
  BY DEF Inv
<1>. QED  BY <1>1, CredentialInvariance, PTL
=============================================================================
