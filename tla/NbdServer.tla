----------------------------- MODULE NbdServer -----------------------------
(***************************************************************************)
(* diskimage-nbd: the accept loop with its session slots, the lock on the  *)
(* image reader that a session holds for as long as it lasts, and the NBD  *)
(* handshake and transmission each session runs (server.rs,                *)
(* nbd_protocol.rs, the counters of io_log.rs).                            *)
(*                                                                         *)
(* Actors: the accept thread, one thread per accepted connection, and the  *)
(* clients, which connect, send what they like and hang up when they like. *)
(* Nothing in the server has a timeout.  A client's n-th request has       *)
(* handle n.  The bytes of a reply are the image offsets they come from.   *)
(***************************************************************************)
EXTENDS Integers, Sequences, FiniteSets

CONSTANTS
    Conns,                 \* connections, each made once
    MAX_PENDING_SESSIONS,  \* threads the accept loop lets live
    ExportSize,            \* size of the image
    READ_BUF_SIZE,         \* bytes read from the image at a time
    MAX_READ_LENGTH,       \* longest read that is served
    Requests,              \* what clients may send: records [typ, off, len]
    MaxRequests,           \* bound: requests per connection
    ImageFaults,           \* how a read of the image may fail: subset of FaultKinds
    None

FaultKinds == {"eof", "error", "panic"}

ASSUME NbdAssumption ==
    /\ MAX_PENDING_SESSIONS \in Nat \ {0}
    /\ ExportSize \in Nat
    /\ READ_BUF_SIZE \in Nat \ {0}
    /\ MAX_READ_LENGTH \in Nat
    /\ MaxRequests \in Nat
    /\ Requests \subseteq [typ : {"read", "write", "disc", "flush", "other", "badmagic"},
                           off : Nat, len : Nat]
    /\ ImageFaults \subseteq FaultKinds
    /\ None \notin Conns
    /\ IsFiniteSet(Conns)

VARIABLES
    pc,         \* per connection: where its thread is
    gone,       \* connections whose client has hung up
    accepting,  \* the connection the accept loop is finding a slot for, or None
    current,    \* the value of the slot counter it last saw
    sessions,   \* the slot counter
    owner,      \* holder of the image reader's lock, or None
    poisoned,   \* a session has panicked with the lock held
    reqs,       \* per connection: the requests received
    sent,       \* per connection: the replies sent, [handle, err, data]
    remaining,  \* per connection: bytes the current command has still to move
    owed,       \* per connection: payload bytes in the stream before the next header
    io_log      \* IoLog: whether it is serving yet, and the reads it has counted

wire == <<reqs, sent, remaining, owed, io_log>>

accept == <<accepting, current, sessions>>

vars == <<pc, gone, accept, owner, poisoned, wire>>

Init ==
    /\ pc = [c \in Conns |-> "away"]
    /\ gone = {}
    /\ accepting = None
    /\ current = 0
    /\ sessions = 0
    /\ owner = None
    /\ poisoned = FALSE
    /\ reqs = [c \in Conns |-> <<>>]
    /\ sent = [c \in Conns |-> <<>>]
    /\ remaining = [c \in Conns |-> 0]
    /\ owed = [c \in Conns |-> 0]
    /\ io_log = [serving |-> FALSE, nbd_reads |-> 0]

Goto(c, p) == pc' = [pc EXCEPT ![c] = p]

-----------------------------------------------------------------------------
(* Clients.                                                                *)

Connect(c) ==
    /\ pc[c] = "away"
    /\ Goto(c, "backlog")
    /\ UNCHANGED <<gone, accept, owner, poisoned, wire>>

HangUp(c) ==
    /\ pc[c] \notin {"away", "closed"}
    /\ c \notin gone
    /\ gone' = gone \cup {c}
    /\ UNCHANGED <<pc, accept, owner, poisoned, wire>>

-----------------------------------------------------------------------------
(* The accept loop and SessionSlot::try_acquire.                           *)

Accept(c) ==
    /\ accepting = None
    /\ pc[c] = "backlog"
    /\ accepting' = c
    /\ current' = sessions
    /\ UNCHANGED <<pc, gone, sessions, owner, poisoned, wire>>

\* No slot: the connection is dropped and the loop goes on.
NoSlot ==
    /\ accepting # None
    /\ current >= MAX_PENDING_SESSIONS
    /\ Goto(accepting, "closed")
    /\ accepting' = None
    /\ UNCHANGED <<gone, current, sessions, owner, poisoned, wire>>

\* Mutant: the slot is taken without looking whether the counter has moved.
CasExpectsAny == TRUE

\* compare_exchange succeeds only on the value that was looked at.
CasExpects == sessions = current

TakeSlot ==
    /\ accepting # None
    /\ current < MAX_PENDING_SESSIONS
    /\ \/ /\ CasExpects
          /\ sessions' = current + 1
          /\ Goto(accepting, "waiting")
          /\ accepting' = None
          /\ UNCHANGED current
       \/ /\ ~CasExpects
          /\ current' = sessions
          /\ UNCHANGED <<pc, accepting, sessions>>
    /\ UNCHANGED <<gone, owner, poisoned, wire>>

-----------------------------------------------------------------------------
(* serve_connection.                                                       *)

\* Mutant: a poisoned lock is not recovered.
LockableUnpoisoned == owner = None /\ ~poisoned

\* A lock poisoned by a panic is as good as any.
Lockable == owner = None

Lock(c) ==
    /\ pc[c] = "waiting"
    /\ Lockable
    /\ Goto(c, "flags")
    /\ owner' = c
    /\ UNCHANGED <<gone, accept, poisoned, wire>>

\* The session is over, the lock is released; log_summary only reads the counters.
Unlock(c) ==
    /\ pc[c] = "ending"
    /\ Goto(c, "unlocked")
    /\ owner' = None
    /\ reqs' = [reqs EXCEPT ![c] = <<>>]
    /\ sent' = [sent EXCEPT ![c] = <<>>]
    /\ remaining' = [remaining EXCEPT ![c] = 0]
    /\ owed' = [owed EXCEPT ![c] = 0]
    /\ UNCHANGED <<gone, accept, poisoned, io_log>>

\* Mutant: only a session that ends without a panic gives its slot back.
SlotsHeldOnPanic == IF poisoned THEN sessions ELSE sessions - 1

\* Mutant: the slot is given back twice.
SlotsDroppedTwice == sessions - 2

\* SessionSlot::drop.
SlotsAfterDrop == sessions - 1

\* The thread ends and its slot is dropped, after the lock and the stream.
DropSlot(c) ==
    /\ pc[c] = "unlocked"
    /\ Goto(c, "closed")
    /\ sessions' = SlotsAfterDrop
    /\ UNCHANGED <<gone, accepting, current, owner, poisoned, wire>>

Talking == {"flags", "options", "header", "serving", "draining"}

\* The client has hung up: the next read or write of the stream fails.
StreamFails(c) ==
    /\ pc[c] \in Talking
    /\ c \in gone
    /\ Goto(c, "ending")
    /\ UNCHANGED <<gone, accept, owner, poisoned, wire>>

-----------------------------------------------------------------------------
(* handshake: the client's flags, then options until one ends it.          *)

ClientFlags(c, valid) ==
    /\ pc[c] = "flags"
    /\ Goto(c, IF valid THEN "options" ELSE "ending")
    /\ UNCHANGED <<gone, accept, owner, poisoned, wire>>

\* Options that are answered and leave the handshake going.
Answered == {"list", "info", "other"}

\* Mutant: only the first session resets the counters.
begin_serving_kept(reopened) ==
    IF io_log.serving THEN io_log ELSE [serving |-> reopened, nbd_reads |-> 0]

\* IoLog::begin_serving resets the counters.  A log that is not serving yet begins to
\* when its file can be truncated and opened again; otherwise the session goes on
\* with a log that ignores it, and so do the later ones until a reopening succeeds.
begin_serving(reopened) ==
    [serving |-> io_log.serving \/ reopened, nbd_reads |-> 0]

\* IoLog::log_nbd_read.
log_nbd_read == [io_log EXCEPT !.nbd_reads = IF io_log.serving THEN @ + 1 ELSE @]

Option(c, opt) ==
    /\ pc[c] = "options"
    /\ \/ /\ opt \in {"export_name", "go"}
          /\ Goto(c, "header")
          /\ \E reopened \in BOOLEAN : io_log' = begin_serving(reopened)
       \/ /\ opt \in {"abort", "invalid"}
          /\ Goto(c, "ending")
          /\ UNCHANGED io_log
       \/ /\ opt \in Answered
          /\ UNCHANGED <<pc, io_log>>
    /\ UNCHANGED <<gone, accept, owner, poisoned, reqs, sent, remaining, owed>>

-----------------------------------------------------------------------------
(* transmission.                                                           *)

EINVAL == 22
EIO == 5     \* for any code write_simple_error finds: an OS error or this one
EPERM == 1
ENOSYS == 38

Reply(h, err) == [handle |-> h, err |-> err, data |-> <<>>]

\* The read is too long or not inside the export; the subtraction saturates.
read_request_error(q) ==
    \/ q.len > MAX_READ_LENGTH
    \/ q.off > ExportSize
    \/ q.len > ExportSize - q.off

\* A request whose reply is all there is to do.
AnswersAtOnce(q) ==
    \/ q.typ \in {"flush", "other"}
    \/ q.typ = "read" /\ (read_request_error(q) \/ q.len = 0)
    \/ q.typ = "write" /\ q.len = 0

ErrorOf(q) ==
    CASE q.typ = "write" -> EPERM
      [] q.typ = "other" -> ENOSYS
      [] q.typ = "read" /\ read_request_error(q) -> EINVAL
      [] OTHER -> 0

\* The request header has arrived and names q.
Request(c, q) ==
    LET h == Len(reqs[c]) + 1
    IN  /\ pc[c] = "header"
        /\ Len(reqs[c]) < MaxRequests
        /\ reqs' = [reqs EXCEPT ![c] = Append(@, q)]
        /\ owed' = [owed EXCEPT ![c] = IF q.typ = "write" THEN @ + q.len ELSE @]
        /\ \/ /\ q.typ \in {"disc", "badmagic"}
              /\ Goto(c, "ending")
              /\ UNCHANGED <<sent, remaining, io_log>>
           \/ /\ AnswersAtOnce(q)
              /\ sent' = [sent EXCEPT ![c] = Append(@, Reply(h, ErrorOf(q)))]
              /\ io_log' = IF q.typ = "read" THEN log_nbd_read ELSE io_log
              /\ UNCHANGED <<pc, remaining>>
           \/ /\ q.typ \in {"read", "write"} /\ ~AnswersAtOnce(q)
              /\ Goto(c, IF q.typ = "read" THEN "serving" ELSE "draining")
              /\ remaining' = [remaining EXCEPT ![c] = q.len]
              /\ UNCHANGED <<sent, io_log>>
        /\ UNCHANGED <<gone, accept, owner, poisoned>>

Lesser(a, b) == IF a <= b THEN a ELSE b

Want(c) == Lesser(remaining[c], READ_BUF_SIZE)

\* Whether the next buffer is the last one of the payload.
DrainedAfter(c) == remaining[c] = Want(c)

\* drain: the payload of a refused write is read and thrown away.
Drain(c) ==
    /\ pc[c] = "draining"
    /\ owed' = [owed EXCEPT ![c] = @ - Want(c)]
    /\ remaining' = [remaining EXCEPT ![c] = @ - Want(c)]
    /\ IF DrainedAfter(c)
       THEN /\ sent' = [sent EXCEPT ![c] = Append(@, Reply(Len(reqs[c]), EPERM))]
            /\ Goto(c, "header")
       ELSE UNCHANGED <<sent, pc>>
    /\ UNCHANGED <<gone, accept, owner, poisoned, reqs, io_log>>

Current(c) == reqs[c][Len(reqs[c])]

\* pos of serve_read: where the next buffer of the current read starts.
Pos(c) == Current(c).off + Current(c).len - remaining[c]

\* Mutant: a failure halfway is reported like one at the start.
RepliedNever(c) == FALSE

\* The reply header of the current request is already out.
Replied(c) == Len(sent[c]) = Len(reqs[c])

\* n bytes of the image go out, after the header if they are the first.
ServeBytes(c, n) ==
    LET bytes == [i \in 1 .. n |-> Pos(c) + i - 1]
        head  == IF Replied(c) THEN sent[c] ELSE Append(sent[c], Reply(Len(reqs[c]), 0))
    IN  /\ pc[c] = "serving"
        /\ n \in 1 .. Want(c)
        /\ sent' = [sent EXCEPT ![c] = [head EXCEPT ![Len(head)].data = @ \o bytes]]
        /\ remaining' = [remaining EXCEPT ![c] = @ - n]
        /\ IF n = remaining[c]
           THEN Goto(c, "header") /\ io_log' = log_nbd_read
           ELSE UNCHANGED <<pc, io_log>>
        /\ UNCHANGED <<gone, accept, owner, poisoned, reqs, owed>>

\* The image reports an error or an early end.  Before the reply header that is
\* this request's reply; after it the session ends.
ServeError(c) ==
    /\ pc[c] = "serving"
    /\ ImageFaults \cap {"eof", "error"} # {}
    /\ io_log' = log_nbd_read
    /\ \/ /\ ~Replied(c)
          /\ sent' = [sent EXCEPT ![c] = Append(@, Reply(Len(reqs[c]), EIO))]
          /\ remaining' = [remaining EXCEPT ![c] = 0]
          /\ Goto(c, "header")
       \/ /\ Replied(c)
          /\ Goto(c, "ending")
          /\ UNCHANGED <<sent, remaining>>
    /\ UNCHANGED <<gone, accept, owner, poisoned, reqs, owed>>

\* The reader panics: the thread unwinds, dropping and poisoning the lock.
ServePanic(c) ==
    /\ pc[c] = "serving"
    /\ "panic" \in ImageFaults
    /\ Goto(c, "unlocked")
    /\ owner' = None
    /\ poisoned' = TRUE
    /\ reqs' = [reqs EXCEPT ![c] = <<>>]
    /\ sent' = [sent EXCEPT ![c] = <<>>]
    /\ remaining' = [remaining EXCEPT ![c] = 0]
    /\ owed' = [owed EXCEPT ![c] = 0]
    /\ UNCHANGED <<gone, accept, io_log>>

-----------------------------------------------------------------------------
AcceptStep == (\E c \in Conns : Accept(c)) \/ NoSlot \/ TakeSlot

\* Steps of a session's thread that wait for no client.
ThreadStep(c) == Lock(c) \/ Unlock(c) \/ DropSlot(c) \/ StreamFails(c)

\* Steps that wait for the client to send, or to take what is sent.
TalkStep(c) ==
    \/ \E valid \in BOOLEAN : ClientFlags(c, valid)
    \/ \E opt \in {"export_name", "go", "abort", "invalid"} \cup Answered : Option(c, opt)
    \/ \E q \in Requests : Request(c, q)
    \/ Drain(c)
    \/ \E n \in 1 .. READ_BUF_SIZE : ServeBytes(c, n)
    \/ ServeError(c) \/ ServePanic(c)

Next ==
    \/ AcceptStep
    \/ \E c \in Conns : Connect(c) \/ HangUp(c) \/ ThreadStep(c) \/ TalkStep(c)

Spec == Init /\ [][Next]_vars

\* The accept loop and the threads run.  A client owes nobody anything: it need not
\* send, read, or hang up.
Fairness == WF_vars(AcceptStep) /\ \A c \in Conns : WF_vars(ThreadStep(c))

FairSpec == Spec /\ Fairness

-----------------------------------------------------------------------------
TypeOK ==
    /\ pc \in [Conns -> {"away", "backlog", "waiting", "ending", "unlocked", "closed"}
                        \cup Talking]
    /\ gone \subseteq Conns
    /\ accepting \in Conns \cup {None}
    /\ current \in Nat /\ sessions \in Nat
    /\ owner \in Conns \cup {None}
    /\ poisoned \in BOOLEAN
    /\ reqs \in [Conns -> Seq(Requests)]
    /\ DOMAIN sent = Conns
    /\ remaining \in [Conns -> Nat]
    /\ owed \in [Conns -> Nat]
    /\ io_log \in [serving : BOOLEAN, nbd_reads : Nat]

InSession == {"waiting", "ending", "unlocked"} \cup Talking

Sessions == {c \in Conns : pc[c] \in InSession}

\* The slot counter counts the live session threads, never more than
\* MAX_PENDING_SESSIONS of them, through racing drops, hang-ups and panics
\* (SessionSlot::try_acquire and its Drop).
SlotsMatchSessions ==
    /\ sessions = Cardinality(Sessions)
    /\ sessions <= MAX_PENDING_SESSIONS

\* What was asked for by request n of connection c, as far as it is out: a reply
\* per request, in order, the data of a served read and nothing after an error.
ReplyFits(q, r, complete) ==
    IF q.typ = "read" /\ r.err = 0
    THEN /\ q.off + q.len <= ExportSize
         /\ Len(r.data) <= q.len
         /\ complete => Len(r.data) = q.len
         /\ \A i \in 1 .. Len(r.data) : r.data[i] = q.off + i - 1
    ELSE r.data = <<>>

\* The client can always tell what the bytes it gets belong to: request n has one
\* reply, it carries its handle, and before the next header is read it is complete
\* and no payload is left in the stream.  A reply that cannot be completed is
\* the last thing a client sees (serve_read, drain, transmission).
StreamInSync ==
    \A c \in Conns :
        LET atHeader == pc[c] = "header"
        IN  /\ Len(sent[c]) <= Len(reqs[c])
            /\ \A n \in 1 .. Len(sent[c]) :
                /\ sent[c][n].handle = n
                /\ ReplyFits(reqs[c][n], sent[c][n], atHeader \/ n < Len(reqs[c]))
            /\ atHeader => Len(sent[c]) = Len(reqs[c]) /\ owed[c] = 0

ReadsOf(c) == {n \in 1 .. Len(reqs[c]) : reqs[c][n].typ = "read"}

\* The log counts each read of the session that is being served once, refused and
\* failed ones included, and none of an earlier session.  It is all or nothing: when
\* the log was not serving and its file could not be opened again as the session
\* began, none of the session's reads is counted (begin_serving, log_nbd_read).
LogCountsSession ==
    \A c \in Conns : pc[c] = "header" =>
        io_log.nbd_reads = IF io_log.serving THEN Cardinality(ReadsOf(c)) ELSE 0

\* The reader's lock never stays free while a session waits for it: neither a hang-up
\* nor a panic with the lock held bricks the server (the recovery from poisoning).
LockIsTaken ==
    (owner = None /\ \E c \in Conns : pc[c] = "waiting") ~> owner # None

\* When the clients are gone, all that was theirs comes back, however their sessions
\* stood: every connection is closed, one in the backlog of a server that never came
\* up included, and every slot is free (the accept loop, SessionSlot, run_serve).
AllComesBack ==
    (\A c \in Conns : c \in gone \/ pc[c] = "closed")
        ~> (sessions = 0 /\ \A c \in Conns : pc[c] = "closed")
=============================================================================
