----------------------------- MODULE NbdProofs -----------------------------
(***************************************************************************)
(* Proofs about NbdServer as NbdStartup starts it, for every set of        *)
(* connections, every limit, every image size and every request a client   *)
(* may send.  The inductive invariant has four parts:                      *)
(*   BootInv     before the server is up nothing of it has moved;          *)
(*   AcceptInv   the slots and the connection the accept loop has at hand; *)
(*   LockInv     who holds the image reader, which is who may talk;        *)
(*   SessionInv  the state of one connection's stream, and the log.        *)
(***************************************************************************)
EXTENDS NbdStartup, FiniteSetTheorems, SequenceTheorems, TLAPS

\* What a reply is: the data are offsets in the image.
Replies == [handle : Nat, err : Nat, data : Seq(Nat)]

\* TypeOK, and the type of the replies.
TypeInv == TypeOK /\ sent \in [Conns -> Seq(Replies)]

\* The stages in which the socket may exist, or the image is being opened.
Late == {"bind", "trace", "open", "begin", "listen"}

Stages == Late \cup {"format", "log", "handler", "up", "exited", "killed"}

Formats == {"e01", "vmdk", "raw", None}

\* While the process starts, clients may come and go, and that is all; the handler
\* is there before the socket is.
BootInv ==
    /\ boot \in [stage : Stages, format : Formats, meta : BOOLEAN,
                 unix : BOOLEAN, handler : BOOLEAN, regular : BOOLEAN]
    /\ boot.stage # "up" =>
        /\ accepting = None /\ sessions = 0 /\ owner = None
        /\ \A c \in Conns : pc[c] \in {"away", "backlog", "closed"}
    /\ boot.stage = "up" => ~boot.meta
    /\ boot.meta /\ boot.stage \in Late => boot.handler

\* The connection being accepted is still in the backlog.
AcceptInv ==
    /\ accepting # None => pc[accepting] = "backlog"
    /\ SlotsMatchSessions

Holding == Talking \cup {"ending"}

\* The session that holds the reader is the one that talks, and no other does.
LockInv == \A c \in Conns : pc[c] \in Holding <=> owner = c

\* From the end of the handshake to the end of the session.
Transmission == {"header", "serving", "draining", "ending"}

\* Requests are answered in order and one at a time.
RepliesInv(c) ==
    /\ Len(sent[c]) <= Len(reqs[c]) /\ Len(reqs[c]) <= Len(sent[c]) + 1
    /\ \A n \in 1 .. Len(sent[c]) :
        /\ sent[c][n].handle = n
        /\ ReplyFits(reqs[c][n], sent[c][n], pc[c] = "header" \/ n < Len(reqs[c]))

\* The log has n reads of the session, or ignores it.
Counted(n) == io_log.nbd_reads = IF io_log.serving THEN n ELSE 0

\* The last of n reads is still to be counted.
OneBehind(n) == IF io_log.serving THEN io_log.nbd_reads + 1 = n ELSE io_log.nbd_reads = 0

\* Between two requests nothing is left over.
HeaderInv(c) ==
    /\ Len(sent[c]) = Len(reqs[c]) /\ remaining[c] = 0 /\ owed[c] = 0
    /\ Counted(Cardinality(ReadsOf(c)))

\* The payload of a write is read to its end before its reply.
DrainInv(c) ==
    /\ Len(reqs[c]) = Len(sent[c]) + 1
    /\ Current(c).typ = "write"
    /\ remaining[c] > 0 /\ owed[c] = remaining[c]
    /\ Counted(Cardinality(ReadsOf(c)))

\* A read under way: nothing is out, or a reply with what it lacks still to come.
ServeInv(c) ==
    /\ Len(reqs[c]) > 0
    /\ Current(c).typ = "read" /\ ~read_request_error(Current(c))
    /\ remaining[c] \in 1 .. Current(c).len /\ owed[c] = 0
    /\ \/ ~Replied(c) /\ remaining[c] = Current(c).len
       \/ /\ Replied(c)
          /\ sent[c][Len(reqs[c])].err = 0
          /\ Len(sent[c][Len(reqs[c])].data) = Current(c).len - remaining[c]
    /\ OneBehind(Cardinality(ReadsOf(c)))

SessionInv(c) ==
    /\ pc[c] \notin Transmission =>
        reqs[c] = <<>> /\ sent[c] = <<>> /\ remaining[c] = 0 /\ owed[c] = 0
    /\ RepliesInv(c)
    /\ pc[c] = "header" => HeaderInv(c)
    /\ pc[c] = "draining" => DrainInv(c)
    /\ pc[c] = "serving" => ServeInv(c)

ServerInv ==
    /\ TypeInv /\ AcceptInv /\ LockInv
    /\ \A c \in Conns : SessionInv(c)

MainInv == ServerInv /\ BootInv

-----------------------------------------------------------------------------
(* The reads in a list of requests.                                        *)

ReadsIn(s) == {n \in 1 .. Len(s) : s[n].typ = "read"}

\* One more request is one more read, or it is not a read.
LEMMA ReadsInAppend ==
    ASSUME NEW s \in Seq(Requests), NEW q \in Requests
    PROVE  /\ Cardinality(ReadsIn(s)) \in Nat
           /\ Cardinality(ReadsIn(Append(s, q))) =
                Cardinality(ReadsIn(s)) + (IF q.typ = "read" THEN 1 ELSE 0)
<1> DEFINE r == ReadsIn(s)
           m == Len(s) + 1
<1>1. /\ Len(s) \in Nat /\ Len(Append(s, q)) = m
      /\ \A i \in 1 .. Len(s) : Append(s, q)[i] = s[i]
      /\ Append(s, q)[m] = q
  BY AppendProperties, LenProperties
<1>2. IsFiniteSet(r) /\ Cardinality(r) \in Nat
  <2>1. IsFiniteSet(1 .. Len(s))
    BY <1>1, FS_Interval
  <2>2. r \in SUBSET (1 .. Len(s))
    BY DEF ReadsIn
  <2>3. QED
    BY <2>1, <2>2, FS_Subset, FS_CardinalityType
<1>3. m \notin r
  BY <1>1 DEF ReadsIn
<1>4. CASE q.typ = "read"
  <2>1. ReadsIn(Append(s, q)) = r \cup {m}
    BY <1>1, <1>4 DEF ReadsIn
  <2>2. QED
    BY <1>2, <1>3, <1>4, <2>1, FS_AddElement
<1>5. CASE q.typ # "read"
  <2>1. ReadsIn(Append(s, q)) = r
    BY <1>1, <1>5 DEF ReadsIn
  <2>2. QED
    BY <1>2, <1>5, <2>1
<1>6. QED
  BY <1>4, <1>5

\* No request, no read.
LEMMA ReadsInEmpty == Cardinality(ReadsIn(<<>>)) = 0
<1>1. ReadsIn(<<>>) = {}
  BY DEF ReadsIn
<1>2. QED
  BY <1>1, FS_EmptySet

-----------------------------------------------------------------------------
(* One connection moves to another place.                                  *)

\* What a move does to the set of live sessions.
LEMMA SessionsAfterGoto ==
    ASSUME TypeInv, NEW c \in Conns, NEW p, Goto(c, p)
    PROVE  /\ IsFiniteSet(Sessions) /\ Cardinality(Sessions) \in Nat
           /\ (pc[c] \in InSession <=> p \in InSession) => Sessions' = Sessions
           /\ pc[c] \notin InSession /\ p \in InSession =>
                Cardinality(Sessions)' = Cardinality(Sessions) + 1
           /\ pc[c] \in InSession /\ p \notin InSession =>
                /\ Cardinality(Sessions)' = Cardinality(Sessions) - 1
                /\ Cardinality(Sessions) > 0
<1>0. IsFiniteSet(Conns)
  BY NbdAssumption
<1>1. pc \in [Conns -> {"away", "backlog", "waiting", "ending", "unlocked", "closed"}
                        \cup Talking]
  BY DEF TypeInv, TypeOK
<1>2. /\ \A d \in Conns : d # c => pc'[d] = pc[d]
      /\ pc'[c] = p
  BY <1>1 DEF Goto
<1>3. IsFiniteSet(Sessions) /\ Cardinality(Sessions) \in Nat
  <2>1. Sessions \in SUBSET Conns
    BY DEF Sessions
  <2>2. QED
    BY <1>0, <2>1, FS_Subset, FS_CardinalityType
<1>4. CASE pc[c] \in InSession <=> p \in InSession
  <2>1. Sessions' = Sessions
    BY <1>2, <1>4 DEF Sessions
  <2>2. QED
    BY <1>3, <1>4, <2>1
<1>5. CASE pc[c] \notin InSession /\ p \in InSession
  <2>1. Sessions' = Sessions \cup {c} /\ c \notin Sessions
    BY <1>2, <1>5 DEF Sessions
  <2>2. QED
    BY <1>3, <1>5, <2>1, FS_AddElement
<1>6. CASE pc[c] \in InSession /\ p \notin InSession
  <2>1. Sessions' = Sessions \ {c} /\ c \in Sessions
    BY <1>2, <1>6 DEF Sessions
  <2>2. Cardinality(Sessions \ {c}) = Cardinality(Sessions) - 1
    BY <1>3, <2>1, FS_RemoveElement
  <2>3. Cardinality(Sessions \ {c}) \in Nat
    BY <1>3, FS_RemoveElement, FS_CardinalityType
  <2>4. QED
    BY <1>3, <1>6, <2>1, <2>2, <2>3
<1>7. QED
  BY <1>4, <1>5, <1>6

\* One more read in the log, unless it ignores the session.
LEMMA LogFacts ==
    ASSUME TypeInv
    PROVE  /\ log_nbd_read \in [serving : BOOLEAN, nbd_reads : Nat]
           /\ log_nbd_read.serving = io_log.serving
           /\ log_nbd_read.nbd_reads =
                IF io_log.serving THEN io_log.nbd_reads + 1 ELSE io_log.nbd_reads
<1>1. io_log \in [serving : BOOLEAN, nbd_reads : Nat]
  BY DEF TypeInv, TypeOK
<1>2. (IF io_log.serving THEN io_log.nbd_reads + 1 ELSE io_log.nbd_reads) \in Nat
  BY <1>1
<1>3. QED
  BY <1>1, <1>2 DEF log_nbd_read

\* Counting the last read catches up.
LEMMA LogCatchesUp ==
    ASSUME TypeInv, NEW n, OneBehind(n), io_log' = log_nbd_read
    PROVE  Counted(n)'
  BY LogFacts DEF OneBehind, Counted

\* A connection that does not move, whose stream nobody touches and whose reads
\* nobody counts, keeps its invariant.
LEMMA SessionKept ==
    ASSUME NEW d \in Conns, SessionInv(d),
           pc'[d] = pc[d], reqs'[d] = reqs[d], sent'[d] = sent[d],
           remaining'[d] = remaining[d], owed'[d] = owed[d],
           io_log' = io_log \/ pc[d] \notin Talking
    PROVE  SessionInv(d)'
<1>1. RepliesInv(d)'
  BY DEF SessionInv, RepliesInv, ReplyFits
<1>2. pc'[d] = "header" => HeaderInv(d)'
  BY DEF SessionInv, HeaderInv, Counted, ReadsOf, Talking
<1>3. pc'[d] = "draining" => DrainInv(d)'
  BY DEF SessionInv, DrainInv, Counted, ReadsOf, Talking, Current
<1>4. pc'[d] = "serving" => ServeInv(d)'
  BY DEF SessionInv, ServeInv, OneBehind, ReadsOf, Talking, Current, Replied, read_request_error
<1>5. QED
  BY <1>1, <1>2, <1>3, <1>4 DEF SessionInv

\* A step that leaves every stream alone and ends a session or moves outside of one.
LEMMA SessionMoved ==
    ASSUME TypeInv, \A d \in Conns : SessionInv(d), UNCHANGED wire,
           NEW c \in Conns, NEW p, Goto(c, p),
           p \in Transmission => p = "ending",
           p \notin Transmission => pc[c] \notin Transmission
    PROVE  \A d \in Conns : SessionInv(d)'
<1>1. /\ \A d \in Conns : d # c => pc'[d] = pc[d]
      /\ pc'[c] = p
  BY DEF Goto, TypeInv, TypeOK
<1>2. UNCHANGED <<reqs, sent, remaining, owed, io_log>>
  BY DEF wire
<1>3. ASSUME NEW d \in Conns, d # c PROVE SessionInv(d)'
  BY <1>1, <1>2, <1>3, SessionKept
<1>4. SessionInv(c)'
  <2>1. p # "header" /\ p # "draining" /\ p # "serving"
    BY DEF Transmission
  <2>2. RepliesInv(c)'
    BY <1>1, <1>2, <2>1 DEF SessionInv, RepliesInv, ReplyFits
  <2>3. QED
    BY <1>1, <1>2, <2>1, <2>2 DEF SessionInv
<1>5. QED
  BY <1>3, <1>4

-----------------------------------------------------------------------------
(* Clients and the accept loop.                                            *)

\* A client that connects waits in the backlog.
LEMMA ConnectStep ==
    ASSUME ServerInv, NEW c \in Conns, Connect(c)
    PROVE  ServerInv'
<1> USE DEF ServerInv
<1>1. Goto(c, "backlog") /\ pc[c] = "away" /\ UNCHANGED <<gone, accept, owner, poisoned, wire>>
  BY DEF Connect
<1>2. UNCHANGED <<accepting, current, sessions, reqs, sent, remaining, owed, io_log>>
  BY <1>1 DEF accept, wire
<1>3. TypeInv'
  BY <1>1, <1>2 DEF TypeInv, TypeOK, Goto
<1>4. AcceptInv'
  <2>1. Sessions' = Sessions
    BY <1>1, SessionsAfterGoto DEF InSession, Talking
  <2>2. accepting # None => pc'[accepting] = "backlog"
    BY <1>1, <1>2 DEF AcceptInv, TypeInv, TypeOK, Goto
  <2>3. QED
    BY <1>2, <2>1, <2>2 DEF AcceptInv, SlotsMatchSessions
<1>5. LockInv'
  BY <1>1 DEF LockInv, Holding, Talking, Goto, TypeInv, TypeOK
<1>6. \A d \in Conns : SessionInv(d)'
  BY <1>1, SessionMoved DEF Transmission
<1>7. QED
  BY <1>3, <1>4, <1>5, <1>6

\* Hanging up is seen by nobody yet.
LEMMA HangUpStep ==
    ASSUME ServerInv, NEW c \in Conns, HangUp(c)
    PROVE  ServerInv'
<1> USE DEF ServerInv
<1>1. gone' = gone \cup {c} /\ UNCHANGED <<pc, accept, owner, poisoned, wire>>
  BY DEF HangUp
<1>2. UNCHANGED <<accepting, current, sessions, reqs, sent, remaining, owed, io_log>>
  BY <1>1 DEF accept, wire
<1>3. TypeInv'
  BY <1>1, <1>2 DEF TypeInv, TypeOK
<1>4. AcceptInv' /\ LockInv'
  BY <1>1, <1>2 DEF AcceptInv, SlotsMatchSessions, Sessions, LockInv
<1>5. \A d \in Conns : SessionInv(d)'
  BY <1>1, <1>2, SessionKept
<1>6. QED
  BY <1>3, <1>4, <1>5

\* The accept loop takes a connection and looks at the counter.
LEMMA AcceptConnStep ==
    ASSUME ServerInv, NEW c \in Conns, Accept(c)
    PROVE  ServerInv'
<1> USE DEF ServerInv
<1>1. /\ accepting' = c /\ current' = sessions /\ pc[c] = "backlog"
      /\ UNCHANGED <<pc, gone, sessions, owner, poisoned, wire>>
  BY DEF Accept
<1>2. UNCHANGED <<reqs, sent, remaining, owed, io_log>>
  BY <1>1 DEF wire
<1>3. TypeInv'
  BY <1>1, <1>2 DEF TypeInv, TypeOK
<1>4. AcceptInv' /\ LockInv'
  BY <1>1 DEF AcceptInv, SlotsMatchSessions, Sessions, LockInv
<1>5. \A d \in Conns : SessionInv(d)'
  BY <1>1, <1>2, SessionKept
<1>6. QED
  BY <1>3, <1>4, <1>5

\* Without a slot the connection is closed before it is a session.
LEMMA NoSlotStep ==
    ASSUME ServerInv, NoSlot
    PROVE  ServerInv'
<1> USE DEF ServerInv
<1>1. /\ accepting \in Conns /\ pc[accepting] = "backlog"
      /\ Goto(accepting, "closed") /\ accepting' = None
      /\ UNCHANGED <<gone, current, sessions, owner, poisoned, wire>>
  BY DEF NoSlot, AcceptInv, TypeInv, TypeOK
<1>2. UNCHANGED <<reqs, sent, remaining, owed, io_log>>
  BY <1>1 DEF wire
<1>3. TypeInv'
  BY <1>1, <1>2 DEF TypeInv, TypeOK, Goto
<1>4. AcceptInv'
  <2>1. Sessions' = Sessions
    BY <1>1, SessionsAfterGoto DEF InSession, Talking
  <2>2. QED
    BY <1>1, <2>1 DEF AcceptInv, SlotsMatchSessions
<1>5. LockInv'
  BY <1>1 DEF LockInv, Holding, Talking, Goto, TypeInv, TypeOK
<1>6. \A d \in Conns : SessionInv(d)'
  BY <1>1, SessionMoved DEF Transmission
<1>7. QED
  BY <1>3, <1>4, <1>5, <1>6

\* The exchange takes a slot for one more session, or looks at the counter again.
LEMMA TakeSlotStep ==
    ASSUME ServerInv, TakeSlot
    PROVE  ServerInv'
<1> USE DEF ServerInv
<1>1. /\ accepting \in Conns /\ pc[accepting] = "backlog" /\ accepting # None
      /\ current < MAX_PENDING_SESSIONS
      /\ UNCHANGED <<gone, owner, poisoned, wire>>
  BY DEF TakeSlot, AcceptInv, TypeInv, TypeOK
<1>2. UNCHANGED <<reqs, sent, remaining, owed, io_log>>
  BY <1>1 DEF wire
<1>3. CASE /\ CasExpects /\ sessions' = current + 1
           /\ Goto(accepting, "waiting") /\ accepting' = None /\ UNCHANGED current
  <2>1. TypeInv'
    BY <1>1, <1>2, <1>3 DEF TypeInv, TypeOK, Goto
  <2>2. AcceptInv'
    <3>1. Cardinality(Sessions)' = Cardinality(Sessions) + 1
      BY <1>1, <1>3, SessionsAfterGoto DEF InSession, Talking
    <3>2. sessions' = sessions + 1 /\ sessions' <= MAX_PENDING_SESSIONS
      BY <1>1, <1>3, NbdAssumption DEF CasExpects, TypeInv, TypeOK
    <3>3. QED
      BY <1>3, <3>1, <3>2 DEF AcceptInv, SlotsMatchSessions
  <2>3. LockInv'
    BY <1>1, <1>3 DEF LockInv, Holding, Talking, Goto, TypeInv, TypeOK
  <2>4. \A d \in Conns : SessionInv(d)'
    BY <1>1, <1>3, SessionMoved DEF Transmission
  <2>5. QED
    BY <2>1, <2>2, <2>3, <2>4
<1>4. CASE /\ ~CasExpects /\ current' = sessions /\ UNCHANGED <<pc, accepting, sessions>>
  <2>1. TypeInv'
    BY <1>1, <1>2, <1>4 DEF TypeInv, TypeOK
  <2>2. AcceptInv' /\ LockInv'
    BY <1>1, <1>4 DEF AcceptInv, SlotsMatchSessions, Sessions, LockInv
  <2>3. \A d \in Conns : SessionInv(d)'
    BY <1>2, <1>4, SessionKept
  <2>4. QED
    BY <2>1, <2>2, <2>3
<1>5. QED
  BY <1>3, <1>4 DEF TakeSlot

-----------------------------------------------------------------------------
(* The thread of a session.                                                *)

\* Locking makes the session the one that talks.
LEMMA LockStep ==
    ASSUME ServerInv, NEW c \in Conns, Lock(c)
    PROVE  ServerInv'
<1> USE DEF ServerInv
<1>1. /\ pc[c] = "waiting" /\ owner = None /\ Goto(c, "flags") /\ owner' = c
      /\ UNCHANGED <<gone, accept, poisoned, wire>>
  BY DEF Lock, Lockable
<1>2. UNCHANGED <<accepting, current, sessions, reqs, sent, remaining, owed, io_log>>
  BY <1>1 DEF accept, wire
<1>3. TypeInv'
  BY <1>1, <1>2 DEF TypeInv, TypeOK, Goto, Talking
<1>4. AcceptInv'
  <2>1. Sessions' = Sessions
    BY <1>1, SessionsAfterGoto DEF InSession, Talking
  <2>2. accepting # None => pc'[accepting] = "backlog"
    BY <1>1, <1>2 DEF AcceptInv, TypeInv, TypeOK, Goto
  <2>3. QED
    BY <1>2, <2>1, <2>2 DEF AcceptInv, SlotsMatchSessions
<1>5. LockInv'
  BY <1>1, NbdAssumption DEF LockInv, Holding, Talking, Goto, TypeInv, TypeOK
<1>6. \A d \in Conns : SessionInv(d)'
  BY <1>1, SessionMoved DEF Transmission
<1>7. QED
  BY <1>3, <1>4, <1>5, <1>6

\* A session that lets go of the reader leaves nothing behind.  This is what Unlock
\* and ServePanic have in common.
LEMMA LetGo ==
    ASSUME ServerInv, NEW c \in Conns, pc[c] \in Holding,
           Goto(c, "unlocked"), owner' = None,
           reqs' = [reqs EXCEPT ![c] = <<>>], sent' = [sent EXCEPT ![c] = <<>>],
           remaining' = [remaining EXCEPT ![c] = 0], owed' = [owed EXCEPT ![c] = 0],
           poisoned' \in BOOLEAN, UNCHANGED <<gone, accept, io_log>>
    PROVE  ServerInv'
<1> USE DEF ServerInv
<1>1. UNCHANGED <<accepting, current, sessions>>
  BY DEF accept
<1>2. TypeInv'
  <2>1. <<>> \in Seq(Requests) /\ <<>> \in Seq(Replies)
    BY EmptySeq
  <2>2. QED
    BY <1>1, <2>1 DEF TypeInv, TypeOK, Goto
<1>3. AcceptInv'
  <2>1. Sessions' = Sessions
    BY SessionsAfterGoto DEF InSession, Talking, Holding
  <2>2. accepting # None => pc'[accepting] = "backlog"
    BY <1>1 DEF AcceptInv, TypeInv, TypeOK, Goto, Holding, Talking
  <2>3. QED
    BY <1>1, <2>1, <2>2 DEF AcceptInv, SlotsMatchSessions
<1>4. LockInv'
  BY NbdAssumption DEF LockInv, Holding, Talking, Goto, TypeInv, TypeOK
<1>5. ASSUME NEW d \in Conns, d # c PROVE SessionInv(d)'
  BY <1>5, SessionKept DEF Goto, TypeInv, TypeOK
<1>6. SessionInv(c)'
  <2>1. /\ pc'[c] = "unlocked" /\ reqs'[c] = <<>> /\ sent'[c] = <<>>
        /\ remaining'[c] = 0 /\ owed'[c] = 0
    BY DEF Goto, TypeInv, TypeOK
  <2>2. QED
    BY <2>1 DEF SessionInv, RepliesInv, Transmission
<1>7. QED
  BY <1>2, <1>3, <1>4, <1>5, <1>6

\* The slot of a thread that ends is given back.
LEMMA DropSlotStep ==
    ASSUME ServerInv, NEW c \in Conns, DropSlot(c)
    PROVE  ServerInv'
<1> USE DEF ServerInv
<1>1. /\ pc[c] = "unlocked" /\ Goto(c, "closed") /\ sessions' = sessions - 1
      /\ UNCHANGED <<gone, accepting, current, owner, poisoned, wire>>
  BY DEF DropSlot, SlotsAfterDrop
<1>2. UNCHANGED <<reqs, sent, remaining, owed, io_log>>
  BY <1>1 DEF wire
<1>3. /\ Cardinality(Sessions)' = Cardinality(Sessions) - 1
      /\ Cardinality(Sessions) \in Nat /\ Cardinality(Sessions) > 0
  BY <1>1, SessionsAfterGoto DEF InSession, Talking
<1>4. sessions = Cardinality(Sessions) /\ sessions <= MAX_PENDING_SESSIONS
  BY DEF AcceptInv, SlotsMatchSessions
<1>5. sessions' \in Nat /\ sessions' = Cardinality(Sessions)' /\ sessions' <= MAX_PENDING_SESSIONS
  BY <1>1, <1>3, <1>4, NbdAssumption
<1>6. TypeInv'
  BY <1>1, <1>2, <1>5 DEF TypeInv, TypeOK, Goto
<1>7. AcceptInv'
  <2>1. accepting # None => pc'[accepting] = "backlog"
    BY <1>1 DEF AcceptInv, TypeInv, TypeOK, Goto
  <2>2. QED
    BY <1>1, <1>5, <2>1 DEF AcceptInv, SlotsMatchSessions
<1>8. LockInv'
  BY <1>1 DEF LockInv, Holding, Talking, Goto, TypeInv, TypeOK
<1>9. \A d \in Conns : SessionInv(d)'
  BY <1>1, SessionMoved DEF Transmission
<1>10. QED
  BY <1>6, <1>7, <1>8, <1>9

\* A move of the session that talks, to another place where it still holds the
\* reader: only its stream is left to look at.
LEMMA TalkMove ==
    ASSUME ServerInv, NEW c \in Conns, pc[c] \in Talking, pc'[c] \in Holding,
           Goto(c, pc'[c]) \/ UNCHANGED pc,
           UNCHANGED <<gone, accept, owner, poisoned>>,
           TypeInv', SessionInv(c)',
           \A d \in Conns : d # c =>
              /\ reqs'[d] = reqs[d] /\ sent'[d] = sent[d]
              /\ remaining'[d] = remaining[d] /\ owed'[d] = owed[d]
    PROVE  ServerInv'
<1> USE DEF ServerInv
<1>1. UNCHANGED <<accepting, current, sessions>>
  BY DEF accept
<1>2. \A d \in Conns : d # c => pc'[d] = pc[d]
  BY DEF Goto, TypeInv, TypeOK
<1>3. AcceptInv'
  <2>1. Sessions' = Sessions
    BY <1>2 DEF Sessions, InSession, Holding
  <2>2. accepting # None => pc'[accepting] = "backlog"
    BY <1>1, <1>2 DEF AcceptInv, TypeInv, TypeOK, Talking
  <2>3. QED
    BY <1>1, <2>1, <2>2 DEF AcceptInv, SlotsMatchSessions
<1>4. LockInv'
  BY <1>2 DEF LockInv, Holding
<1>5. ASSUME NEW d \in Conns, d # c PROVE SessionInv(d)'
  <2>1. pc[d] \notin Talking
    BY <1>5 DEF LockInv, Holding
  <2>2. QED
    BY <1>2, <1>5, <2>1, SessionKept
<1>6. QED
  BY <1>3, <1>4, <1>5

\* The session ends because its client has hung up.
LEMMA StreamFailsStep ==
    ASSUME ServerInv, NEW c \in Conns, StreamFails(c)
    PROVE  ServerInv'
<1> USE DEF ServerInv
<1>1. /\ pc[c] \in Talking /\ Goto(c, "ending") /\ pc'[c] = "ending"
      /\ UNCHANGED <<gone, accept, owner, poisoned, wire>>
  BY DEF StreamFails, Goto, TypeInv, TypeOK
<1>2. UNCHANGED <<accepting, current, sessions, reqs, sent, remaining, owed, io_log>>
  BY <1>1 DEF accept, wire
<1>3. TypeInv'
  BY <1>1, <1>2 DEF TypeInv, TypeOK, Goto
<1>4. SessionInv(c)'
  BY <1>1, SessionMoved DEF Transmission
<1>5. QED
  BY <1>1, <1>2, <1>3, <1>4, TalkMove DEF Holding

-----------------------------------------------------------------------------
(* The handshake.                                                          *)

\* The client's flags lead to the options or to the end.
LEMMA ClientFlagsStep ==
    ASSUME ServerInv, NEW c \in Conns, NEW valid \in BOOLEAN, ClientFlags(c, valid)
    PROVE  ServerInv'
<1> USE DEF ServerInv
<1> DEFINE p == IF valid THEN "options" ELSE "ending"
<1>1. /\ pc[c] = "flags" /\ Goto(c, p) /\ pc'[c] = p
      /\ UNCHANGED <<gone, accept, owner, poisoned, wire>>
  BY DEF ClientFlags, Goto, TypeInv, TypeOK
<1>2. UNCHANGED <<accepting, current, sessions, reqs, sent, remaining, owed, io_log>>
  BY <1>1 DEF accept, wire
<1>3. TypeInv'
  BY <1>1, <1>2 DEF TypeInv, TypeOK, Goto, Talking
<1>4. SessionInv(c)'
  BY <1>1, SessionMoved DEF Transmission
<1>5. QED
  BY <1>1, <1>2, <1>3, <1>4, TalkMove DEF Holding, Talking

\* An option is answered, ends the session, or starts the transmission with an
\* empty stream and a log that counts from zero.
LEMMA OptionStep ==
    ASSUME ServerInv, NEW c \in Conns, NEW opt, Option(c, opt)
    PROVE  ServerInv'
<1> USE DEF ServerInv
<1>1. /\ pc[c] = "options"
      /\ UNCHANGED <<gone, accept, owner, poisoned, reqs, sent, remaining, owed>>
  BY DEF Option
<1>2. UNCHANGED <<accepting, current, sessions>>
  BY <1>1 DEF accept
<1>3. reqs[c] = <<>> /\ sent[c] = <<>> /\ remaining[c] = 0 /\ owed[c] = 0
  BY <1>1 DEF SessionInv, Transmission
<1>4. CASE Goto(c, "header") /\ \E reopened \in BOOLEAN : io_log' = begin_serving(reopened)
  <2>1. /\ pc'[c] = "header" /\ io_log' \in [serving : BOOLEAN, nbd_reads : Nat]
        /\ io_log'.nbd_reads = 0
    BY <1>4 DEF Goto, TypeInv, TypeOK, begin_serving
  <2>2. TypeInv'
    BY <1>1, <1>2, <1>4, <2>1 DEF TypeInv, TypeOK, Goto, Talking
  <2>3. SessionInv(c)'
    <3>1. HeaderInv(c)'
      BY <1>1, <1>3, <2>1, ReadsInEmpty DEF HeaderInv, Counted, ReadsOf, ReadsIn
    <3>2. QED
      BY <1>1, <1>3, <2>1, <3>1 DEF SessionInv, RepliesInv, Transmission
  <2>4. QED
    BY <1>1, <1>4, <2>1, <2>2, <2>3, TalkMove DEF Holding, Talking
<1>5. CASE Goto(c, "ending") /\ UNCHANGED io_log
  <2>1. pc'[c] = "ending"
    BY <1>5 DEF Goto, TypeInv, TypeOK
  <2>2. TypeInv'
    BY <1>1, <1>2, <1>5 DEF TypeInv, TypeOK, Goto
  <2>3. SessionInv(c)'
    BY <1>1, <1>5, SessionMoved DEF Transmission, wire
  <2>4. QED
    BY <1>1, <1>5, <2>1, <2>2, <2>3, TalkMove DEF Holding, Talking
<1>6. CASE UNCHANGED <<pc, io_log>>
  <2>1. TypeInv'
    BY <1>1, <1>2, <1>6 DEF TypeInv, TypeOK
  <2>2. SessionInv(c)'
    BY <1>1, <1>6, SessionKept
  <2>3. QED
    BY <1>1, <1>6, <2>1, <2>2, TalkMove DEF Holding, Talking
<1>7. QED
  BY <1>4, <1>5, <1>6 DEF Option

-----------------------------------------------------------------------------
(* Transmission.                                                           *)

\* A reply without data is a reply, and fits whatever is not a served read.
LEMMA ReplyFacts ==
    ASSUME NEW h \in Nat, NEW err \in {0, EINVAL, EIO, EPERM, ENOSYS}
    PROVE  /\ Reply(h, err) \in Replies
           /\ Reply(h, err).handle = h /\ Reply(h, err).err = err
           /\ Reply(h, err).data = <<>> /\ Len(Reply(h, err).data) = 0
<1>1. <<>> \in Seq(Nat) /\ Len(<<>>) = 0
  BY EmptySeq
<1>2. QED
  BY <1>1 DEF Reply, Replies, EINVAL, EIO, EPERM, ENOSYS

\* The replies before the last request stay as they are, complete, when a new reply
\* follows them.
LEMMA RepliesAppend ==
    ASSUME NEW c \in Conns, TypeInv, NEW r \in Replies,
           Len(reqs'[c]) = Len(sent[c]) + 1,
           \A n \in 1 .. Len(sent[c]) :
              sent[c][n].handle = n /\ ReplyFits(reqs'[c][n], sent[c][n], TRUE),
           r.handle = Len(reqs'[c]),
           ReplyFits(reqs'[c][Len(reqs'[c])], r, pc'[c] = "header"),
           sent'[c] = Append(sent[c], r)
    PROVE  RepliesInv(c)' /\ Len(sent'[c]) = Len(reqs'[c])
<1> DEFINE m == Len(reqs'[c])
<1>1. /\ Len(sent[c]) \in Nat /\ Len(sent'[c]) = Len(sent[c]) + 1
      /\ \A n \in 1 .. Len(sent[c]) : sent'[c][n] = sent[c][n]
      /\ sent'[c][m] = r
  BY AppendProperties, LenProperties DEF TypeInv
<1>2. ASSUME NEW n \in 1 .. Len(sent'[c])
      PROVE  /\ sent'[c][n].handle = n
             /\ ReplyFits(reqs'[c][n], sent'[c][n], pc'[c] = "header" \/ n < m)
  <2>1. CASE n = m
    <3>1. sent'[c][n] = r /\ ~(n < m) /\ m \in Nat
      BY <1>1, <2>1
    <3>2. r.handle = n /\ ReplyFits(reqs'[c][n], r, pc'[c] = "header")
      BY <2>1
    <3>3. QED
      BY <3>1, <3>2 DEF ReplyFits
  <2>2. CASE n # m
    <3>1. n \in 1 .. Len(sent[c]) /\ sent'[c][n] = sent[c][n]
      BY <1>1, <1>2, <2>2
    <3>2. QED
      BY <3>1 DEF ReplyFits
  <2>3. QED
    BY <2>1, <2>2
<1>3. QED
  BY <1>1, <1>2 DEF RepliesInv, ReplyFits

\* A request header: the session ends, the reply is all there is to do, or a read or
\* the payload of a write follows.
LEMMA RequestStep ==
    ASSUME ServerInv, NEW c \in Conns, NEW q \in Requests, Request(c, q)
    PROVE  ServerInv'
<1> USE DEF ServerInv
<1> DEFINE h == Len(reqs[c]) + 1
           rs == Append(reqs[c], q)
<1>1. /\ pc[c] = "header"
      /\ reqs' = [reqs EXCEPT ![c] = rs]
      /\ owed' = [owed EXCEPT ![c] = IF q.typ = "write" THEN @ + q.len ELSE @]
      /\ UNCHANGED <<gone, accept, owner, poisoned>>
  BY DEF Request
<1>2. UNCHANGED <<accepting, current, sessions>>
  BY <1>1 DEF accept
<1>3. /\ q.typ \in {"read", "write", "disc", "flush", "other", "badmagic"}
      /\ q.off \in Nat /\ q.len \in Nat /\ ExportSize \in Nat /\ MAX_READ_LENGTH \in Nat
  BY NbdAssumption
<1>4. /\ reqs[c] \in Seq(Requests) /\ sent[c] \in Seq(Replies)
      /\ Len(reqs[c]) \in Nat /\ Len(sent[c]) \in Nat
  BY LenProperties DEF TypeInv, TypeOK
<1>5. /\ rs \in Seq(Requests) /\ Len(rs) = h /\ rs[h] = q
      /\ \A i \in 1 .. Len(reqs[c]) : rs[i] = reqs[c][i]
  BY <1>4, AppendProperties
<1>6. HeaderInv(c) /\ RepliesInv(c)
  BY <1>1 DEF SessionInv
<1>7. /\ Len(sent[c]) = Len(reqs[c]) /\ remaining[c] = 0 /\ owed[c] = 0
      /\ Counted(Cardinality(ReadsIn(reqs[c])))
  BY <1>6 DEF HeaderInv, Counted, ReadsOf, ReadsIn
<1>8. \A n \in 1 .. Len(sent[c]) :
         sent[c][n].handle = n /\ ReplyFits(rs[n], sent[c][n], TRUE)
  BY <1>1, <1>5, <1>6, <1>7 DEF RepliesInv
<1>9. /\ reqs'[c] = rs
      /\ owed'[c] = IF q.typ = "write" THEN q.len ELSE 0
      /\ reqs' \in [Conns -> Seq(Requests)] /\ owed' \in [Conns -> Nat]
      /\ \A d \in Conns : d # c => reqs'[d] = reqs[d] /\ owed'[d] = owed[d]
  BY <1>1, <1>3, <1>5, <1>7 DEF TypeInv, TypeOK
<1>10. /\ Cardinality(ReadsOf(c))' =
             Cardinality(ReadsOf(c)) + (IF q.typ = "read" THEN 1 ELSE 0)
       /\ Cardinality(ReadsOf(c)) \in Nat
  <2>1. ReadsOf(c)' = ReadsIn(rs) /\ ReadsOf(c) = ReadsIn(reqs[c])
    BY <1>9 DEF ReadsOf, ReadsIn
  <2>2. QED
    BY <1>4, <2>1, ReadsInAppend
<1>11. ASSUME sent' = sent, pc'[c] # "header" PROVE RepliesInv(c)'
  <2>1. ASSUME NEW n \in 1 .. Len(sent[c])
        PROVE  ReplyFits(reqs'[c][n], sent'[c][n], n < Len(reqs'[c]))
    <3>1. n < Len(reqs'[c])
      BY <1>4, <1>5, <1>7, <1>9
    <3>2. reqs'[c] = rs /\ sent'[c] = sent[c]
      BY <1>9, <1>11
    <3>3. ReplyFits(reqs'[c][n], sent'[c][n], TRUE)
      BY <1>8, <3>2
    <3>4. QED
      BY <3>1, <3>3 DEF ReplyFits
  <2>2. QED
    BY <1>4, <1>5, <1>7, <1>8, <1>9, <1>11, <2>1 DEF RepliesInv, ReplyFits
<1>12. CASE Goto(c, "ending") /\ UNCHANGED <<sent, remaining, io_log>>
  <2>1. pc'[c] = "ending"
    BY <1>12 DEF Goto, TypeInv, TypeOK
  <2>2. TypeInv'
    BY <1>1, <1>2, <1>9, <1>12 DEF TypeInv, TypeOK, Goto
  <2>3. SessionInv(c)'
    BY <1>11, <1>12, <2>1 DEF SessionInv, Transmission
  <2>4. QED
    BY <1>1, <1>9, <1>12, <2>1, <2>2, <2>3, TalkMove DEF Holding, Talking
<1>13. CASE /\ AnswersAtOnce(q)
            /\ sent' = [sent EXCEPT ![c] = Append(@, Reply(h, ErrorOf(q)))]
            /\ io_log' = IF q.typ = "read" THEN log_nbd_read ELSE io_log
            /\ UNCHANGED <<pc, remaining>>
  <2>1. ErrorOf(q) \in {0, EINVAL, EIO, EPERM, ENOSYS}
    BY DEF ErrorOf
  <2>2. /\ Reply(h, ErrorOf(q)) \in Replies /\ Reply(h, ErrorOf(q)).handle = h
        /\ Reply(h, ErrorOf(q)).data = <<>> /\ Reply(h, ErrorOf(q)).err = ErrorOf(q)
        /\ Len(Reply(h, ErrorOf(q)).data) = 0
    BY <1>4, <2>1, ReplyFacts
  <2>3. ReplyFits(q, Reply(h, ErrorOf(q)), TRUE)
    <3>1. q.typ = "read" /\ ErrorOf(q) = 0 => ~read_request_error(q)
      BY DEF ErrorOf, EINVAL
    <3>2. q.typ = "read" /\ ErrorOf(q) = 0 => q.len = 0 /\ q.off + q.len <= ExportSize
      BY <1>3, <1>13, <3>1 DEF AnswersAtOnce, read_request_error
    <3>3. QED
      BY <1>3, <2>2, <3>2 DEF ReplyFits
  <2>4. /\ sent'[c] = Append(sent[c], Reply(h, ErrorOf(q)))
        /\ sent' \in [Conns -> Seq(Replies)]
        /\ \A d \in Conns : d # c => sent'[d] = sent[d]
    BY <1>4, <1>13, <2>2, AppendProperties DEF TypeInv
  <2>5. RepliesInv(c)' /\ Len(sent'[c]) = h
    <3>1. ReplyFits(reqs'[c][Len(reqs'[c])], Reply(h, ErrorOf(q)), pc'[c] = "header")
      BY <1>1, <1>5, <1>9, <1>13, <2>3
    <3>2. Len(reqs'[c]) = Len(sent[c]) + 1 /\ Len(reqs'[c]) = h
      BY <1>5, <1>7, <1>9
    <3>3. \A n \in 1 .. Len(sent[c]) :
             sent[c][n].handle = n /\ ReplyFits(reqs'[c][n], sent[c][n], TRUE)
      BY <1>8, <1>9
    <3>4. QED
      BY <2>2, <2>4, <3>1, <3>2, <3>3, RepliesAppend
  <2>6. TypeInv'
    BY <1>1, <1>2, <1>9, <1>13, <2>4, LogFacts DEF TypeInv, TypeOK
  <2>7. q.typ # "write" \/ q.len = 0
    BY <1>3, <1>13 DEF AnswersAtOnce
  <2>8. HeaderInv(c)'
    <3>1. Counted(Cardinality(ReadsOf(c)))'
      <4>1. Counted(Cardinality(ReadsOf(c))) /\ TypeInv
        BY <1>6 DEF HeaderInv
      <4>2. CASE q.typ = "read"
        BY <1>10, <1>13, <4>1, <4>2, LogFacts DEF Counted
      <4>3. CASE q.typ # "read"
        BY <1>10, <1>13, <4>1, <4>3 DEF Counted
      <4>4. QED
        BY <4>2, <4>3
    <3>2. QED
      BY <1>5, <1>7, <1>9, <1>13, <2>5, <2>7, <3>1 DEF HeaderInv
  <2>9. SessionInv(c)'
    BY <1>1, <1>13, <2>5, <2>8 DEF SessionInv, Transmission
  <2>10. QED
    BY <1>1, <1>9, <1>13, <2>4, <2>6, <2>9, TalkMove DEF Holding, Talking
<1>14. CASE /\ q.typ \in {"read", "write"} /\ ~AnswersAtOnce(q)
            /\ Goto(c, IF q.typ = "read" THEN "serving" ELSE "draining")
            /\ remaining' = [remaining EXCEPT ![c] = q.len]
            /\ UNCHANGED <<sent, io_log>>
  <2>1. /\ pc'[c] = IF q.typ = "read" THEN "serving" ELSE "draining"
        /\ remaining'[c] = q.len /\ remaining' \in [Conns -> Nat]
        /\ \A d \in Conns : d # c => remaining'[d] = remaining[d]
    BY <1>3, <1>14 DEF Goto, TypeInv, TypeOK
  <2>2. q.len > 0 /\ (q.typ = "read" => ~read_request_error(q))
    BY <1>3, <1>14 DEF AnswersAtOnce
  <2>3. TypeInv'
    BY <1>1, <1>2, <1>9, <1>14, <2>1 DEF TypeInv, TypeOK, Goto, Talking
  <2>4. reqs'[c][Len(reqs'[c])] = q /\ Len(reqs'[c]) = Len(sent'[c]) + 1
    BY <1>5, <1>7, <1>9, <1>14
  <2>5. RepliesInv(c)'
    BY <1>11, <1>14, <2>1
  <2>6. q.typ = "write" => DrainInv(c)'
    <3>1. q.typ = "write" => Counted(Cardinality(ReadsOf(c)))'
      BY <1>6, <1>10, <1>14 DEF HeaderInv, Counted
    <3>2. QED
      BY <1>9, <1>14, <2>1, <2>2, <2>4, <3>1 DEF DrainInv, Current
  <2>7. q.typ = "read" => ServeInv(c)'
    <3>1. q.typ = "read" => ~Replied(c)' /\ Len(reqs'[c]) > 0
      BY <1>4, <1>14, <2>4 DEF Replied
    <3>2. q.typ = "read" => OneBehind(Cardinality(ReadsOf(c)))'
      <4>1. Counted(Cardinality(ReadsOf(c))) /\ TypeInv
        BY <1>6 DEF HeaderInv
      <4>2. QED
        BY <1>10, <1>14, <4>1 DEF Counted, OneBehind, TypeInv, TypeOK
    <3>3. QED
      BY <1>3, <1>9, <1>14, <2>1, <2>2, <2>4, <3>1, <3>2
      DEF ServeInv, Current, read_request_error
  <2>8. SessionInv(c)'
    BY <1>14, <2>1, <2>5, <2>6, <2>7 DEF SessionInv, Transmission
  <2>9. QED
    BY <1>1, <1>9, <1>14, <2>1, <2>3, <2>8, TalkMove DEF Holding, Talking
<1>15. QED
  BY <1>12, <1>13, <1>14 DEF Request

\* The next piece of a command is neither empty nor more than is left.
LEMMA WantFacts ==
    ASSUME NEW c \in Conns, TypeInv, remaining[c] > 0
    PROVE  Want(c) \in 1 .. remaining[c]
BY NbdAssumption DEF Want, Lesser, TypeInv, TypeOK

\* The payload is drained piece by piece and the refusal follows the last.
LEMMA DrainStep ==
    ASSUME ServerInv, NEW c \in Conns, Drain(c)
    PROVE  ServerInv'
<1> USE DEF ServerInv
<1> DEFINE left == remaining[c] - Want(c)
<1>1. /\ pc[c] = "draining"
      /\ owed' = [owed EXCEPT ![c] = @ - Want(c)]
      /\ remaining' = [remaining EXCEPT ![c] = @ - Want(c)]
      /\ UNCHANGED <<gone, accept, owner, poisoned, reqs, io_log>>
  BY DEF Drain
<1>2. UNCHANGED <<accepting, current, sessions>>
  BY <1>1 DEF accept
<1>3. DrainInv(c) /\ RepliesInv(c)
  BY <1>1 DEF SessionInv
<1>4. Want(c) \in 1 .. remaining[c] /\ remaining[c] \in Nat /\ owed[c] = remaining[c]
  BY <1>3, WantFacts DEF DrainInv, TypeInv, TypeOK
<1>5. /\ remaining'[c] = left /\ owed'[c] = left /\ left \in Nat
      /\ remaining' \in [Conns -> Nat] /\ owed' \in [Conns -> Nat]
      /\ \A d \in Conns : d # c => remaining'[d] = remaining[d] /\ owed'[d] = owed[d]
  BY <1>1, <1>4 DEF TypeInv, TypeOK
<1>6. /\ reqs[c] \in Seq(Requests) /\ sent[c] \in Seq(Replies)
      /\ Len(reqs[c]) \in Nat /\ Len(sent[c]) \in Nat
      /\ Len(reqs[c]) = Len(sent[c]) + 1
  BY <1>3, LenProperties DEF TypeInv, TypeOK, DrainInv
<1>7. CASE DrainedAfter(c)
  <2>1. /\ sent' = [sent EXCEPT ![c] = Append(@, Reply(Len(reqs[c]), EPERM))]
        /\ Goto(c, "header") /\ pc'[c] = "header" /\ left = 0
    BY <1>4, <1>7 DEF Drain, DrainedAfter, Goto, TypeInv, TypeOK
  <2>2. /\ Reply(Len(reqs[c]), EPERM) \in Replies
        /\ Reply(Len(reqs[c]), EPERM).handle = Len(reqs[c])
        /\ Reply(Len(reqs[c]), EPERM).data = <<>>
    BY <1>6, ReplyFacts
  <2>3. /\ sent'[c] = Append(sent[c], Reply(Len(reqs[c]), EPERM))
        /\ sent' \in [Conns -> Seq(Replies)]
        /\ \A d \in Conns : d # c => sent'[d] = sent[d]
    BY <1>6, <2>1, <2>2, AppendProperties DEF TypeInv
  <2>4. RepliesInv(c)' /\ Len(sent'[c]) = Len(reqs[c])
    <3>1. ReplyFits(reqs'[c][Len(reqs'[c])], Reply(Len(reqs[c]), EPERM), pc'[c] = "header")
      BY <1>1, <1>3, <2>2 DEF ReplyFits, DrainInv, Current
    <3>2. \A n \in 1 .. Len(sent[c]) :
             sent[c][n].handle = n /\ ReplyFits(reqs'[c][n], sent[c][n], TRUE)
      BY <1>1, <1>3, <1>6 DEF RepliesInv, ReplyFits
    <3>3. QED
      BY <1>1, <1>6, <2>2, <2>3, <3>1, <3>2, RepliesAppend
  <2>5. TypeInv'
    BY <1>1, <1>2, <1>5, <2>1, <2>3 DEF TypeInv, TypeOK, Goto, Talking
  <2>6. HeaderInv(c)'
    BY <1>1, <1>3, <1>5, <2>1, <2>4 DEF HeaderInv, DrainInv, Counted, ReadsOf
  <2>7. SessionInv(c)'
    BY <2>1, <2>4, <2>6 DEF SessionInv, Transmission
  <2>8. QED
    BY <1>1, <1>5, <2>1, <2>3, <2>5, <2>7, TalkMove DEF Holding, Talking
<1>8. CASE ~DrainedAfter(c)
  <2>1. UNCHANGED <<sent, pc>> /\ left > 0
    BY <1>4, <1>8 DEF Drain, DrainedAfter
  <2>2. TypeInv'
    BY <1>1, <1>2, <1>5, <2>1 DEF TypeInv, TypeOK
  <2>3. DrainInv(c)' /\ RepliesInv(c)'
    BY <1>1, <1>3, <1>5, <2>1 DEF DrainInv, RepliesInv, ReplyFits, Current, Counted, ReadsOf
  <2>4. SessionInv(c)'
    BY <1>1, <2>1, <2>3 DEF SessionInv, Transmission
  <2>5. QED
    BY <1>1, <1>5, <2>1, <2>2, <2>4, TalkMove DEF Holding, Talking
<1>9. QED
  BY <1>7, <1>8

\* Where the current read stands: it lies in the export, and the next byte to go out
\* is the one after those that are out.
LEMMA ReadFacts ==
    ASSUME ServerInv, NEW c \in Conns, pc[c] = "serving"
    PROVE  /\ Current(c).typ = "read" /\ Current(c).off \in Nat /\ Current(c).len \in Nat
           /\ Current(c).off + Current(c).len <= ExportSize
           /\ Current(c) = reqs[c][Len(reqs[c])]
           /\ remaining[c] \in Nat /\ remaining[c] \in 1 .. Current(c).len
           /\ Pos(c) \in Nat /\ Pos(c) = Current(c).off + (Current(c).len - remaining[c])
           /\ reqs[c] \in Seq(Requests) /\ sent[c] \in Seq(Replies)
           /\ Len(reqs[c]) \in Nat \ {0} /\ Len(sent[c]) \in Nat
           /\ ServeInv(c) /\ RepliesInv(c)
<1> USE DEF ServerInv
<1>1. ServeInv(c) /\ RepliesInv(c)
  BY DEF SessionInv
<1>2. /\ reqs[c] \in Seq(Requests) /\ sent[c] \in Seq(Replies) /\ remaining[c] \in Nat
      /\ Len(reqs[c]) \in Nat \ {0} /\ Len(sent[c]) \in Nat
  BY <1>1, LenProperties DEF TypeInv, TypeOK, ServeInv
<1>3. Current(c) \in Requests /\ Current(c) = reqs[c][Len(reqs[c])]
  BY <1>2, ElementOfSeq DEF Current
<1>4. Current(c).off \in Nat /\ Current(c).len \in Nat /\ ExportSize \in Nat
  BY <1>3, NbdAssumption
<1>5. Current(c).off + Current(c).len <= ExportSize
  BY <1>1, <1>4 DEF ServeInv, read_request_error
<1>6. Pos(c) = Current(c).off + (Current(c).len - remaining[c]) /\ Pos(c) \in Nat
  BY <1>1, <1>2, <1>4 DEF Pos, ServeInv
<1>7. QED
  BY <1>1, <1>2, <1>3, <1>4, <1>5, <1>6 DEF ServeInv

\* The replies with the bytes of the image appended to the current one.
Served(c, n) ==
    LET bytes == [i \in 1 .. n |-> Pos(c) + i - 1]
        head  == IF Replied(c) THEN sent[c] ELSE Append(sent[c], Reply(Len(reqs[c]), 0))
    IN  [head EXCEPT ![Len(head)].data = @ \o bytes]

\* The current reply grows by the bytes that follow the ones it has, and the replies
\* before it stay.
LEMMA ServedFacts ==
    ASSUME ServerInv, NEW c \in Conns, pc[c] = "serving", NEW n \in 1 .. Want(c)
    PROVE  LET s == Served(c, n)
               m == Len(reqs[c])
           IN  /\ s \in Seq(Replies) /\ Len(s) = m
               /\ s[m].handle = m /\ s[m].err = 0
               /\ Len(s[m].data) = Current(c).len - remaining[c] + n
               /\ \A i \in 1 .. Len(s[m].data) : s[m].data[i] = Current(c).off + i - 1
               /\ \A k \in 1 .. m : k < m => k \in 1 .. Len(sent[c]) /\ s[k] = sent[c][k]
<1> DEFINE m == Len(reqs[c])
           head == IF Replied(c) THEN sent[c] ELSE Append(sent[c], Reply(m, 0))
           out == Current(c).len - remaining[c]
           bytes == [i \in 1 .. n |-> Pos(c) + i - 1]
           r == [head[m] EXCEPT !.data = @ \o bytes]
<1>1. /\ m \in Nat \ {0} /\ Pos(c) \in Nat /\ Pos(c) = Current(c).off + out
      /\ out \in Nat /\ Current(c).off \in Nat
      /\ sent[c] \in Seq(Replies) /\ Len(sent[c]) \in Nat
  BY ReadFacts
<1>2. ServeInv(c) /\ RepliesInv(c)
  BY ReadFacts
<1>3. n \in Nat
  BY WantFacts, ReadFacts DEF ServerInv
<1>4. bytes \in Seq(Nat) /\ Len(bytes) = n /\ \A i \in 1 .. n : bytes[i] = Pos(c) + i - 1
  <2>1. \A i \in 1 .. n : Pos(c) + i - 1 \in Nat
    BY <1>1, <1>3
  <2>2. bytes \in [1 .. n -> Nat]
    BY <2>1
  <2>3. bytes \in Seq(Nat)
    BY <1>3, <2>2, SeqDef
  <2>4. QED
    BY <1>3, <2>2, <2>3, LenProperties
<1>5. /\ head \in Seq(Replies) /\ Len(head) = m
      /\ head[m].handle = m /\ head[m].err = 0 /\ Len(head[m].data) = out
      /\ \A i \in 1 .. out : head[m].data[i] = Current(c).off + i - 1
      /\ \A k \in 1 .. m : k < m => k \in 1 .. Len(sent[c]) /\ head[k] = sent[c][k]
  <2>1. CASE Replied(c)
    <3>1. head = sent[c] /\ Len(sent[c]) = m /\ sent[c][m].err = 0
      BY <1>2, <2>1 DEF ServeInv, Replied
    <3>2. ReplyFits(Current(c), sent[c][m], FALSE) /\ sent[c][m].handle = m
      <4>1. m \in 1 .. Len(sent[c])
        BY <1>1, <3>1
      <4>2. /\ sent[c][m].handle = m
            /\ ReplyFits(reqs[c][m], sent[c][m], pc[c] = "header" \/ m < Len(reqs[c]))
        BY <1>2, <4>1 DEF RepliesInv
      <4>3. QED
        BY <4>2 DEF ReplyFits, Current
    <3>3. Len(sent[c][m].data) = out
      BY <1>2, <2>1 DEF ServeInv
    <3>4. \A i \in 1 .. out : sent[c][m].data[i] = Current(c).off + i - 1
      BY <3>1, <3>2, <3>3, ReadFacts DEF ReplyFits
    <3>5. QED
      BY <1>1, <3>1, <3>2, <3>3, <3>4
  <2>2. CASE ~Replied(c)
    <3>1. head = Append(sent[c], Reply(m, 0)) /\ Len(sent[c]) + 1 = m /\ out = 0
      <4>1. Len(sent[c]) <= m /\ m <= Len(sent[c]) + 1 /\ Len(sent[c]) # m
        BY <1>2, <2>2 DEF Replied, RepliesInv
      <4>2. remaining[c] = Current(c).len
        BY <1>2, <2>2 DEF ServeInv
      <4>3. Len(sent[c]) + 1 = m
        BY <1>1, <4>1
      <4>4. remaining[c] \in Nat
        BY ReadFacts
      <4>5. QED
        BY <2>2, <4>2, <4>3, <4>4
    <3>2. /\ Reply(m, 0) \in Replies /\ Reply(m, 0).handle = m
          /\ Reply(m, 0).err = 0 /\ Len(Reply(m, 0).data) = 0
      BY <1>1, ReplyFacts
    <3>3. /\ head \in Seq(Replies) /\ Len(head) = m /\ head[m] = Reply(m, 0)
          /\ \A k \in 1 .. Len(sent[c]) : head[k] = sent[c][k]
      BY <1>1, <3>1, <3>2, AppendProperties
    <3>4. QED
      BY <1>1, <3>1, <3>2, <3>3
  <2>3. QED
    BY <2>1, <2>2
<1>6. Served(c, n) = [head EXCEPT ![m] = r]
  BY <1>5 DEF Served
<1> HIDE DEF m, head, out, bytes, r
<1>7. head[m] \in Replies /\ head[m].data \in Seq(Nat)
  <2>1. m \in 1 .. Len(head)
    BY <1>1, <1>5
  <2>2. head[m] \in Replies
    BY <1>5, <2>1, ElementOfSeq
  <2>3. QED
    BY <2>2 DEF Replies
<1>8. /\ head[m].data \o bytes \in Seq(Nat) /\ Len(head[m].data \o bytes) = out + n
      /\ \A i \in 1 .. out + n : (head[m].data \o bytes)[i] =
            IF i <= out THEN head[m].data[i] ELSE bytes[i - out]
  <2> DEFINE d == head[m].data
  <2>1. d \in Seq(Nat) /\ bytes \in Seq(Nat) /\ Len(d) = out /\ Len(bytes) = n
    BY <1>4, <1>5, <1>7
  <2> HIDE DEF d
  <2>2. /\ d \o bytes \in Seq(Nat) /\ Len(d \o bytes) = Len(d) + Len(bytes)
        /\ \A i \in 1 .. Len(d) + Len(bytes) : (d \o bytes)[i] =
              IF i <= Len(d) THEN d[i] ELSE bytes[i - Len(d)]
    BY <2>1, ConcatProperties
  <2>3. QED
    BY <2>1, <2>2 DEF d
<1>9. /\ r \in Replies /\ r.handle = m /\ r.err = 0
      /\ r.data = head[m].data \o bytes /\ Len(r.data) = out + n
  BY <1>5, <1>7, <1>8 DEF Replies, r
<1>10. \A i \in 1 .. out + n : r.data[i] = Current(c).off + i - 1
  <2> TAKE i \in 1 .. out + n
  <2>0. i \in Nat /\ i >= 1 /\ i <= out + n /\ out \in Nat /\ n \in Nat
    BY <1>1, <1>3
  <2>1. r.data[i] = IF i <= out THEN head[m].data[i] ELSE bytes[i - out]
    BY <1>8, <1>9
  <2>2. CASE i <= out
    <3>1. i \in 1 .. out /\ r.data[i] = head[m].data[i]
      BY <2>0, <2>1, <2>2
    <3>2. QED
      BY <1>5, <3>1
  <2>3. CASE ~(i <= out)
    <3>1. i - out \in 1 .. n /\ r.data[i] = bytes[i - out]
      BY <2>0, <2>1, <2>3
    <3>2. bytes[i - out] = Pos(c) + (i - out) - 1
      BY <1>4, <3>1
    <3>3. QED
      BY <1>1, <2>0, <3>1, <3>2
  <2>4. QED
    BY <2>2, <2>3
<1>11. /\ Served(c, n) \in Seq(Replies) /\ Len(Served(c, n)) = m
       /\ \A k \in 1 .. m : Served(c, n)[k] = IF k = m THEN r ELSE head[k]
  <2>1. m \in 1 .. Len(head)
    BY <1>1, <1>5
  <2>2. QED
    BY <1>5, <1>6, <1>9, <2>1, ExceptSeq
<1>12. QED
  <2>1. Served(c, n)[m] = r
    BY <1>1, <1>11
  <2>2. \A k \in 1 .. m : k < m => k \in 1 .. Len(sent[c]) /\ Served(c, n)[k] = sent[c][k]
    <3>1. \A k \in 1 .. m : k < m => k # m
      BY <1>1
    <3>2. QED
      BY <1>5, <1>11, <3>1
  <2>3. QED
    BY <1>9, <1>10, <1>11, <2>1, <2>2 DEF out, m

\* Bytes go out: the read is complete and counted, or goes on.
LEMMA ServeBytesStep ==
    ASSUME ServerInv, NEW c \in Conns, NEW n, ServeBytes(c, n)
    PROVE  ServerInv'
<1> USE DEF ServerInv
<1> DEFINE m == Len(reqs[c])
           left == remaining[c] - n
<1>1. /\ pc[c] = "serving" /\ n \in 1 .. Want(c)
      /\ sent' = [sent EXCEPT ![c] = Served(c, n)]
      /\ remaining' = [remaining EXCEPT ![c] = @ - n]
      /\ UNCHANGED <<gone, accept, owner, poisoned, reqs, owed>>
  BY DEF ServeBytes, Served
<1>2. UNCHANGED <<accepting, current, sessions>>
  BY <1>1 DEF accept
<1>3. n \in 1 .. remaining[c] /\ n \in Nat /\ left \in Nat
  BY <1>1, WantFacts, ReadFacts
<1>4. /\ remaining'[c] = left /\ remaining' \in [Conns -> Nat]
      /\ \A d \in Conns : d # c => remaining'[d] = remaining[d]
  BY <1>1, <1>3 DEF TypeInv, TypeOK
<1>5. /\ Served(c, n) \in Seq(Replies) /\ Len(Served(c, n)) = m
      /\ Served(c, n)[m].handle = m /\ Served(c, n)[m].err = 0
      /\ Len(Served(c, n)[m].data) = Current(c).len - left
      /\ \A i \in 1 .. Len(Served(c, n)[m].data) :
            Served(c, n)[m].data[i] = Current(c).off + i - 1
      /\ \A k \in 1 .. m : k < m => k \in 1 .. Len(sent[c]) /\ Served(c, n)[k] = sent[c][k]
  <2>1. Current(c).len - remaining[c] + n = Current(c).len - left
    BY <1>1, <1>3, ReadFacts
  <2>2. QED
    BY <1>1, <2>1, ServedFacts
<1>6. /\ sent'[c] = Served(c, n) /\ sent' \in [Conns -> Seq(Replies)]
      /\ \A d \in Conns : d # c => sent'[d] = sent[d]
  <2> HIDE DEF m, left
  <2>1. QED
    BY <1>1, <1>5 DEF TypeInv
<1>7. left = 0 <=> n = remaining[c]
  BY <1>1, <1>3, ReadFacts
<1>8. RepliesInv(c)'
  <2> HIDE DEF left
  <2>1. ASSUME NEW k \in 1 .. m
        PROVE  /\ sent'[c][k].handle = k
               /\ ReplyFits(reqs'[c][k], sent'[c][k], left = 0 \/ k < m)
    <3>1. CASE k = m
      <4>1. reqs'[c][k] = Current(c)
        BY <1>1, <3>1, ReadFacts
      <4>2. /\ sent'[c][k].handle = k /\ sent'[c][k].err = 0
            /\ Len(sent'[c][k].data) = Current(c).len - left
            /\ \A j \in 1 .. Len(sent'[c][k].data) :
                  sent'[c][k].data[j] = Current(c).off + j - 1
        BY <1>5, <1>6, <3>1
      <4>3. /\ Current(c).typ = "read" /\ Current(c).len \in Nat /\ ~(k < m)
            /\ Current(c).off + Current(c).len <= ExportSize
        BY <1>1, <3>1, ReadFacts
      <4>4. /\ Len(sent'[c][k].data) <= Current(c).len
            /\ left = 0 => Len(sent'[c][k].data) = Current(c).len
        BY <1>3, <4>2, <4>3
      <4>5. QED
        BY <4>1, <4>2, <4>3, <4>4 DEF ReplyFits
    <3>2. CASE k # m
      <4>1. k < m /\ k \in 1 .. Len(sent[c]) /\ sent'[c][k] = sent[c][k]
        BY <1>1, <1>5, <1>6, <2>1, <3>2, ReadFacts
      <4>2. sent[c][k].handle = k /\ ReplyFits(reqs[c][k], sent[c][k], TRUE)
        BY <1>1, <4>1, ReadFacts DEF RepliesInv, ReplyFits
      <4>3. QED
        BY <1>1, <4>1, <4>2 DEF ReplyFits
    <3>3. QED
      BY <3>1, <3>2
  <2>2. pc'[c] = "header" => left = 0
    BY <1>7, <1>1 DEF ServeBytes
  <2>3. \A k \in 1 .. Len(sent'[c]) :
          /\ sent'[c][k].handle = k
          /\ ReplyFits(reqs'[c][k], sent'[c][k], pc'[c] = "header" \/ k < Len(reqs'[c]))
    BY <1>1, <1>5, <1>6, <2>1, <2>2 DEF ReplyFits
  <2>4. Len(sent'[c]) = Len(reqs'[c]) /\ Len(reqs'[c]) \in Nat
    BY <1>1, <1>5, <1>6, ReadFacts
  <2>5. QED
    BY <2>3, <2>4 DEF RepliesInv
<1>9. ServeInv(c) /\ OneBehind(Cardinality(ReadsOf(c)))
  BY <1>1, ReadFacts DEF ServeInv, TypeInv, TypeOK
<1>10. CASE left = 0
  <2>1. Goto(c, "header") /\ io_log' = log_nbd_read
    <3> HIDE DEF left
    <3>1. QED
      BY <1>7, <1>10 DEF ServeBytes
  <2>2. pc'[c] = "header"
    BY <2>1 DEF Goto, TypeInv, TypeOK
  <2>3. TypeInv'
    <3>1. io_log' \in [serving : BOOLEAN, nbd_reads : Nat]
      BY <2>1, LogFacts
    <3>2. UNCHANGED <<gone, owner, poisoned, reqs, owed>>
      BY <1>1
    <3>3. pc' \in [Conns -> {"away", "backlog", "waiting", "ending", "unlocked", "closed"}
                             \cup Talking]
      BY <2>1 DEF TypeInv, TypeOK, Goto, Talking
    <3>4. QED
      BY <1>2, <1>4, <1>6, <3>1, <3>2, <3>3 DEF TypeInv, TypeOK
  <2>4. HeaderInv(c)'
    <3>1. Counted(Cardinality(ReadsOf(c)))'
      <4>1. ReadsOf(c)' = ReadsOf(c)
        BY <1>1 DEF ReadsOf
      <4>2. QED
        BY <1>9, <2>1, <4>1, LogCatchesUp DEF Counted
    <3>2. QED
      BY <1>1, <1>4, <1>5, <1>6, <1>9, <1>10, <3>1 DEF HeaderInv, ServeInv
  <2>5. SessionInv(c)'
    BY <1>8, <2>2, <2>4 DEF SessionInv, Transmission
  <2>6. QED
    BY <1>1, <1>4, <1>6, <2>1, <2>2, <2>3, <2>5, TalkMove DEF Holding, Talking
<1>11. CASE left # 0
  <2>1. UNCHANGED <<pc, io_log>>
    BY <1>7, <1>11 DEF ServeBytes
  <2>2. TypeInv'
    BY <1>1, <1>2, <1>4, <1>6, <2>1 DEF TypeInv, TypeOK
  <2>3. ServeInv(c)'
    <3>1. Current(c)' = Current(c)
      BY <1>1 DEF Current
    <3>2. Replied(c)' /\ sent'[c][Len(reqs'[c])].err = 0
      BY <1>1, <1>5, <1>6 DEF Replied
    <3>3. remaining'[c] \in 1 .. Current(c).len
      BY <1>1, <1>3, <1>4, <1>11, ReadFacts
    <3>4. Len(sent'[c][Len(reqs'[c])].data) = Current(c)'.len - remaining'[c]
      BY <1>1, <1>4, <1>5, <1>6, <3>1
    <3>5. ~read_request_error(Current(c))'
      BY <1>9, <3>1 DEF ServeInv, read_request_error
    <3>6. QED
      BY <1>1, <1>9, <2>1, <3>1, <3>2, <3>3, <3>4, <3>5 DEF ServeInv, OneBehind, ReadsOf
  <2>4. SessionInv(c)'
    BY <1>1, <1>8, <2>1, <2>3 DEF SessionInv, Transmission
  <2>5. QED
    BY <1>1, <1>4, <1>6, <2>1, <2>2, <2>4, TalkMove DEF Holding, Talking
<1>12. QED
  BY <1>10, <1>11

\* A read that fails before its reply is answered with the error; after it the
\* session ends.
LEMMA ServeErrorStep ==
    ASSUME ServerInv, NEW c \in Conns, ServeError(c)
    PROVE  ServerInv'
<1> USE DEF ServerInv
<1>1. /\ pc[c] = "serving" /\ io_log' = log_nbd_read
      /\ UNCHANGED <<gone, accept, owner, poisoned, reqs, owed>>
  BY DEF ServeError
<1>2. UNCHANGED <<accepting, current, sessions>>
  BY <1>1 DEF accept
<1>3. ServeInv(c) /\ RepliesInv(c)
  BY <1>1, ReadFacts DEF TypeInv, TypeOK
<1>4. CASE /\ ~Replied(c)
           /\ sent' = [sent EXCEPT ![c] = Append(@, Reply(Len(reqs[c]), EIO))]
           /\ remaining' = [remaining EXCEPT ![c] = 0]
           /\ Goto(c, "header")
  <2>1. /\ pc'[c] = "header" /\ remaining'[c] = 0 /\ remaining' \in [Conns -> Nat]
        /\ \A d \in Conns : d # c => remaining'[d] = remaining[d]
    BY <1>4 DEF Goto, TypeInv, TypeOK
  <2>2. /\ Reply(Len(reqs[c]), EIO) \in Replies
        /\ Reply(Len(reqs[c]), EIO).handle = Len(reqs[c])
        /\ Reply(Len(reqs[c]), EIO).data = <<>>
        /\ Reply(Len(reqs[c]), EIO).err = EIO
    BY <1>1, ReadFacts, ReplyFacts
  <2>3. /\ sent[c] \in Seq(Replies) /\ Len(sent[c]) \in Nat
        /\ Len(reqs[c]) = Len(sent[c]) + 1
    <3>1. /\ sent[c] \in Seq(Replies) /\ Len(sent[c]) \in Nat /\ Len(reqs[c]) \in Nat
      BY <1>1, ReadFacts
    <3>2. Len(sent[c]) <= Len(reqs[c]) /\ Len(reqs[c]) <= Len(sent[c]) + 1
      BY <1>3 DEF RepliesInv
    <3>3. Len(sent[c]) # Len(reqs[c])
      BY <1>4, <3>1 DEF Replied
    <3>4. QED
      BY <3>1, <3>2, <3>3
  <2>4. /\ sent'[c] = Append(sent[c], Reply(Len(reqs[c]), EIO))
        /\ sent' \in [Conns -> Seq(Replies)]
        /\ \A d \in Conns : d # c => sent'[d] = sent[d]
    BY <1>4, <2>2, <2>3, AppendProperties DEF TypeInv
  <2>5. RepliesInv(c)' /\ Len(sent'[c]) = Len(reqs[c])
    <3>1. ReplyFits(reqs'[c][Len(reqs'[c])], Reply(Len(reqs[c]), EIO), pc'[c] = "header")
      BY <2>2 DEF ReplyFits, EIO
    <3>2. \A n \in 1 .. Len(sent[c]) :
             sent[c][n].handle = n /\ ReplyFits(reqs'[c][n], sent[c][n], TRUE)
      BY <1>1, <1>3, <2>3 DEF RepliesInv, ReplyFits
    <3>3. QED
      BY <1>1, <2>2, <2>3, <2>4, <3>1, <3>2, RepliesAppend
  <2>6. TypeInv'
    BY <1>1, <1>2, <1>3, <1>4, <2>1, <2>4, LogFacts DEF TypeInv, TypeOK, Goto, Talking
  <2>7. HeaderInv(c)'
    <3>1. ReadsOf(c)' = ReadsOf(c) /\ OneBehind(Cardinality(ReadsOf(c)))
      BY <1>1, <1>3 DEF ReadsOf, ServeInv
    <3>2. Counted(Cardinality(ReadsOf(c)))'
      BY <1>1, <3>1, LogCatchesUp DEF Counted
    <3>3. QED
      BY <1>1, <1>3, <2>1, <2>5, <3>2 DEF HeaderInv, ServeInv
  <2>8. SessionInv(c)'
    BY <2>1, <2>5, <2>7 DEF SessionInv, Transmission
  <2>9. QED
    BY <1>1, <1>4, <2>1, <2>4, <2>6, <2>8, TalkMove DEF Holding, Talking
<1>5. CASE Replied(c) /\ Goto(c, "ending") /\ UNCHANGED <<sent, remaining>>
  <2>1. pc'[c] = "ending"
    BY <1>5 DEF Goto, TypeInv, TypeOK
  <2>2. TypeInv'
    BY <1>1, <1>2, <1>3, <1>5, LogFacts DEF TypeInv, TypeOK, Goto
  <2>3. RepliesInv(c)'
    BY <1>1, <1>3, <1>5, <2>1 DEF RepliesInv, ReplyFits
  <2>4. SessionInv(c)'
    BY <2>1, <2>3 DEF SessionInv, Transmission
  <2>5. QED
    BY <1>1, <1>5, <2>1, <2>2, <2>4, TalkMove DEF Holding, Talking
<1>6. QED
  BY <1>4, <1>5 DEF ServeError

-----------------------------------------------------------------------------
(* The server.                                                             *)

\* The server starts in its invariant.
LEMMA ServerInit == Init => ServerInv
<1> SUFFICES ASSUME Init PROVE ServerInv
  OBVIOUS
<1>1. TypeInv
  <2>1. <<>> \in Seq(Requests) /\ <<>> \in Seq(Replies)
    BY EmptySeq
  <2>2. QED
    BY <2>1 DEF Init, TypeInv, TypeOK
<1>2. AcceptInv
  <2>1. Sessions = {}
    BY DEF Init, Sessions, InSession, Talking
  <2>2. QED
    BY <2>1, FS_EmptySet, NbdAssumption DEF Init, AcceptInv, SlotsMatchSessions
<1>3. LockInv
  BY NbdAssumption DEF Init, LockInv, Holding, Talking
<1>4. \A c \in Conns : SessionInv(c)
  BY DEF Init, SessionInv, RepliesInv, Transmission
<1>5. QED
  BY <1>1, <1>2, <1>3, <1>4 DEF ServerInv

\* Every step of the server preserves it.
LEMMA ServerNext == ServerInv /\ [Next]_vars => ServerInv'
<1> SUFFICES ASSUME ServerInv, [Next]_vars PROVE ServerInv'
  OBVIOUS
<1>1. CASE AcceptStep
  BY <1>1, AcceptConnStep, NoSlotStep, TakeSlotStep DEF AcceptStep
<1>2. ASSUME NEW c \in Conns, Connect(c) \/ HangUp(c) PROVE ServerInv'
  BY <1>2, ConnectStep, HangUpStep
<1>3. ASSUME NEW c \in Conns, ThreadStep(c) PROVE ServerInv'
  <2>1. CASE Unlock(c)
    <3>1. pc[c] \in Holding /\ poisoned' \in BOOLEAN
      BY <2>1 DEF Unlock, Holding, ServerInv, TypeInv, TypeOK
    <3>2. QED
      BY <2>1, <3>1, LetGo DEF Unlock
  <2>2. QED
    BY <1>3, <2>1, LockStep, DropSlotStep, StreamFailsStep DEF ThreadStep
<1>4. ASSUME NEW c \in Conns, TalkStep(c) PROVE ServerInv'
  <2>1. CASE ServePanic(c)
    <3>1. pc[c] \in Holding /\ poisoned' \in BOOLEAN
      BY <2>1 DEF ServePanic, Holding, Talking
    <3>2. QED
      BY <2>1, <3>1, LetGo DEF ServePanic
  <2>2. CASE \E n \in 1 .. READ_BUF_SIZE : ServeBytes(c, n)
    BY <2>2, ServeBytesStep
  <2>3. CASE \E opt \in {"export_name", "go", "abort", "invalid"} \cup Answered : Option(c, opt)
    BY <2>3, OptionStep
  <2>4. CASE \E valid \in BOOLEAN : ClientFlags(c, valid)
    BY <2>4, ClientFlagsStep
  <2>5. CASE \E q \in Requests : Request(c, q)
    BY <2>5, RequestStep
  <2>6. QED
    BY <1>4, <2>1, <2>2, <2>3, <2>4, <2>5, DrainStep, ServeErrorStep DEF TalkStep
<1>5. CASE UNCHANGED vars
  <2>1. /\ UNCHANGED <<pc, gone, accepting, current, sessions, owner, poisoned>>
        /\ UNCHANGED <<reqs, sent, remaining, owed, io_log>>
    BY <1>5 DEF vars, accept, wire
  <2>2. TypeInv' /\ AcceptInv' /\ LockInv'
    BY <2>1 DEF ServerInv, TypeInv, TypeOK, AcceptInv, SlotsMatchSessions, Sessions, LockInv
  <2>3. \A c \in Conns : SessionInv(c)'
    BY <2>1, SessionKept DEF ServerInv
  <2>4. QED
    BY <2>2, <2>3 DEF ServerInv
<1>6. QED
  BY <1>1, <1>2, <1>3, <1>4, <1>5 DEF Next

-----------------------------------------------------------------------------
(* The start.                                                              *)

\* A step of the start, or of the server, that the other does not see.
LEMMA ServerStutters ==
    ASSUME ServerInv, UNCHANGED vars
    PROVE  /\ ServerInv'
           /\ UNCHANGED <<pc, accepting, sessions, owner>>
BY ServerNext DEF vars, accept

\* A process that ends before it serves takes its backlog along and nothing else.
LEMMA AllClosed ==
    ASSUME ServerInv, BootInv, boot.stage # "up",
           pc' = [c \in Conns |-> "closed"],
           UNCHANGED <<gone, accept, owner, poisoned, wire>>
    PROVE  ServerInv' /\ accepting' = None /\ sessions' = 0 /\ owner' = None
<1> USE DEF ServerInv
<1>1. /\ UNCHANGED <<accepting, current, sessions, reqs, sent, remaining, owed, io_log>>
      /\ accepting = None /\ sessions = 0 /\ owner = None
      /\ \A c \in Conns : pc[c] \in {"away", "backlog", "closed"}
  BY DEF accept, wire, BootInv
<1>2. TypeInv'
  BY <1>1 DEF TypeInv, TypeOK
<1>3. AcceptInv'
  <2>1. Sessions' = {}
    BY DEF Sessions, InSession, Talking
  <2>2. QED
    BY <1>1, <2>1, FS_EmptySet, NbdAssumption DEF AcceptInv, SlotsMatchSessions
<1>4. LockInv'
  BY <1>1, NbdAssumption DEF LockInv, Holding, Talking
<1>5. ASSUME NEW c \in Conns PROVE SessionInv(c)'
  <2>1. /\ pc'[c] = "closed" /\ reqs'[c] = <<>> /\ sent'[c] = <<>>
        /\ remaining'[c] = 0 /\ owed'[c] = 0
    BY <1>1 DEF SessionInv, Transmission
  <2>2. QED
    BY <2>1 DEF SessionInv, RepliesInv, Transmission
<1>6. QED
  BY <1>1, <1>2, <1>3, <1>4, <1>5

\* The process ends with an error in the middle of its start.
LEMMA ExitStep ==
    ASSUME MainInv, boot.stage # "up", Exit
    PROVE  MainInv'
<1>1. ServerInv' /\ accepting' = None /\ sessions' = 0 /\ owner' = None
  BY AllClosed DEF MainInv, Exit
<1>2. BootInv'
  BY <1>1 DEF MainInv, BootInv, Exit, Late, Stages
<1>3. QED
  BY <1>1, <1>2 DEF MainInv

\* A step from one stage of the start to a later one.
LEMMA StageStep ==
    ASSUME MainInv, boot.stage # "up", NEW to \in Stages, to # "up",
           boot' = [boot EXCEPT !.stage = to], UNCHANGED vars,
           boot.meta /\ to \in Late => boot.handler
    PROVE  MainInv'
<1>1. ServerInv' /\ UNCHANGED <<pc, accepting, sessions, owner>>
  BY ServerStutters DEF MainInv
<1>2. BootInv'
  BY <1>1 DEF MainInv, BootInv
<1>3. QED
  BY <1>1, <1>2 DEF MainInv

\* A step that may fail.
LEMMA StepStep ==
    ASSUME MainInv, NEW from, NEW to \in Stages, NEW fault,
           Step(from, to, fault), from # "up", to # "up",
           boot.stage = from /\ boot.meta /\ to \in Late => boot.handler
    PROVE  MainInv'
<1>1. boot.stage # "up"
  BY DEF Step, At
<1>2. CASE boot' = [boot EXCEPT !.stage = to] /\ UNCHANGED vars
  BY <1>1, <1>2, StageStep DEF Step, At
<1>3. CASE Exit
  BY <1>1, <1>3, ExitStep
<1>4. QED
  BY <1>2, <1>3 DEF Step

\* The server is up.
LEMMA UpStep ==
    ASSUME MainInv, boot' = Up, UNCHANGED vars
    PROVE  MainInv'
<1>1. ServerInv'
  BY ServerStutters DEF MainInv
<1>2. BootInv'
  BY DEF BootInv, Up, Stages, Formats
<1>3. QED
  BY <1>1, <1>2 DEF MainInv

\* The steps of the start: the handler is registered before the stages after it.
LEMMA BootSteps ==
    ASSUME MainInv, BootStep
    PROVE  MainInv'
<1>1. CASE DetectFormat
  <2>1. boot.stage # "up"
    BY <1>1 DEF DetectFormat, At
  <2>2. PICK s \in Suffixes :
          \/ /\ detect_format(s) # None
             /\ boot' = [boot EXCEPT !.stage = "log", !.format = detect_format(s)]
             /\ UNCHANGED vars
          \/ detect_format(s) = None /\ Exit
    BY <1>1 DEF DetectFormat
  <2>3. CASE /\ boot' = [boot EXCEPT !.stage = "log", !.format = detect_format(s)]
             /\ UNCHANGED vars
    <3>1. ServerInv' /\ UNCHANGED <<pc, accepting, sessions, owner>>
      BY <2>3, ServerStutters DEF MainInv
    <3>2. detect_format(s) \in Formats
      BY DEF detect_format, Formats
    <3>3. BootInv'
      BY <2>1, <2>3, <3>1, <3>2 DEF MainInv, BootInv, Late, Stages
    <3>4. QED
      BY <3>1, <3>3 DEF MainInv
  <2>4. QED
    BY <2>1, <2>2, <2>3, ExitStep
<1>2. CASE OpenIoLog
  <2>1. boot.meta \in BOOLEAN /\ boot.unix \in BOOLEAN
    BY DEF MainInv, BootInv
  <2>2. CASE boot.meta
    BY <1>2, <2>2, StepStep DEF OpenIoLog, Late, Stages
  <2>3. CASE ~boot.meta
    BY <1>2, <2>3, StepStep DEF OpenIoLog, Serve, Late, Stages
  <2>4. QED
    BY <2>2, <2>3
<1>3. CASE MakeCachePhase
  <2>1. boot.stage # "up"
    BY <1>3 DEF MakeCachePhase, At
  <2>2. CASE boot' = [boot EXCEPT !.stage = Serve, !.handler = TRUE] /\ UNCHANGED vars
    <3>1. ServerInv' /\ UNCHANGED <<pc, accepting, sessions, owner>>
      BY <2>2, ServerStutters DEF MainInv
    <3>2. BootInv'
      BY <2>1, <2>2, <3>1 DEF MainInv, BootInv, Serve, Late, Stages
    <3>3. QED
      BY <3>1, <3>2 DEF MainInv
  <2>3. QED
    BY <1>3, <2>1, <2>2, ExitStep DEF MakeCachePhase
<1>4. CASE BindUnix
  <2>1. boot.stage = "bind"
    BY <1>4 DEF BindUnix, At
  <2>2. CASE boot' = [boot EXCEPT !.stage = "trace"] /\ UNCHANGED vars
    BY <2>1, <2>2, StageStep DEF MainInv, BootInv, Late, Stages
  <2>3. QED
    BY <1>4, <2>1, <2>2, ExitStep DEF BindUnix
<1>5. CASE OpenTrace
  BY <1>5, StepStep DEF OpenTrace, MainInv, BootInv, Late, Stages
<1>6. CASE open_e01 \/ open_vmdk \/ open_raw
  BY <1>6, StepStep DEF open_e01, open_vmdk, open_raw, MainInv, BootInv, Late, Stages
<1>7. CASE BeginTrace
  <2>1. boot.stage = "begin"
    BY <1>7 DEF BeginTrace, At
  <2>2. CASE boot' = [boot EXCEPT !.stage = "listen"] /\ UNCHANGED vars
    BY <2>1, <2>2, StageStep DEF MainInv, BootInv, Late, Stages
  <2>3. QED
    BY <1>7, <2>1, <2>2, UpStep, ExitStep DEF BeginTrace
<1>8. CASE BindTcp
  <2>1. boot.stage = "listen"
    BY <1>8 DEF BindTcp, At
  <2>2. QED
    BY <1>8, <2>1, UpStep, ExitStep DEF BindTcp
<1>9. QED
  BY <1>1, <1>2, <1>3, <1>4, <1>5, <1>6, <1>7, <1>8 DEF BootStep

\* Every step of the process preserves the invariant.
LEMMA MainNextInv == MainInv /\ [MainNext]_mainVars => MainInv'
<1> SUFFICES ASSUME MainInv, [MainNext]_mainVars PROVE MainInv'
  OBVIOUS
<1>1. CASE BootStep
  BY <1>1, BootSteps
<1>2. CASE Sigusr1
  <2>1. boot.stage # "up"
    BY <1>2 DEF Sigusr1, At
  <2>2. CASE boot' = [boot EXCEPT !.regular = TRUE] /\ UNCHANGED vars
    <3>1. ServerInv' /\ UNCHANGED <<pc, accepting, sessions, owner>>
      BY <2>2, ServerStutters DEF MainInv
    <3>2. BootInv'
      BY <2>1, <2>2, <3>1 DEF MainInv, BootInv
    <3>3. QED
      BY <3>1, <3>2 DEF MainInv
  <2>3. CASE /\ boot' = [boot EXCEPT !.stage = "killed"]
             /\ pc' = [c \in Conns |-> "closed"]
             /\ UNCHANGED <<gone, accept, owner, poisoned, wire>>
    <3>1. ServerInv' /\ accepting' = None /\ sessions' = 0 /\ owner' = None
      BY <2>1, <2>3, AllClosed DEF MainInv
    <3>2. BootInv'
      BY <2>3, <3>1 DEF MainInv, BootInv, Late, Stages
    <3>3. QED
      BY <3>1, <3>2 DEF MainInv
  <2>4. QED
    BY <1>2, <2>2, <2>3 DEF Sigusr1
<1>3. CASE Listening /\ ~At("up") /\ \E c \in Conns : EarlyClient(c)
  <2>1. PICK c \in Conns : (Connect(c) \/ HangUp(c)) /\ UNCHANGED boot
    BY <1>3 DEF EarlyClient
  <2>2. ServerInv'
    BY <2>1, ConnectStep, HangUpStep DEF MainInv
  <2>3. UNCHANGED <<accepting, sessions, owner>>
    BY <2>1 DEF Connect, HangUp, accept
  <2>4. \A d \in Conns : pc'[d] \in {"away", "backlog", "closed"}
    BY <1>3, <2>1 DEF Connect, HangUp, Goto, At, MainInv, BootInv, ServerInv, TypeInv, TypeOK
  <2>5. QED
    BY <2>1, <2>2, <2>3, <2>4 DEF MainInv, BootInv
<1>4. CASE At("up") /\ Next /\ UNCHANGED boot
  <2>1. ServerInv'
    BY <1>4, ServerNext DEF MainInv
  <2>2. BootInv'
    BY <1>4 DEF MainInv, BootInv, At
  <2>3. QED
    BY <2>1, <2>2 DEF MainInv
<1>5. CASE UNCHANGED mainVars
  <2>1. ServerInv' /\ UNCHANGED <<pc, accepting, sessions, owner, boot>>
    BY <1>5, ServerStutters DEF MainInv, mainVars
  <2>2. QED
    BY <2>1 DEF MainInv, BootInv
<1>6. QED
  BY <1>1, <1>2, <1>3, <1>4, <1>5 DEF MainNext

\* The process and its server keep their invariant from the start to the end.
THEOREM MainInvariance == MainSpec => []MainInv
<1>1. MainInit => MainInv
  <2> SUFFICES ASSUME MainInit PROVE MainInv
    OBVIOUS
  <2>1. ServerInv
    BY ServerInit DEF MainInit
  <2>2. BootInv
    BY DEF MainInit, Init, BootInv, Late, Stages, Formats
  <2>3. QED
    BY <2>1, <2>2 DEF MainInv
<1>2. QED
  BY <1>1, MainNextInv, PTL DEF MainSpec

\* The server's state stays well typed.
THEOREM NbdTypeCorrect == MainSpec => []TypeOK
<1>1. MainInv => TypeOK
  BY DEF MainInv, ServerInv, TypeInv
<1>2. QED
  BY <1>1, MainInvariance, PTL

\* The slot counter is the number of live session threads and never exceeds its
\* limit, whichever way sessions end and however the accept loop races with them
\* (SessionSlot::try_acquire, SessionSlot::drop).
THEOREM SlotsStayExact == MainSpec => []SlotsMatchSessions
<1>1. MainInv => SlotsMatchSessions
  BY DEF MainInv, ServerInv, AcceptInv
<1>2. QED
  BY <1>1, MainInvariance, PTL

\* Two sessions never talk at the same time: a session talks from its lock on the
\* reader to its unlock, panics included (serve_connection).
THEOREM OneSessionTalks ==
    MainSpec => [](\A c, d \in Conns : pc[c] \in Talking /\ pc[d] \in Talking => c = d)
<1>1. MainInv => \A c, d \in Conns : pc[c] \in Talking /\ pc[d] \in Talking => c = d
  BY DEF MainInv, ServerInv, LockInv, Holding
<1>2. QED
  BY <1>1, MainInvariance, PTL

\* For every image size, buffer size, limit and sequence of requests, a client can
\* tell what the bytes it gets belong to (serve_read, drain, transmission).
THEOREM StreamStaysInSync == MainSpec => []StreamInSync
<1>1. MainInv => StreamInSync
  BY DEF MainInv, ServerInv, SessionInv, RepliesInv, HeaderInv, StreamInSync
<1>2. QED
  BY <1>1, MainInvariance, PTL

\* The log counts each read of the session being served once, or, when it could not be
\* opened again and ignores the session, none of them (begin_serving, log_nbd_read).
THEOREM LogStaysExact == MainSpec => []LogCountsSession
<1>1. MainInv => LogCountsSession
  BY DEF MainInv, ServerInv, SessionInv, HeaderInv, Counted, LogCountsSession
<1>2. QED
  BY <1>1, MainInvariance, PTL

\* SIGUSR1 ends no process with --metadata-cache whose socket exists
\* (make_cache_phase before run_serve).
THEOREM SignalIsSurvived == MainSpec => SignalSurvived
<1>1. MainInv /\ [MainNext]_mainVars =>
        [Listening /\ boot.meta => boot'.stage # "killed"]_mainVars
  <2> SUFFICES ASSUME MainInv, MainNext, Listening, boot.meta
               PROVE  boot'.stage # "killed"
    BY DEF MainInv
  <2>1. boot.handler /\ boot.stage # "up" /\ boot.stage # "killed"
    BY DEF MainInv, BootInv, Listening, Late, Stages
  <2>2. CASE BootStep
    <3>1. \A x : boot' = [boot EXCEPT !.stage = x] => boot'.stage = x
      BY DEF MainInv, BootInv
    <3>2. CASE Exit
      BY <3>1, <3>2 DEF Exit
    <3>3. CASE DetectFormat
      <4>1. \A x : boot' = [boot EXCEPT !.stage = "log", !.format = x] => boot'.stage = "log"
        BY DEF MainInv, BootInv
      <4>2. QED
        BY <3>2, <3>3, <4>1 DEF DetectFormat
    <3>4. CASE OpenIoLog \/ OpenTrace \/ open_e01 \/ open_vmdk \/ open_raw
      BY <3>1, <3>2, <3>4
      DEF OpenIoLog, OpenTrace, open_e01, open_vmdk, open_raw, Step, Serve
    <3>5. CASE MakeCachePhase
      <4>1. \A x : boot' = [boot EXCEPT !.stage = x, !.handler = TRUE] => boot'.stage = x
        BY DEF MainInv, BootInv
      <4>2. QED
        BY <3>2, <3>5, <4>1 DEF MakeCachePhase, Serve
    <3>6. CASE BindUnix
      BY <3>1, <3>2, <3>6 DEF BindUnix
    <3>7. CASE BeginTrace \/ BindTcp
      BY <3>1, <3>2, <3>7 DEF BeginTrace, BindTcp, Up
    <3>8. QED
      BY <2>2, <3>3, <3>4, <3>5, <3>6, <3>7 DEF BootStep
  <2>3. CASE Sigusr1
    BY <2>1, <2>3 DEF Sigusr1, MainInv, BootInv
  <2>4. CASE UNCHANGED boot
    BY <2>1, <2>4
  <2>5. QED
    BY <2>1, <2>2, <2>3, <2>4 DEF MainNext, EarlyClient
<1>2. QED
  BY <1>1, MainInvariance, PTL DEF MainSpec, SignalSurvived
=============================================================================
