----------------------------- MODULE CApiProofs -----------------------------
(***************************************************************************)
(* Proofs about CApi, for any number of threads, handles, errors and       *)
(* segments.  NothingLeaks is an equation between two sets of memory; what *)
(* is inductive is the same said address by address, with the fact that no *)
(* two owners share an error: else freeing one would take the other's.     *)
(***************************************************************************)
EXTENDS CApi, TLAPS

(* The errors that somebody holds, or dropped.                             *)
Held == (dropped \cup {slot[t] : t \in Threads}) \ {Null}

(* The memory that belongs to an address.                                  *)
Owns(a) ==
  IF a \in Handles THEN HandleParts(a)
  ELSE IF a \in Held THEN ErrorParts(a) ELSE {}

(* Everything allocated belongs to its address, and is there.              *)
MemoryInv ==
  /\ \A m \in heap : m[1] \in Handles \cup Errors /\ m \in Owns(m[1])
  /\ \A a \in Handles \cup Errors : Owns(a) \subseteq heap

(* An error has one owner.                                                 *)
SoleOwner ==
  /\ \A t, u \in Threads : slot[t] = slot[u] /\ slot[t] # Null => t = u
  /\ \A t \in Threads : slot[t] \notin dropped

(* The types that the proofs need.                                         *)
TypeInv ==
  /\ handle \in [Handles -> HandleFields \cup {Null}]
  /\ slot \in [Threads -> Errors \cup {Null}]
  /\ dropped \subseteq Errors
  /\ call \in [Threads -> [h : Handles, given : BOOLEAN] \cup {Null}]

Inv == TypeInv /\ SoleOwner /\ MemoryInv /\ bad = FALSE

-----------------------------------------------------------------------------
(* Every piece of memory names its address, and a box is always there.     *)
LEMMA PartsNameOwner ==
  ASSUME TypeInv
  PROVE  /\ \A h \in Handles : \A m \in HandleParts(h) : m[1] = h
         /\ \A h \in Handles : handle[h] # Null => Mem(h, "box", 0) \in HandleParts(h)
         /\ \A h \in Handles : handle[h] = Null => HandleParts(h) = {}
         /\ \A e : \A m \in ErrorParts(e) : m[1] = e
         /\ \A e : Mem(e, "box", 0) \in ErrorParts(e)
<1>1. ASSUME NEW h \in Handles
      PROVE  /\ \A m \in HandleParts(h) : m[1] = h
             /\ handle[h] # Null => Mem(h, "box", 0) \in HandleParts(h)
             /\ handle[h] = Null => HandleParts(h) = {}
  <2>1. \A f : \A m \in E01HandleParts(h, f) : m[1] = h
    BY DEF E01HandleParts, Mem
  <2>2. \A f : Mem(h, "box", 0) \in E01HandleParts(h, f)
    BY DEF E01HandleParts
  <2>3. /\ \A m \in RawdiskHandleParts(h) \cup VmdkHandleParts(h) : m[1] = h
        /\ Mem(h, "box", 0) \in RawdiskHandleParts(h)
        /\ Mem(h, "box", 0) \in VmdkHandleParts(h)
    BY DEF RawdiskHandleParts, VmdkHandleParts, Mem
  <2>4. \/ HandleParts(h) = {} /\ handle[h] = Null
        \/ HandleParts(h) = E01HandleParts(h, handle[h]) /\ handle[h] # Null
        \/ HandleParts(h) \in {RawdiskHandleParts(h), VmdkHandleParts(h)} /\ handle[h] # Null
    BY DEF HandleParts
  <2>5. QED
    BY <2>1, <2>2, <2>3, <2>4
<1>2. /\ \A e : \A m \in ErrorParts(e) : m[1] = e
      /\ \A e : Mem(e, "box", 0) \in ErrorParts(e)
  BY DEF ErrorParts, Mem
<1>3. QED
  BY <1>1, <1>2

(* What an address owns names it.                                          *)
OwnsNamed == \A a \in Handles \cup Errors : \A m \in Owns(a) : m[1] = a

\* The name of a piece of memory tells who owns it.
LEMMA OwnsNameOwner == TypeInv => OwnsNamed
BY PartsNameOwner DEF Owns, OwnsNamed

(* Nothing is allocated at a free address: the handle is not held, and     *)
(* nobody has the error.                                                   *)
LEMMA FreeIsUnowned ==
  ASSUME Inv
  PROVE  /\ \A h \in Free(Handles) : h \in Handles /\ handle[h] = Null
         /\ \A e \in Free(Errors) : e \in Errors /\ e \notin Held /\ e \notin Handles
<1>1. ASSUME NEW h \in Free(Handles) PROVE h \in Handles /\ handle[h] = Null
  <2>1. h \in Handles /\ \A m \in heap : m[1] # h
    BY DEF Free
  <2>2. Mem(h, "box", 0)[1] = h
    BY DEF Mem
  <2>3. handle[h] # Null => Mem(h, "box", 0) \in heap
    BY <2>1, PartsNameOwner DEF Inv, MemoryInv, Owns
  <2>4. QED
    BY <2>1, <2>2, <2>3
<1>2. ASSUME NEW e \in Free(Errors) PROVE e \in Errors /\ e \notin Held /\ e \notin Handles
  <2>1. e \in Errors /\ e \notin Handles /\ \A m \in heap : m[1] # e
    BY CApiAssumption DEF Free
  <2>2. Mem(e, "box", 0)[1] = e
    BY DEF Mem
  <2>3. e \in Held => Mem(e, "box", 0) \in heap
    BY <2>1, PartsNameOwner DEF Inv, MemoryInv, Owns
  <2>4. QED
    BY <2>1, <2>2, <2>3
<1>3. QED
  BY <1>1, <1>2

(* One address comes to own what is allocated for it.                      *)
LEMMA MemoryGrows ==
  ASSUME Inv, TypeInv', NEW a \in Handles \cup Errors,
         heap' = heap \cup Owns(a)', Owns(a) = {},
         \A b \in Handles \cup Errors : b # a => Owns(b)' = Owns(b)
  PROVE  MemoryInv'
<1>1. \A m \in Owns(a)' : m[1] = a
  <2>1. (TypeInv => OwnsNamed)'
    BY OwnsNameOwner, PTL
  <2>2. QED
    BY <2>1 DEF OwnsNamed
<1>2. \A m \in heap : m[1] # a
  BY DEF Inv, MemoryInv
<1>3. QED
  BY <1>1, <1>2 DEF Inv, MemoryInv

(* One address gives up all it owns, which was allocated.                  *)
LEMMA MemoryShrinks ==
  ASSUME Inv, NEW a \in Handles \cup Errors,
         Release(Owns(a)), Owns(a)' = {},
         \A b \in Handles \cup Errors : b # a => Owns(b)' = Owns(b)
  PROVE  MemoryInv' /\ bad' = FALSE
<1>1. OwnsNamed
  BY OwnsNameOwner DEF Inv
<1>2. Owns(a) \subseteq heap /\ bad = FALSE
  BY DEF Inv, MemoryInv
<1>3. heap' = heap \ Owns(a) /\ bad' = FALSE
  BY <1>2 DEF Release
<1>4. QED
  BY <1>1, <1>2, <1>3 DEF Inv, MemoryInv, OwnsNamed

(* Nothing moves.                                                          *)
LEMMA MemoryStays ==
  ASSUME Inv, UNCHANGED <<heap, handle, slot, dropped, bad>>
  PROVE  /\ SoleOwner' /\ MemoryInv' /\ bad' = FALSE
<1>1. \A a : Owns(a)' = Owns(a)
  BY DEF Owns, Held, HandleParts
<1>2. QED
  BY <1>1 DEF Inv, SoleOwner, MemoryInv

-----------------------------------------------------------------------------
(* The handlers.                                                           *)

(* A call that fails: with a slot, one error is allocated, and what the    *)
(* slot held is still owned, as dropped.                                   *)
LEMMA FillErrorStep ==
  ASSUME Inv, NEW t \in Threads, NEW given \in BOOLEAN, FillError(t, given)
  PROVE  Inv'
<1>1. UNCHANGED handle /\ call' = [call EXCEPT ![t] = Null]
  BY DEF FillError, Return
<1>2. CASE given = FALSE
  <2>1. UNCHANGED <<heap, bad, slot, dropped>>
    BY <1>2 DEF FillError
  <2>2. TypeInv'
    BY <1>1, <2>1 DEF Inv, TypeInv
  <2>3. QED
    BY <1>1, <2>1, <2>2, MemoryStays DEF Inv
<1>3. CASE given = TRUE
  <2>1. PICK e \in Free(Errors) :
          /\ Alloc(ErrorParts(e))
          /\ slot' = [slot EXCEPT ![t] = e]
          /\ dropped' = dropped \cup ({slot[t]} \ {Null})
    BY <1>3 DEF FillError
  <2>2. e \in Errors /\ e \notin Held /\ e \notin Handles /\ e # Null
    BY FreeIsUnowned, CApiAssumption
  <2>3. TypeInv'
    BY <1>1, <2>1, <2>2 DEF Inv, TypeInv
  <2>4. /\ slot'[t] = e /\ \A u \in Threads : u # t => slot'[u] = slot[u]
        /\ \A u \in Threads : slot[u] # e
        /\ e \notin dropped
    BY <2>1, <2>2 DEF Inv, TypeInv, Held
  <2>5. SoleOwner'
    BY <2>1, <2>2, <2>4 DEF Inv, SoleOwner
  <2>6. Held' = Held \cup {e}
    BY <2>1, <2>2, <2>4 DEF Held
  <2>7. /\ Owns(e)' = ErrorParts(e) /\ Owns(e) = {}
        /\ \A b \in Handles \cup Errors : b # e => Owns(b)' = Owns(b)
    BY <1>1, <2>2, <2>6 DEF Owns, HandleParts
  <2>8. heap' = heap \cup Owns(e)' /\ bad' = FALSE
    BY <2>1, <2>7 DEF Alloc, Inv
  <2>9. MemoryInv'
    BY <2>2, <2>3, <2>7, <2>8, MemoryGrows
  <2>10. QED
    BY <2>3, <2>5, <2>8, <2>9 DEF Inv
<1>4. QED
  BY <1>2, <1>3

(* A call that succeeds and allocates nothing.                             *)
LEMMA SucceedStep ==
  ASSUME Inv, NEW t \in Threads, NEW given, Succeed(t, given), UNCHANGED <<heap, handle, bad>>
  PROVE  Inv'
<1>1. UNCHANGED <<slot, dropped>> /\ call' = [call EXCEPT ![t] = Null]
  BY DEF Succeed, Return
<1>2. TypeInv'
  BY <1>1 DEF Inv, TypeInv
<1>3. QED
  BY <1>1, <1>2, MemoryStays DEF Inv

(* An open that succeeds: the handle is new and owns what was allocated.   *)
LEMMA NewHandleStep ==
  ASSUME Inv, NEW t \in Threads, NEW given, NEW h \in Free(Handles),
         NEW f \in HandleFields, NEW parts, NewHandle(t, given, h, f, parts),
         parts = (IF f.fmt = "e01" THEN E01HandleParts(h, f)
                  ELSE IF f.fmt = "rawdisk" THEN RawdiskHandleParts(h)
                  ELSE VmdkHandleParts(h))
  PROVE  Inv'
<1>1. /\ handle' = [handle EXCEPT ![h] = f] /\ heap' = heap \cup parts /\ bad' = bad
      /\ UNCHANGED <<slot, dropped>> /\ call' = [call EXCEPT ![t] = Null]
  BY DEF NewHandle, Alloc, Succeed, Return
<1>2. h \in Handles /\ handle[h] = Null /\ f # Null
  BY FreeIsUnowned, CApiAssumption
<1>3. TypeInv'
  BY <1>1, <1>2 DEF Inv, TypeInv
<1>4. SoleOwner'
  BY <1>1 DEF Inv, SoleOwner
<1>5. handle'[h] = f /\ \A g \in Handles : g # h => handle'[g] = handle[g]
  BY <1>1, <1>2 DEF Inv, TypeInv
<1>6. Owns(h)' = parts
  BY <1>2, <1>5 DEF Owns, HandleParts
<1>7. Owns(h) = {}
  BY <1>2 DEF Owns, HandleParts
<1>8. \A b \in Handles \cup Errors : b # h => Owns(b)' = Owns(b)
  BY <1>1, <1>5 DEF Owns, HandleParts, Held
<1>9. MemoryInv'
  BY <1>1, <1>2, <1>3, <1>6, <1>7, <1>8, MemoryGrows
<1>10. QED
  BY <1>1, <1>3, <1>4, <1>9 DEF Inv

(* A close frees all of the handle.                                        *)
LEMMA CloseStep ==
  ASSUME Inv, NEW t \in Threads, NEW h \in Handles, NEW parts, handle[h] # Null,
         Close(t, h, parts), parts \cup {Mem(h, "box", 0)} = HandleParts(h)
  PROVE  Inv'
<1>1. /\ Release(HandleParts(h)) /\ handle' = [handle EXCEPT ![h] = Null]
      /\ UNCHANGED <<slot, dropped, call>>
  BY DEF Close
<1>2. TypeInv'
  BY <1>1 DEF Inv, TypeInv
<1>3. SoleOwner'
  BY <1>1 DEF Inv, SoleOwner
<1>4. handle'[h] = Null /\ \A g \in Handles : g # h => handle'[g] = handle[g]
  BY <1>1 DEF Inv, TypeInv
<1>5. Owns(h) = HandleParts(h) /\ Owns(h)' = {}
  BY <1>4 DEF Owns, HandleParts
<1>6. \A b \in Handles \cup Errors : b # h => Owns(b)' = Owns(b)
  BY <1>1, <1>4 DEF Owns, HandleParts, Held
<1>7. MemoryInv' /\ bad' = FALSE
  BY <1>1, <1>5, <1>6, MemoryShrinks
<1>8. QED
  BY <1>2, <1>3, <1>7 DEF Inv

(* What a close frees is what the open allocated, format by format.        *)
LEMMA DropIsWhole ==
  ASSUME TypeInv, NEW h \in Handles, handle[h] # Null
  PROVE  /\ handle[h].fmt = "e01" =>
              E01HandleDrop(h, handle[h]) \cup {Mem(h, "box", 0)} = HandleParts(h)
         /\ handle[h].fmt = "rawdisk" =>
              RawdiskHandleDrop(h) \cup {Mem(h, "box", 0)} = HandleParts(h)
         /\ handle[h].fmt = "vmdk" =>
              VmdkHandleDrop(h) \cup {Mem(h, "box", 0)} = HandleParts(h)
<1>1. CASE handle[h].fmt = "e01"
  <2>1. HandleParts(h) = E01HandleParts(h, handle[h])
    BY <1>1 DEF HandleParts
  <2>2. E01HandleDrop(h, handle[h]) \cup {Mem(h, "box", 0)} = E01HandleParts(h, handle[h])
    BY DEF E01HandleDrop, E01HandleParts, free_c_str_array
  <2>3. QED
    BY <1>1, <2>1, <2>2
<1>2. CASE handle[h].fmt = "rawdisk"
  BY <1>2 DEF HandleParts, RawdiskHandleParts, RawdiskHandleDrop
<1>3. CASE handle[h].fmt = "vmdk"
  BY <1>3 DEF HandleParts, VmdkHandleParts, VmdkHandleDrop
<1>4. QED
  BY <1>1, <1>2, <1>3

(* An error is freed by the thread that has it in its slot.                *)
LEMMA FreeErrorStep ==
  ASSUME Inv, NEW t \in Threads, FreeError(t)
  PROVE  Inv'
<1>0. PICK e : e = slot[t]
  OBVIOUS
<1>1. /\ e # Null /\ Release(ErrorParts(e)) /\ slot' = [slot EXCEPT ![t] = Null]
      /\ UNCHANGED <<handle, dropped, call>>
  BY <1>0 DEF FreeError
<1>2. e \in Errors /\ e \in Held /\ e \notin Handles
  BY <1>0, <1>1, CApiAssumption DEF Inv, TypeInv, Held
<1>3. TypeInv'
  BY <1>1 DEF Inv, TypeInv
<1>4. slot'[t] = Null /\ \A u \in Threads : u # t => slot'[u] = slot[u] /\ slot[u] # e
  BY <1>0, <1>1 DEF Inv, TypeInv, SoleOwner
<1>5. Null \notin dropped
  BY CApiAssumption DEF Inv, TypeInv
<1>6. SoleOwner'
  BY <1>1, <1>4, <1>5 DEF Inv, SoleOwner
<1>7. Held' = Held \ {e}
  <2>1. e \notin dropped
    BY <1>0 DEF Inv, SoleOwner
  <2>2. \A x : x \in Held' <=> x \in Held /\ x # e
    BY <1>0, <1>1, <1>4, <2>1 DEF Held
  <2>3. QED
    BY <2>2
<1>8. Owns(e) = ErrorParts(e) /\ Owns(e)' = {}
  BY <1>2, <1>7 DEF Owns
<1>9. \A b \in Handles \cup Errors : b # e => Owns(b)' = Owns(b)
  BY <1>1, <1>7 DEF Owns, HandleParts
<1>10. MemoryInv' /\ bad' = FALSE
  BY <1>1, <1>2, <1>8, <1>9, MemoryShrinks
<1>11. QED
  BY <1>3, <1>6, <1>10 DEF Inv

-----------------------------------------------------------------------------
(* A read waits for its reader, and nothing crosses the boundary.          *)
LEMMA BeginReadStep ==
  ASSUME Inv, NEW t \in Threads, NEW h \in Handles \cup {Null}, NEW buf,
         NEW given \in BOOLEAN, BeginRead(t, h, buf, given)
  PROVE  Inv'
<1>1. CASE h = Null \/ buf = Null
  BY <1>1, FillErrorStep DEF BeginRead
<1>2. CASE ~(h = Null \/ buf = Null)
  <2>1. /\ call' = [call EXCEPT ![t] = [h |-> h, given |-> given]]
        /\ UNCHANGED <<heap, handle, slot, dropped, bad>> /\ h \in Handles
    BY <1>2 DEF BeginRead
  <2>2. TypeInv'
    BY <2>1 DEF Inv, TypeInv
  <2>3. QED
    BY <2>1, <2>2, MemoryStays DEF Inv
<1>3. QED
  BY <1>1, <1>2

(* A read returns, fails or panics.                                        *)
LEMMA EndReadStep ==
  ASSUME Inv, NEW t \in Threads, NEW fmt, EndRead(t, fmt)
  PROVE  Inv'
<1>1. call[t].given \in BOOLEAN
  BY DEF EndRead, Inv, TypeInv
<1>2. QED
  BY <1>1, SucceedStep, FillErrorStep DEF EndRead, Guard

(* Each entry point keeps the invariant.                                   *)
LEMMA OpenSteps ==
  ASSUME Inv, NEW t \in Threads,
         e01_open(t) \/ e01_open_glob(t) \/ rawdisk_open(t) \/ vmdk_open(t)
  PROVE  Inv'
<1>1. ASSUME NEW given \in BOOLEAN, FillError(t, given) \/ Guard(t, given)
      PROVE  Inv'
  BY <1>1, FillErrorStep DEF Guard
<1>2. ASSUME NEW given \in BOOLEAN, NEW h \in Free(Handles), NEW f \in E01Fields,
             NewHandle(t, given, h, f, E01HandleParts(h, f))
      PROVE  Inv'
  BY <1>2, NewHandleStep DEF HandleFields, E01Fields
<1>3. ASSUME NEW given \in BOOLEAN, NEW h \in Free(Handles),
             NewHandle(t, given, h, [fmt |-> "rawdisk"], RawdiskHandleParts(h))
      PROVE  Inv'
  BY <1>3, NewHandleStep DEF HandleFields
<1>4. ASSUME NEW given \in BOOLEAN, NEW h \in Free(Handles),
             NewHandle(t, given, h, [fmt |-> "vmdk"], VmdkHandleParts(h))
      PROVE  Inv'
  BY <1>4, NewHandleStep DEF HandleFields
<1>5. CASE e01_open(t)
  BY <1>1, <1>2, <1>5 DEF e01_open
<1>6. CASE e01_open_glob(t)
  BY <1>1, <1>2, <1>6 DEF e01_open_glob
<1>7. CASE rawdisk_open(t)
  BY <1>1, <1>3, <1>7 DEF rawdisk_open, rawdisk_fill_error, rawdisk_guard
<1>8. CASE vmdk_open(t)
  BY <1>1, <1>4, <1>8 DEF vmdk_open, vmdk_fill_error, vmdk_guard
<1>9. QED
  BY <1>5, <1>6, <1>7, <1>8

\* The three close functions keep the invariant.
LEMMA CloseSteps ==
  ASSUME Inv, NEW t \in Threads, e01_close(t) \/ rawdisk_close(t) \/ vmdk_close(t)
  PROVE  Inv'
<1>1. CASE e01_close(t)
  BY <1>1, CloseStep, DropIsWhole DEF e01_close, Open, Inv
<1>2. CASE rawdisk_close(t)
  BY <1>2, CloseStep, DropIsWhole DEF rawdisk_close, Open, Inv
<1>3. CASE vmdk_close(t)
  BY <1>3, CloseStep, DropIsWhole DEF vmdk_close, Open, Inv
<1>4. QED
  BY <1>1, <1>2, <1>3

\* Every step keeps the invariant.
LEMMA InvNext == Inv /\ [Next]_vars => Inv'
<1> SUFFICES ASSUME Inv, [Next]_vars PROVE Inv'
  OBVIOUS
<1>1. ASSUME NEW t \in Threads, e01_read(t) \/ rawdisk_read(t) \/ vmdk_read(t) PROVE Inv'
  <2>1. \/ \E h \in Handles \cup {Null}, buf \in {Null, "buf"}, given \in BOOLEAN :
             BeginRead(t, h, buf, given)
        \/ \E fmt \in Formats : EndRead(t, fmt)
    BY <1>1 DEF e01_read, rawdisk_read, vmdk_read, Open, Formats
  <2>2. QED
    BY <2>1, BeginReadStep, EndReadStep
<1>2. ASSUME NEW t \in Threads, e01_free_error(t) \/ rawdisk_free_error(t) \/ vmdk_free_error(t)
      PROVE  Inv'
  BY <1>2, FreeErrorStep DEF e01_free_error, rawdisk_free_error, vmdk_free_error
<1>3. CASE UNCHANGED vars
  <2>1. UNCHANGED <<heap, handle, slot, dropped, call, bad>>
    BY <1>3 DEF vars
  <2>2. TypeInv'
    BY <2>1 DEF Inv, TypeInv
  <2>3. QED
    BY <2>1, <2>2, MemoryStays DEF Inv
<1>4. QED
  BY <1>1, <1>2, <1>3, OpenSteps, CloseSteps DEF Next

(* The memory of the three interfaces is accounted for part by part in     *)
(* every state: each piece of it belongs to an open handle or to an error  *)
(* somebody holds or dropped, each of these has all of its pieces, and an  *)
(* error has one owner (the drop of the handles, free_error).  A call under *)
(* way has no part of it: an open allocates and returns in one step.       *)
THEOREM MemoryInvariance == Spec => []Inv
<1>1. Init => Inv
  <2> SUFFICES ASSUME Init PROVE Inv
    OBVIOUS
  <2>1. TypeInv /\ SoleOwner /\ bad = FALSE
    BY DEF Init, TypeInv, SoleOwner
  <2>2. Held = {}
    BY DEF Init, Held
  <2>3. \A a \in Handles \cup Errors : Owns(a) = {}
    BY <2>1, <2>2, PartsNameOwner DEF Init, Owns
  <2>4. MemoryInv
    BY <2>3 DEF Init, MemoryInv
  <2>5. QED
    BY <2>1, <2>4 DEF Inv
<1>2. QED
  BY <1>1, InvNext, PTL DEF Spec

(* For every number of threads, handles, errors and segments: what is      *)
(* allocated is what the caller can give back and what it overwrote, and   *)
(* nothing is freed that is not allocated (E01Handle::new and drop, the    *)
(* handles of the other two, fill_error, free_error, guard).               *)
THEOREM NothingEverLeaks == Spec => []NothingLeaks
<1>1. Inv => NothingLeaks
  <2> SUFFICES ASSUME Inv PROVE NothingLeaks
    OBVIOUS
  <2> DEFINE owned == UNION ({HandleParts(h) : h \in Handles} \cup {ErrorParts(e) : e \in Held})
  <2>1. Held \subseteq Errors /\ Held \cap Handles = {}
    BY CApiAssumption DEF Inv, TypeInv, Held
  <2>2. \A m \in heap : m \in owned
    BY <2>1 DEF Inv, MemoryInv, Owns
  <2>3. \A h \in Handles : HandleParts(h) \subseteq heap
    BY DEF Inv, MemoryInv, Owns
  <2>4. \A e \in Held : ErrorParts(e) \subseteq heap
    BY <2>1 DEF Inv, MemoryInv, Owns
  <2>5. owned \subseteq heap
    BY <2>3, <2>4
  <2>6. heap = owned
    BY <2>2, <2>5
  <2>7. QED
    BY <2>6 DEF NothingLeaks, Held, Inv
<1>2. QED
  BY <1>1, MemoryInvariance, PTL

-----------------------------------------------------------------------------
(* What a step may report: nothing, success with the slots as they were,   *)
(* or a failure that left an error in the slot it was given.               *)
Tells ==
  \/ out' = Null
  \/ /\ out' \in [t : Threads, given : BOOLEAN, ok : {TRUE}]
     /\ slot' = slot
  \/ /\ out' \in [t : Threads, given : {FALSE}, ok : {FALSE}]
  \/ /\ out' \in [t : Threads, given : {TRUE}, ok : {FALSE}]
     /\ slot'[out'.t] \in Errors

\* An entry point that fails reports it in the slot it was given.
LEMMA FillErrorTells ==
  ASSUME Inv, NEW t \in Threads, NEW given \in BOOLEAN, FillError(t, given)
  PROVE  Tells
<1>1. out' = [t |-> t, given |-> given, ok |-> FALSE]
  BY DEF FillError, Return
<1>2. CASE given = FALSE
  BY <1>1, <1>2 DEF Tells
<1>3. CASE given = TRUE
  <2>1. PICK e \in Free(Errors) : slot' = [slot EXCEPT ![t] = e]
    BY <1>3 DEF FillError
  <2>2. slot'[t] \in Errors
    BY <2>1 DEF Inv, TypeInv, Free
  <2>3. QED
    BY <1>1, <1>3, <2>2 DEF Tells
<1>4. QED
  BY <1>2, <1>3

\* An entry point that succeeds leaves the slot alone.
LEMMA SucceedTells ==
  ASSUME NEW t \in Threads, NEW given \in BOOLEAN, Succeed(t, given)
  PROVE  Tells
BY DEF Succeed, Return, Tells

(* Every step of every entry point tells.                                  *)
LEMMA NextTells ==
  ASSUME Inv, Next
  PROVE  Tells
<1>0. PICK t \in Threads :
         \/ e01_open(t) \/ e01_open_glob(t) \/ e01_read(t) \/ e01_close(t) \/ e01_free_error(t)
         \/ rawdisk_open(t) \/ rawdisk_read(t) \/ rawdisk_close(t) \/ rawdisk_free_error(t)
         \/ vmdk_open(t) \/ vmdk_read(t) \/ vmdk_close(t) \/ vmdk_free_error(t)
  BY DEF Next
<1>1. CASE e01_open(t) \/ e01_open_glob(t) \/ rawdisk_open(t) \/ vmdk_open(t)
  <2>1. \E given \in BOOLEAN :
           \/ FillError(t, given)
           \/ \E h, f, parts : NewHandle(t, given, h, f, parts)
    <3>1. CASE e01_open(t)
      BY <3>1 DEF e01_open, Guard
    <3>2. CASE e01_open_glob(t)
      BY <3>2 DEF e01_open_glob, Guard
    <3>3. CASE rawdisk_open(t)
      BY <3>3 DEF rawdisk_open, rawdisk_fill_error, rawdisk_guard, Guard
    <3>4. CASE vmdk_open(t)
      BY <3>4 DEF vmdk_open, vmdk_fill_error, vmdk_guard, Guard
    <3>5. QED
      BY <1>1, <3>1, <3>2, <3>3, <3>4
  <2>2. QED
    BY <2>1, FillErrorTells, SucceedTells DEF NewHandle
<1>2. CASE e01_read(t) \/ rawdisk_read(t) \/ vmdk_read(t)
  <2>1. \/ \E h \in Handles \cup {Null}, buf \in {Null, "buf"}, given \in BOOLEAN :
             BeginRead(t, h, buf, given)
        \/ \E fmt \in Formats : EndRead(t, fmt)
    BY <1>2 DEF e01_read, rawdisk_read, vmdk_read, Open, Formats
  <2>2. ASSUME NEW h \in Handles \cup {Null}, NEW buf, NEW given \in BOOLEAN,
               BeginRead(t, h, buf, given)
        PROVE  Tells
    BY <2>2, FillErrorTells DEF BeginRead, Tells
  <2>3. ASSUME NEW fmt, EndRead(t, fmt) PROVE Tells
    <3>1. call[t].given \in BOOLEAN
      BY <2>3 DEF EndRead, Inv, TypeInv
    <3>2. QED
      BY <2>3, <3>1, FillErrorTells, SucceedTells DEF EndRead, Guard
  <2>4. QED
    BY <2>1, <2>2, <2>3
<1>3. CASE e01_close(t) \/ rawdisk_close(t) \/ vmdk_close(t)
  BY <1>3 DEF e01_close, rawdisk_close, vmdk_close, Close, Tells
<1>4. CASE e01_free_error(t) \/ rawdisk_free_error(t) \/ vmdk_free_error(t)
  BY <1>4 DEF e01_free_error, rawdisk_free_error, vmdk_free_error, FreeError, Tells
<1>5. QED
  BY <1>0, <1>1, <1>2, <1>3, <1>4

(* An error in a slot that was null tells a failed call from one that      *)
(* returned zero bytes (fill_error, guard and the reads).                  *)
THEOREM ErrorsAlwaysTell == Spec => ErrorTells
<1>1. Inv /\ [Next]_vars =>
        [out' # out /\ out' # Null /\ out'.given /\ slot[out'.t] = Null
           => (slot'[out'.t] # Null <=> ~out'.ok)]_vars
  <2> SUFFICES ASSUME Inv, Next, out' # Null, out'.given, slot[out'.t] = Null
               PROVE  slot'[out'.t] # Null <=> ~out'.ok
    OBVIOUS
  <2>1. Tells
    BY NextTells
  <2>2. Null \notin Errors
    BY CApiAssumption
  <2>3. CASE out' \in [t : Threads, given : BOOLEAN, ok : {TRUE}] /\ slot' = slot
    BY <2>3
  <2>4. CASE out' \in [t : Threads, given : {FALSE}, ok : {FALSE}]
    BY <2>4
  <2>5. CASE /\ out' \in [t : Threads, given : {TRUE}, ok : {FALSE}]
             /\ slot'[out'.t] \in Errors
    BY <2>2, <2>5
  <2>6. QED
    BY <2>1, <2>3, <2>4, <2>5 DEF Tells
<1>2. QED
  BY <1>1, MemoryInvariance, PTL DEF Spec, ErrorTells
=============================================================================
