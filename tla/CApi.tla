-------------------------------- MODULE CApi --------------------------------
(***************************************************************************)
(* The C interface of the three readers, called by threads of a C program  *)
(* that keeps to the contract in the entry points' "Safety" sections: each *)
(* thread has an error slot of its own, closes a handle once and not under *)
(* a read, and frees an error once.  What is modelled is what crosses the  *)
(* boundary: handles, errors, the memory behind both, and panics.          *)
(*                                                                         *)
(* Sources: e01/src/capi.rs, rawdisk/src/capi.rs, vmdk/src/capi.rs.        *)
(*                                                                         *)
(* A piece of memory is named after the handle or the error it belongs to, *)
(* its role there and an index; the names of freed memory are used again.  *)
(***************************************************************************)
EXTENDS Naturals, FiniteSets, FiniteSetsExt

CONSTANTS
  Threads,    \* the threads of the caller
  Handles,    \* the addresses of handles
  Errors,     \* the addresses of errors
  MaxPaths,   \* the largest number of segments of an image
  Null

(* The fields of a handle, by its format.                                  *)
E01Fields == [fmt : {"e01"}, count : 1..MaxPaths, md5 : BOOLEAN, sha1 : BOOLEAN]
HandleFields == E01Fields \cup [fmt : {"rawdisk", "vmdk"}]

ASSUME CApiAssumption ==
  /\ Handles \cap Errors = {}
  /\ Null \notin Handles \cup Errors \cup HandleFields
  /\ MaxPaths \in Nat

VARIABLES
  heap,    \* the memory that is allocated
  handle,  \* the fields of the handles the caller holds
  slot,    \* the error slot of each thread
  dropped, \* the errors the caller overwrote and can no longer free
  call,    \* the read each thread is in: its handle, and whether it has a slot
  out,     \* what the last step returned: the thread, its slot or none, success
  bad      \* whether memory was freed that was not allocated

vars == <<heap, handle, slot, dropped, call, out, bad>>

-----------------------------------------------------------------------------
Formats == {"e01", "rawdisk", "vmdk"}

Mem(a, role, i) == <<a, role, i>>

ErrorParts(e) == {Mem(e, "box", 0), Mem(e, "message", 0)}

(* The addresses nothing is allocated at.                                  *)
Free(S) == {a \in S : \A m \in heap : m[1] # a}

Alloc(parts) == heap' = heap \cup parts /\ UNCHANGED bad

Release(parts) == heap' = heap \ parts /\ bad' = (bad \/ ~(parts \subseteq heap))

(* A call returns, with the error slot it was given or without one.        *)
Return(t, given, ok) ==
  /\ call' = [call EXCEPT ![t] = Null]
  /\ out' = [t |-> t, given |-> given, ok |-> ok]

Idle(t) == call[t] = Null

-----------------------------------------------------------------------------
(* E01Handle::new: the paths, one by one and their array, the stored       *)
(* hashes there are, the reader; and the box of the handle.                *)
E01HandleParts(h, f) ==
  {Mem(h, "box", 0), Mem(h, "reader", 0), Mem(h, "paths", 0)}
    \cup {Mem(h, "path", i) : i \in 1..f.count}
    \cup (IF f.md5 THEN {Mem(h, "md5", 0)} ELSE {})
    \cup (IF f.sha1 THEN {Mem(h, "sha1", 0)} ELSE {})

(* free_c_str_array: the array and the strings in it.                      *)
free_c_str_array(h, n) ==
  {Mem(h, "paths", 0)} \cup {Mem(h, "path", i) : i \in 1..n}

(* Mutant: the hashes are borrowed from the reader.                        *)
E01HandleDropBorrowed(h, f) ==
  free_c_str_array(h, f.count) \cup {Mem(h, "reader", 0)}

(* What E01Handle::drop frees, by the fields of the handle.                *)
E01HandleDrop(h, f) ==
  free_c_str_array(h, f.count) \cup {Mem(h, "reader", 0)}
    \cup (IF f.md5 THEN {Mem(h, "md5", 0)} ELSE {})
    \cup (IF f.sha1 THEN {Mem(h, "sha1", 0)} ELSE {})

RawdiskHandleParts(h) == {Mem(h, "box", 0), Mem(h, "reader", 0), Mem(h, "path", 1)}

RawdiskHandleDrop(h) == {Mem(h, "reader", 0), Mem(h, "path", 1)}

VmdkHandleParts(h) == {Mem(h, "box", 0), Mem(h, "reader", 0), Mem(h, "path", 1)}

VmdkHandleDrop(h) == {Mem(h, "reader", 0), Mem(h, "path", 1)}

-----------------------------------------------------------------------------
Init ==
  /\ heap = {}
  /\ handle = [h \in Handles |-> Null]
  /\ slot = [t \in Threads |-> Null]
  /\ dropped = {}
  /\ call = [t \in Threads |-> Null]
  /\ out = Null
  /\ bad = FALSE

(* fill_error, with the slot the caller gave or none: what the slot held   *)
(* is overwritten.  The call returns null or zero.                         *)
FillError(t, given) ==
  /\ IF given
       THEN \E e \in Free(Errors) :
              /\ Alloc(ErrorParts(e))
              /\ slot' = [slot EXCEPT ![t] = e]
              /\ dropped' = dropped \cup ({slot[t]} \ {Null})
       ELSE UNCHANGED <<heap, bad, slot, dropped>>
  /\ Return(t, given, FALSE)
  /\ UNCHANGED handle

(* Mutant: a panic gives the fallback and no error.                        *)
GuardSilent(t, given) ==
  /\ Return(t, given, FALSE)
  /\ UNCHANGED <<heap, handle, slot, dropped, bad>>

(* guard: a panic of the body becomes an error.                            *)
Guard(t, given) == FillError(t, given)

(* Each crate has fill_error and guard of its own, over its own error.     *)
rawdisk_fill_error(t, given) == FillError(t, given)

rawdisk_guard(t, given) == Guard(t, given)

vmdk_fill_error(t, given) == FillError(t, given)

vmdk_guard(t, given) == Guard(t, given)

(* The call succeeds and leaves the slot as it is.                         *)
Succeed(t, given) ==
  /\ Return(t, given, TRUE)
  /\ UNCHANGED <<slot, dropped>>

(* An open makes a handle with the given fields.                           *)
NewHandle(t, given, h, fields, parts) ==
  /\ handle' = [handle EXCEPT ![h] = fields]
  /\ Alloc(parts)
  /\ Succeed(t, given)

-----------------------------------------------------------------------------
(* rust_options: the policies are read as integers and checked.            *)
rust_options(section, chunk) == section \in 0..1 /\ chunk \in 0..2

(* Policies a C program may store: the values at the ends of the enums,    *)
(* and the first one past each.                                            *)
Policies == {[section |-> 1, chunk |-> 2], [section |-> 2, chunk |-> 2],
             [section |-> 1, chunk |-> 3]}

(* A path is good, or it is null or not UTF-8.                             *)
Args == {"good", "bad"}

(* e01_open.  The options, the array, its length and every path are        *)
(* checked, and the open may fail; with arguments that pass the checks it  *)
(* may also panic on a malformed image, or make a reader that has as many  *)
(* segments as paths were given.                                           *)
e01_open(t) ==
  /\ Idle(t)
  /\ \E given \in BOOLEAN :
       \/ FillError(t, given)
       \/ \E o \in Policies \cup {Null}, count \in 0..MaxPaths, p \in Args :
            /\ o # Null /\ rust_options(o.section, o.chunk) /\ count > 0 /\ p = "good"
            /\ \/ Guard(t, given)
               \/ \E h \in Free(Handles), f \in E01Fields :
                    f.count = count /\ NewHandle(t, given, h, f, E01HandleParts(h, f))

(* e01_open_glob: as many segments as are found.                           *)
e01_open_glob(t) ==
  /\ Idle(t)
  /\ \E given \in BOOLEAN :
       \/ FillError(t, given)
       \/ \E o \in Policies \cup {Null}, p \in Args :
            /\ o # Null /\ rust_options(o.section, o.chunk) /\ p = "good"
            /\ \/ Guard(t, given)
               \/ \E h \in Free(Handles), f \in E01Fields :
                    NewHandle(t, given, h, f, E01HandleParts(h, f))

rawdisk_open(t) ==
  /\ Idle(t)
  /\ \E given \in BOOLEAN :
       \/ rawdisk_fill_error(t, given)
       \/ \E p \in Args :
            /\ p = "good"
            /\ \/ rawdisk_guard(t, given)
               \/ \E h \in Free(Handles) :
                    NewHandle(t, given, h, [fmt |-> "rawdisk"], RawdiskHandleParts(h))

vmdk_open(t) ==
  /\ Idle(t)
  /\ \E given \in BOOLEAN :
       \/ vmdk_fill_error(t, given)
       \/ \E p \in Args :
            /\ p = "good"
            /\ \/ vmdk_guard(t, given)
               \/ \E h \in Free(Handles) :
                    NewHandle(t, given, h, [fmt |-> "vmdk"], VmdkHandleParts(h))

-----------------------------------------------------------------------------
(* The handles of a format the caller holds.                               *)
Open(fmt) == {h \in Handles : handle[h] # Null /\ handle[h].fmt = fmt}

(* A read: the null checks, and then the reader works, while other threads *)
(* make their own calls.                                                   *)
BeginRead(t, h, buf, given) ==
  /\ Idle(t)
  /\ IF h = Null \/ buf = Null
       THEN FillError(t, given)
       ELSE /\ call' = [call EXCEPT ![t] = [h |-> h, given |-> given]]
            /\ out' = Null
            /\ UNCHANGED <<heap, handle, slot, dropped, bad>>

(* read_at_offset returns a count, fails (past the end too), or panics.     *)
EndRead(t, fmt) ==
  /\ call[t] # Null /\ handle[call[t].h].fmt = fmt
  /\ LET given == call[t].given IN
       \/ Succeed(t, given) /\ UNCHANGED <<heap, handle, bad>>
       \/ FillError(t, given)
       \/ Guard(t, given)

e01_read(t) ==
  \/ \E h \in Open("e01") \cup {Null}, buf \in {Null, "buf"}, given \in BOOLEAN :
       BeginRead(t, h, buf, given)
  \/ EndRead(t, "e01")

rawdisk_read(t) ==
  \/ \E h \in Open("rawdisk") \cup {Null}, buf \in {Null, "buf"}, given \in BOOLEAN :
       BeginRead(t, h, buf, given)
  \/ EndRead(t, "rawdisk")

vmdk_read(t) ==
  \/ \E h \in Open("vmdk") \cup {Null}, buf \in {Null, "buf"}, given \in BOOLEAN :
       BeginRead(t, h, buf, given)
  \/ EndRead(t, "vmdk")

-----------------------------------------------------------------------------
(* A close drops the handle and then its box.  Closing null does nothing,  *)
(* and nobody closes a handle under a read.                                *)
Close(t, h, parts) ==
  /\ Idle(t)
  /\ \A u \in Threads : call[u] # Null => call[u].h # h
  /\ Release(parts \cup {Mem(h, "box", 0)})
  /\ handle' = [handle EXCEPT ![h] = Null]
  /\ out' = Null
  /\ UNCHANGED <<slot, dropped, call>>

e01_close(t) == \E h \in Open("e01") : Close(t, h, E01HandleDrop(h, handle[h]))

rawdisk_close(t) == \E h \in Open("rawdisk") : Close(t, h, RawdiskHandleDrop(h))

vmdk_close(t) == \E h \in Open("vmdk") : Close(t, h, VmdkHandleDrop(h))

(* free_error on the slot's error: the box, and the message that           *)
(* E01Error::drop frees.  The caller then clears its slot.                 *)
FreeError(t) ==
  /\ Idle(t)
  /\ slot[t] # Null
  /\ Release(ErrorParts(slot[t]))
  /\ slot' = [slot EXCEPT ![t] = Null]
  /\ out' = Null
  /\ UNCHANGED <<handle, dropped, call>>

e01_free_error(t) == FreeError(t)

rawdisk_free_error(t) == FreeError(t)

vmdk_free_error(t) == FreeError(t)

Next ==
  \E t \in Threads :
    \/ e01_open(t) \/ e01_open_glob(t) \/ e01_read(t) \/ e01_close(t) \/ e01_free_error(t)
    \/ rawdisk_open(t) \/ rawdisk_read(t) \/ rawdisk_close(t) \/ rawdisk_free_error(t)
    \/ vmdk_open(t) \/ vmdk_read(t) \/ vmdk_close(t) \/ vmdk_free_error(t)

Spec == Init /\ [][Next]_vars

-----------------------------------------------------------------------------
(* The types of the state.                                                 *)
TypeOK ==
  /\ heap \subseteq (Handles \cup Errors) \X {"box", "message", "reader", "paths", "path", "md5", "sha1"} \X (0..MaxPaths)
  /\ handle \in [Handles -> HandleFields \cup {Null}]
  /\ slot \in [Threads -> Errors \cup {Null}]
  /\ dropped \subseteq Errors
  /\ call \in [Threads -> [h : Handles, given : BOOLEAN] \cup {Null}]
  /\ bad \in BOOLEAN

(* The parts of a handle the caller holds.                                 *)
HandleParts(h) ==
  CASE handle[h] = Null -> {}
    [] handle[h] # Null /\ handle[h].fmt = "e01" -> E01HandleParts(h, handle[h])
    [] handle[h] # Null /\ handle[h].fmt = "rawdisk" -> RawdiskHandleParts(h)
    [] OTHER -> VmdkHandleParts(h)

(* What is allocated is exactly what the caller can still give back, and   *)
(* the errors it overwrote: no call that fails or panics, and no close,    *)
(* leaves anything behind, whatever the other threads do.  And nothing is  *)
(* freed that is not allocated.                                            *)
NothingLeaks ==
  /\ ~bad
  /\ heap = UNION ({HandleParts(h) : h \in Handles}
           \cup {ErrorParts(e) : e \in (dropped \cup {slot[t] : t \in Threads}) \ {Null}})

(* A caller that gave a null slot sees an error there exactly when the     *)
(* call failed: that is what tells zero bytes at the end of an image from  *)
(* a read that failed.                                                     *)
ErrorTells ==
  [][out' # out /\ out' # Null /\ out'.given /\ slot[out'.t] = Null
       => (slot'[out'.t] # Null <=> ~out'.ok)]_vars
=============================================================================
