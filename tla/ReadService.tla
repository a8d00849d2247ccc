---------------------------- MODULE ReadService ----------------------------
(***************************************************************************)
(* What the Cache trait promises its callers (imagesource/src/cache.rs):   *)
(* a call of read(idx, off, buf) is answered once, either by filling the   *)
(* whole of buf with bytes [off, off + len) of source idx or by an error.  *)
(* No partial answer, no answer mixed from two sources, no call that never *)
(* returns.  Between the answer and the return the callee may still do     *)
(* work of its own (readahead), which the caller must not be able to tell. *)
(***************************************************************************)
EXTENDS FetchGeometry

CONSTANTS
    Clients,   \* the threads that call
    Requests,  \* per client, the reads it may make: records [idx, off, len]
    NoValue    \* no request, no answer

VARIABLES
    phase,   \* per client: "idle", "busy" or "answered"
    req,     \* per client: the request being served
    answer   \* per client: the contents of its buffer

serviceVars == <<phase, req, answer>>

Init ==
    /\ phase = [c \in Clients |-> "idle"]
    /\ req = [c \in Clients |-> NoValue]
    /\ answer = [c \in Clients |-> NoValue]

Begin(c, q) ==
    /\ phase[c] = "idle"
    /\ phase' = [phase EXCEPT ![c] = "busy"]
    /\ req' = [req EXCEPT ![c] = q]
    /\ UNCHANGED answer

Answer(c) ==
    /\ phase[c] = "busy"
    /\ phase' = [phase EXCEPT ![c] = "answered"]
    /\ answer' = [answer EXCEPT ![c] = ExactBuf(req[c].idx, req[c].off, req[c].len)]
    /\ UNCHANGED req

\* The caller gets its buffer back (from "answered") or an error (from "busy").
Return(c) ==
    /\ phase[c] # "idle"
    /\ phase' = [phase EXCEPT ![c] = "idle"]
    /\ req' = [req EXCEPT ![c] = NoValue]
    /\ answer' = [answer EXCEPT ![c] = NoValue]

Next ==
    \E c \in Clients :
        Answer(c) \/ Return(c) \/ \E q \in Requests[c] : Begin(c, q)

\* No call is left hanging.
CallsReturn == \A c \in Clients : phase[c] # "idle" ~> phase[c] = "idle"

Safety == Init /\ [][Next]_serviceVars

Spec == Safety /\ CallsReturn
=============================================================================
