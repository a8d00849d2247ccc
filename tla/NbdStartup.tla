----------------------------- MODULE NbdStartup -----------------------------
(***************************************************************************)
(* How diskimage-nbd comes up around NbdServer: the order in which it      *)
(* looks at the image's name, opens its logs, registers the handler of     *)
(* SIGUSR1, binds its socket and opens the image, each of which may end    *)
(* the process.  A Unix socket is bound before the image is opened, so     *)
(* that clients may be waiting when the open fails; a TCP socket after it. *)
(*                                                                         *)
(* Sources: diskimage-nbd/src/bin/diskimage-nbd.rs, server.rs.             *)
(***************************************************************************)
EXTENDS NbdServer

CONSTANTS
    Suffixes,    \* the suffixes of the image names tried
    BootFaults   \* what may fail: "log", "handler", "bind", "open", "trace"

VARIABLE
    boot    \* how far the process is, its options, the SIGUSR1 handler and flag

mainVars == <<vars, boot>>

\* detect_format: the format of a suffix, or None when there is none for it.
detect_format(suffix) ==
    CASE suffix = "e01" -> "e01"
      [] suffix = "vmdk" -> "vmdk"
      [] suffix \in {"raw", "dd", "img", "digits"} -> "raw"
      [] OTHER -> None

\* The process before run, with --metadata-cache and --unix or without.
MainInit ==
    /\ Init
    /\ boot \in [stage : {"format"}, format : {None}, meta : BOOLEAN,
                 unix : BOOLEAN, handler : {FALSE}, regular : {FALSE}]

\* What is left of the start once the server is up.
Up == [stage |-> "up", format |-> None, meta |-> FALSE, unix |-> FALSE,
       handler |-> FALSE, regular |-> FALSE]

\* Sockets that clients can connect to: the listener exists.
Listening == boot.stage = "up" \/ (boot.unix /\ boot.stage \in {"trace", "open", "begin"})

At(stage) == boot.stage = stage

\* Mutant: the connections in the backlog outlive the process.
ExitLeavesBacklog ==
    /\ boot' = [boot EXCEPT !.stage = "exited"]
    /\ UNCHANGED vars

\* The process ends with an error; the kernel closes the listener, and with it
\* the connections nobody accepted.
Exit ==
    /\ boot' = [boot EXCEPT !.stage = "exited"]
    /\ pc' = [c \in Conns |-> "closed"]
    /\ UNCHANGED <<gone, accept, owner, poisoned, wire>>

\* A step of the start that may fail goes on to the next stage or ends the process.
Step(from, to, fault) ==
    /\ At(from)
    /\ \/ boot' = [boot EXCEPT !.stage = to] /\ UNCHANGED vars
       \/ fault \in BootFaults /\ Exit

\* run: the format by the name, before anything is opened.
DetectFormat ==
    /\ At("format")
    /\ \E s \in Suffixes :
        \/ /\ detect_format(s) # None
           /\ boot' = [boot EXCEPT !.stage = "log", !.format = detect_format(s)]
           /\ UNCHANGED vars
        \/ detect_format(s) = None /\ Exit

\* run_serve binds a Unix socket first, and without one opens the image first.
Serve == IF boot.unix THEN "bind" ELSE "trace"

OpenIoLog == Step("log", IF boot.meta THEN "handler" ELSE Serve, "log")

\* Mutant: the handler is registered once the image is open.
MakeCachePhaseLate ==
    /\ At("handler")
    /\ boot' = [boot EXCEPT !.stage = Serve]
    /\ UNCHANGED vars

\* make_cache_phase: SIGUSR1 now flips the phase flag.
MakeCachePhase ==
    /\ At("handler")
    /\ \/ boot' = [boot EXCEPT !.stage = Serve, !.handler = TRUE] /\ UNCHANGED vars
       \/ "handler" \in BootFaults /\ Exit

\* bind_unix: a stale socket is removed, nothing is no obstacle, and any other
\* kind of file is left alone and refused.
BindUnix ==
    /\ At("bind")
    /\ \E there \in {"socket", "nothing", "file"} :
        \/ /\ there # "file"
           /\ boot' = [boot EXCEPT !.stage = "trace"]
           /\ UNCHANGED vars
        \/ (there = "file" \/ "bind" \in BootFaults) /\ Exit

OpenTrace == Step("trace", "open", "trace")

\* open_e01, open_vmdk, open_raw: the reader of the format with the cache that
\* --metadata-cache chooses.
open_e01 == boot.format = "e01" /\ Step("open", "begin", "open")

open_vmdk == boot.format = "vmdk" /\ Step("open", "begin", "open")

open_raw == boot.format = "raw" /\ Step("open", "begin", "open")

\* The reader's trace starts; then the listener of a Unix socket is served, and
\* a TCP socket is bound.
BeginTrace ==
    /\ At("begin")
    /\ \/ boot' = (IF boot.unix THEN Up ELSE [boot EXCEPT !.stage = "listen"]) /\ UNCHANGED vars
       \/ "trace" \in BootFaults /\ Exit

BindTcp ==
    /\ At("listen")
    /\ \/ boot' = Up /\ UNCHANGED vars
       \/ "bind" \in BootFaults /\ Exit

\* SIGUSR1 while the process starts: the handler's thread sets the flag; the
\* default disposition is to end the process.
Sigusr1 ==
    /\ ~At("up") /\ ~At("exited") /\ ~At("killed")
    /\ \/ boot.handler /\ boot' = [boot EXCEPT !.regular = TRUE] /\ UNCHANGED vars
       \/ /\ ~boot.handler
          /\ boot' = [boot EXCEPT !.stage = "killed"]
          /\ pc' = [c \in Conns |-> "closed"]
          /\ UNCHANGED <<gone, accept, owner, poisoned, wire>>

BootStep ==
    \/ DetectFormat \/ OpenIoLog \/ MakeCachePhase \/ BindUnix
    \/ OpenTrace \/ open_e01 \/ open_vmdk \/ open_raw \/ BeginTrace \/ BindTcp

\* Clients that connect, and hang up, before anyone accepts.
EarlyClient(c) == (Connect(c) \/ HangUp(c)) /\ UNCHANGED boot

MainNext ==
    \/ BootStep
    \/ Sigusr1
    \/ Listening /\ ~At("up") /\ \E c \in Conns : EarlyClient(c)
    \/ At("up") /\ Next /\ UNCHANGED boot

\* The start goes on to its end, and then the server runs as NbdServer says.
MainFairness ==
    /\ WF_mainVars(BootStep)
    /\ WF_mainVars(At("up") /\ AcceptStep /\ UNCHANGED boot)
    /\ \A c \in Conns : WF_mainVars(At("up") /\ ThreadStep(c) /\ UNCHANGED boot)

MainSpec == MainInit /\ [][MainNext]_mainVars /\ MainFairness

-----------------------------------------------------------------------------
\* With --metadata-cache, SIGUSR1 ends no process whose socket a client can see: the
\* handler is registered before the socket is bound and before the image, which may
\* take minutes, is opened (make_cache_phase, run_serve).
SignalSurvived ==
    [][Listening /\ boot.meta => boot'.stage # "killed"]_mainVars
=============================================================================
