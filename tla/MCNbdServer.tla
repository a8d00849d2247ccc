---------------------------- MODULE MCNbdServer ----------------------------
(***************************************************************************)
(* Small instances of NbdStartup.                                          *)
(***************************************************************************)
EXTENDS NbdStartup

Cmd(typ, off, len) == [typ |-> typ, off |-> off, len |-> len]

\* An image of 4 bytes served through a buffer of 2: reads of two buffers, at the
\* end, past it, too long and empty, and a write of two buffers.
MCProtocol ==
    {Cmd("read", 1, 3), Cmd("read", 2, 3), Cmd("read", 0, 4), Cmd("read", 4, 0),
     Cmd("write", 0, 3), Cmd("other", 0, 0), Cmd("disc", 0, 0),
     Cmd("badmagic", 0, 0)}
=============================================================================
