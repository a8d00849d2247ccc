--------------------------- MODULE FetchGeometry ---------------------------
(***************************************************************************)
(* The arithmetic of imagesource/src/foyercache.rs: how a byte offset is   *)
(* mapped to cache blocks and to aligned fetch groups, which blocks a read *)
(* and its readahead touch, and how fetched bytes are cut into blocks and  *)
(* copied into the caller's buffer.                                        *)
(*                                                                         *)
(* Bytes are modelled by where they come from.  A contiguous run of bytes  *)
(* is a slice [src, beg, len]: `len' bytes of source `src' starting at its *)
(* offset `beg'.  A buffer is a function from positions to the byte it     *)
(* holds, <<src, offset>>, or to Stale where nothing has been copied yet.  *)
(* The offsets an iterator with step_by visits are a set.                  *)
(***************************************************************************)
EXTENDS Integers

Lesser(a, b) == IF a <= b THEN a ELSE b

Greater(a, b) == IF a >= b THEN a ELSE b

\* A zero block size is a caller bug; the code falls back to 1 MiB.
normalize_block_size(chlen) == IF chlen = 0 THEN 1024 * 1024 ELSE chlen

\* Mutant: the requested size as it is.
group_size_unrounded(fetch_size, chlen) == Greater(fetch_size, chlen)

\* The requested fetch size rounded down to whole blocks, never below one.
group_size(fetch_size, chlen) == Greater(fetch_size \div chlen, 1) * chlen

\* div_ceil of the standard library.
DivCeil(a, b) == (a + b - 1) \div b

\* (beg..end).step_by(step), as a set.
StepBy(beg, end, step) ==
    {o \in beg .. end - 1 : \E n \in 0 .. end - beg : o = beg + n * step}

\* First byte of the aligned unit of size `unit' that holds `off': the block
\* of a byte (unit = chlen) or the fetch group of a block (unit = group).
AlignDown(off, unit) == (off \div unit) * unit

\* End of the group that starts at gbeg, clamped to the end of the source.
GroupEnd(gbeg, group, end) == Lesser(gbeg + group, end)

\* The blocks a read of [off, off+len) is served from.
DemandOffs(off, len, chlen) == StepBy(AlignDown(off, chlen), off + len, chlen)

\* The first block of the read in each fetch group, routed ahead of the rest.
Leaders(off, len, chlen, group) ==
    LET csbeg == AlignDown(off, chlen)
    IN  {choff \in DemandOffs(off, len, chlen) :
            choff = Greater(AlignDown(choff, group), csbeg)}

\* First and end offset of the blocks to prefetch after a read ending at csend.
readahead_block_range(csend, chlen, readahead, end) ==
    LET beg == DivCeil(csend, chlen) * chlen
    IN  <<beg, Lesser(beg + readahead * chlen, end)>>

-----------------------------------------------------------------------------
Slice(src, beg, len) == [src |-> src, beg |-> beg, len |-> len]

\* What a cache entry for (src, choff) must hold: the whole block, which is
\* shorter than chlen only at the end of the source.
WholeBlock(src, choff, chlen, end) ==
    Slice(src, choff, Lesser(choff + chlen, end) - choff)

\* Mutant: a block that came back in part is kept.
CutOffsPartial(bytes, gbeg, gend, chlen) ==
    {boff \in StepBy(gbeg, gend, chlen) : boff - gbeg <= bytes.len}

\* The offsets of the blocks cut out of the `bytes' of a group read [gbeg, gend).
\* The loop stops at the first block that did not come back whole.
CutOffs(bytes, gbeg, gend, chlen) ==
    {boff \in StepBy(gbeg, gend, chlen) :
        Lesser(boff + chlen, gend) - gbeg <= bytes.len}

\* Mutant: every block is cut from the front of the group buffer.
CutBlockFront(bytes, boff, gbeg, gend, chlen) ==
    Slice(bytes.src, bytes.beg, Lesser(boff + chlen, gend) - boff)

\* The block cut out at boff: bytes[beg..end] of the group buffer.
CutBlock(bytes, boff, gbeg, gend, chlen) ==
    Slice(bytes.src, bytes.beg + (boff - gbeg),
          Lesser(Lesser(boff + chlen, gend), gbeg + bytes.len) - boff)

-----------------------------------------------------------------------------
Stale == "stale"

\* What the caller must see after a successful read of [off, off+len).
ExactBuf(src, off, len) == [i \in 0 .. len - 1 |-> <<src, off + i>>]

\* Single-block fast path: copy, or fail when the block is too short.
fill_from_block(off, len, choff, ch) ==
    LET chbeg == off - choff
        ok    == chbeg + len <= ch.len
    IN  [ok  |-> ok,
         buf |-> [i \in 0 .. len - 1 |->
                    IF ok THEN <<ch.src, ch.beg + chbeg + i>> ELSE Stale]]

\* The multi-block copy loop; chunk maps the demanded offsets to their blocks.
\* How far the buffer is filled, as a source position, after block o ...
CopyReach(off, len, chunk, o) == Lesser(off + len, o + chunk[o].len)

\* ... and before it.
CopyFrom(off, len, chlen, chunk, o) ==
    IF o = AlignDown(off, chlen) THEN off ELSE CopyReach(off, len, chunk, o - chlen)

\* The loop fails on a hole in front of a block, on a block that ends before the
\* position it should go on from, and on a buffer that is not filled at the end.
CopyOk(off, len, chlen, chunk) ==
    /\ \A o \in DOMAIN chunk :
        /\ o <= CopyFrom(off, len, chlen, chunk, o)
        /\ CopyFrom(off, len, chlen, chunk, o) <= CopyReach(off, len, chunk, o)
        /\ o + chlen \notin DOMAIN chunk => CopyReach(off, len, chunk, o) = off + len
    /\ DOMAIN chunk = {} => len = 0

\* The block whose turn of the loop copies the byte at source position pos.
CopiedFrom(off, len, chlen, chunk, pos) ==
    CHOOSE o \in DOMAIN chunk :
        CopyFrom(off, len, chlen, chunk, o) <= pos /\ pos < CopyReach(off, len, chunk, o)

CopiedByte(off, len, chlen, chunk, pos) ==
    LET o == CopiedFrom(off, len, chlen, chunk, pos)
    IN  <<chunk[o].src, chunk[o].beg + (pos - o)>>

CopyChunks(off, len, chlen, chunk) ==
    LET ok == CopyOk(off, len, chlen, chunk)
    IN  [ok  |-> ok,
         buf |-> [i \in 0 .. len - 1 |->
                    IF ok THEN CopiedByte(off, len, chlen, chunk, off + i) ELSE Stale]]
=============================================================================
