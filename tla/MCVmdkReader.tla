--------------------------- MODULE MCVmdkReader ----------------------------
(***************************************************************************)
(* Disks of four or six sectors of two bytes: chains of one to three       *)
(* images over flat, sparse, compressed and zero extents, whole, broken in *)
(* several ways, and hinting back at themselves.                           *)
(***************************************************************************)
EXTENDS VmdkReader

Flat(f, n, o) == [kind |-> "flat", file |-> f, sectors |-> n, offset |-> o, header |-> Absent]

ZeroEd(n) == [kind |-> "zero", file |-> Absent, sectors |-> n, offset |-> 0, header |-> Absent]

Sparse(f, n, h) == [kind |-> "sparse", file |-> f, sectors |-> n, offset |-> 0, header |-> h]

\* n sectors in grains of c, second-level tables of k entries.
SparseHead(n, c, k, l1) ==
    [ft |-> "vmdk4", capacity |-> n, granularity |-> c, num_gtes_per_gt |-> k, l1 |-> l1,
     compressed |-> FALSE, has_zero_grain |-> TRUE]

\* A VMDK3 or SESPARSE file; entry 1 is a sector of the first, a zeroed grain of the other.
Other(ft, n, c, l1) == [SparseHead(n, c, 0, l1) EXCEPT !.ft = ft, !.has_zero_grain = FALSE]

Packed(h) == [h EXCEPT !.compressed = TRUE, !.has_zero_grain = FALSE]

Image(p, eds) == [parent |-> p, binary |-> FALSE, extents |-> eds]

Disk(images) == [top |-> "top", images |-> images, lost |-> {}, bad |-> {}]

Base == [parent |-> Absent, binary |-> FALSE,
         extents |-> <<Flat("b1", 1, 1), ZeroEd(1), Flat("b2", 2, 0)>>]

\* Two sparse images over a flat one or over none.  The top has grains of one sector
\* in two tables of two, 1 being a zeroed grain; the middle one has compressed grains
\* of three sectors, of the second of which only one sector is in the extent.
Chain3(t1, t2, m, p) == Disk(
    [top |-> Image("mid", <<Sparse("t", 4, SparseHead(4, 1, 2, <<t1, t2>>))>>),
     mid |-> Image(p, <<Sparse("m", 4, Packed(SparseHead(6, 3, 2, <<m>>)))>>),
     base |-> Base])

Tables1 == {Absent, <<0, 5>>, <<6, 1>>, <<9, 0>>}

Tables3 == {Absent, <<0, 7>>, <<4, 0>>, <<4, 7>>}

Chains == {Chain3(t1, t2, m, p) : t1, t2 \in Tables1, m \in Tables3, p \in {"base", Absent}}

\* Grains that are next to each other and merge, over extents that end in the middle.
Merge == Disk(
    [top |-> Image("base", <<ZeroEd(0), Sparse("t", 3, SparseHead(4, 1, 4, << <<5, 6, 0, 9>> >>)),
                             Sparse("t2", 1, SparseHead(1, 1, 1, << <<5>> >>))>>),
     base |-> Base])

\* A hole in the middle that no image has, and an empty extent at the end.
Holes == Disk(
    [top |-> Image(Absent, <<Sparse("t", 6, SparseHead(6, 2, 3, << <<3, 0, 8>> >>)), ZeroEd(0)>>)])

\* An empty extent in the middle of what the parent has, and a grandparent that is not
\* there and not needed.
Split == Disk(
    [top |-> Image("mid", <<Sparse("t", 1, SparseHead(1, 1, 1, <<Absent>>)), ZeroEd(0),
                            Sparse("t2", 3, SparseHead(3, 3, 1, <<Absent>>))>>),
     mid |-> Image("gone", <<Flat("m", 4, 0)>>)])

\* The same with nothing missing: the grandparent is looked at, but has no say.
SplitChain == [Split EXCEPT !.images = [u \in {"top", "mid", "gone"} |->
    IF u = "gone" THEN Base ELSE Split.images[u]]]

\* Everything is covered before the parent is looked at, which is not there.
Covered == Disk([top |-> Image("gone", <<Flat("a", 2, 0), Flat("b", 2, 3)>>)])

\* A binary image with one extent whose own file was renamed.
Renamed == [Disk([top |-> [parent |-> "base", binary |-> TRUE,
                           extents |-> <<Sparse("old", 4, SparseHead(4, 2, 2, << <<0, 4>> >>))>>],
                  base |-> Base]) EXCEPT !.lost = {"old"}]

\* The same for an image of two extents: it cannot be opened.
Lost == [Disk([top |-> [parent |-> Absent, binary |-> TRUE,
                        extents |-> <<Flat("old", 2, 0), ZeroEd(2)>>]]) EXCEPT !.lost = {"old"}]

Cycle == Disk([top |-> Image("mid", <<Sparse("t", 4, SparseHead(4, 2, 2, << <<3, 0>> >>))>>),
               mid |-> Image("top", <<Sparse("m", 4, SparseHead(4, 2, 2, << Absent >>))>>)])

Mismatch == Disk([top |-> Image("mid", <<Sparse("t", 4, SparseHead(4, 2, 2, << <<3, 0>> >>))>>),
                  mid |-> Image(Absent, <<Flat("m", 3, 0)>>)])

Corrupt == Disk([top |-> Image("base", <<Sparse("t", 4, Absent)>>), base |-> Base])

Kinds == Disk([top |-> Image("mid", <<[Sparse("s", 4, Other("sesparse", 4, 1, << <<0, 1>>, <<4, 0>> >>))
                                            EXCEPT !.kind = "sesparse"]>>),
               mid |-> Image("base", <<Sparse("c", 4, Other("vmdk3", 4, 2, << <<1, 0>> >>))>>),
               base |-> Base])

\* Headers that are not to be relied on, one way each, and one that is but only for one
\* kind of extent.
BadHeads == {SparseHead(4, 0, 2, << <<3, 0>> >>), SparseHead(4, 2, 0, << <<3, 0>> >>),
             SparseHead(4, 2, 9, << <<3, 0>> >>), SparseHead(4, 2, 2, << <<3, 0>> >>),
             Other("sesparse", 4, 1, <<Absent>>), SparseHead(99, 9, 4, << <<3, 0>>, Absent, Absent >>)}

BadKinds == {Disk([top |-> Image(Absent, <<[Sparse("t", 4, h) EXCEPT !.kind = k]>>)]) :
                h \in BadHeads, k \in {"sparse", "sesparse"}}

Device == Disk([top |-> Image(Absent, <<[Flat("t", 4, 0) EXCEPT !.kind = "vmfsraw"]>>)])

\* A flat file that is too short and a compressed grain that does not unpack.
Broken == [Chain3(<<0, 1>>, Absent, <<0, 7>>, "base") EXCEPT !.bad = {<<"b1", 3>>} \cup {<<"m", 7, k>> : k \in 0 .. 5}]

MCDisks == Chains \cup BadKinds \cup {Kinds, Merge, Holes, Covered, Renamed, Lost, Cycle, Mismatch, Corrupt,
                       Device, Broken, Split, SplitChain}

MCSplit == {Split}

MCReads == (0 .. 13) \X {0, 1, 3, 13}
=============================================================================
