--------------------------- MODULE RawdiskReader ---------------------------
(***************************************************************************)
(* The reader of raw images: finding the segments of a split image by      *)
(* probing for their names (seg_path.rs, exists.rs), opening them and      *)
(* reading across their boundaries (spans.rs, rawdisk_reader.rs).          *)
(*                                                                         *)
(* A name is <<number, width>>, its numeric suffix; the stem is the same   *)
(* for all.  Numbers are written to the base RADIX, ten in the code.  A    *)
(* byte is the place it is stored at, <<name, offset>>.                    *)
(***************************************************************************)
EXTENDS Integers, FiniteSets, FiniteSetsExt, Sequences, SequencesExt

CONSTANTS
    Images,   \* what may be opened: [files: name -> length, denied, example, local]
    Reads,    \* the reads made of it, <<offset, length>>
    RADIX,
    MIN_SEGMENT_DIGITS,
    U64_MAX,  \* the largest number a suffix may have
    USIZE,    \* the number of values of a usize
    Flaky     \* probes may fail to tell and reads of the store may fail

ASSUME RawdiskAssumption ==
    /\ RADIX \in Nat \ {0, 1} /\ MIN_SEGMENT_DIGITS \in Nat \ {0}
    /\ U64_MAX \in Nat /\ USIZE \in Nat \ {0}
    /\ Flaky \in BOOLEAN
    /\ Reads \subseteq Nat \X (0 .. USIZE - 1)

ASSUME ImagesAssumption ==
    \A im \in Images :
        /\ im.example \in Nat \X Nat
        /\ IsFiniteSet(DOMAIN im.files)
        /\ \A f \in DOMAIN im.files : im.files[f] \in Nat

VARIABLES
    image,    \* the files and the name the caller gave
    pc,       \* where segment_paths or open_with_options is
    n,        \* the number at hand: lowest, or the end of the walk
    first,    \* the number the sequence starts at
    near,     \* the segment below the named one is there
    paths,    \* the segments found, in order
    missing,  \* the name reported as missing, <<>> if none is
    sources,  \* the segments registered with the cache, by index
    lengths,  \* their lengths
    rd        \* the read under way

vars == <<image, pc, n, first, near, paths, missing, sources, lengths, rd>>

NoRead == [st |-> "none", off |-> 0, len |-> 0, total |-> 0, out |-> <<>>]

num == image.example[1]

width == image.example[2]

-----------------------------------------------------------------------------
(* Names and probes.                                                       *)

\* The number of digits it takes to write k.
Digits(k) == Min({d \in 1 .. k + 1 : k < RADIX ^ d})

\* A number is padded to the width, and takes more digits if it has more.
candidate(k) == <<k, Max({width, Digits(k)})>>

has_numeric_suffix == width >= MIN_SEGMENT_DIGITS /\ num <= U64_MAX

\* Padded even if the power is out of range.
is_zero_padded == RADIX ^ (width - 1) > U64_MAX \/ num < RADIX ^ (width - 1)

\* The segments a probe finds: a name that may not be looked at (S3's 403) counts as
\* absent.
Visible == DOMAIN image.files \ image.denied

\* Mutant: a probe that cannot tell is taken for a no.
AnswersGuessed(k) == {candidate(k) \in Visible} \cup (IF Flaky THEN {FALSE} ELSE {})

\* What a probe for segment k may answer, if it can tell.
Answers(k) == {candidate(k) \in Visible}

Init ==
    /\ image \in Images
    /\ pc = "start"
    /\ n = 0
    /\ first = 0
    /\ near = FALSE
    /\ paths = <<>>
    /\ missing = <<>>
    /\ sources = <<>>
    /\ lengths = <<>>
    /\ rd = NoRead

found == <<image, sources, lengths, rd>>

\* A plain path that is not there is refused before anything is probed; a name
\* without a segment number is an image of its own.
Start ==
    /\ pc = "start"
    /\ \/ /\ image.local /\ image.example \notin DOMAIN image.files
          /\ pc' = "refused"
          /\ UNCHANGED paths
       \/ /\ ~image.local \/ image.example \in DOMAIN image.files
          /\ pc' = IF has_numeric_suffix THEN "zero" ELSE "sources"
          /\ paths' = IF has_numeric_suffix THEN paths ELSE <<image.example>>
    /\ UNCHANGED <<found, n, first, near, missing>>

\* Whichever probe cannot tell, the image is refused.
Undetermined ==
    /\ Flaky
    /\ \/ pc \in {"zero", "one", "walk", "past"}
       \/ pc \in {"below", "down"} /\ n > 0
       \/ pc = "above" /\ num < U64_MAX
    /\ pc' = "refused"
    /\ UNCHANGED <<found, n, first, near, paths, missing>>

\* The sequence starts at 0 or at 1.
ProbeZero(yes) ==
    /\ pc = "zero"
    /\ yes \in Answers(0)
    /\ pc' = IF yes THEN "walk" ELSE "one"
    /\ UNCHANGED <<found, n, first, near, paths, missing>>

\* Without a start, only a padded name is suspected to be part of a sequence.
ProbeOne(yes) ==
    /\ pc = "one"
    /\ yes \in Answers(1)
    /\ \/ /\ yes
          /\ pc' = "walk" /\ first' = 1 /\ n' = 1
          /\ UNCHANGED paths
       \/ /\ ~yes /\ is_zero_padded
          /\ pc' = "below" /\ n' = num
          /\ UNCHANGED <<first, paths>>
       \/ /\ ~yes /\ ~is_zero_padded
          /\ pc' = "sources" /\ paths' = <<image.example>>
          /\ UNCHANGED <<n, first>>
    /\ UNCHANGED <<found, near, missing>>

ProbeBelow(yes) ==
    /\ pc = "below"
    /\ IF n > 0 THEN yes \in Answers(n - 1) ELSE yes = FALSE
    /\ near' = yes
    /\ pc' = "above"
    /\ UNCHANGED <<found, n, first, paths, missing>>

\* A neighbour makes the named file part of a sequence whose start is lost.
ProbeAbove(yes) ==
    /\ pc = "above"
    /\ IF num < U64_MAX THEN yes \in Answers(num + 1) ELSE yes = FALSE
    /\ pc' = IF near \/ yes THEN "down" ELSE "sources"
    /\ paths' = IF near \/ yes THEN paths ELSE <<image.example>>
    /\ UNCHANGED <<found, n, first, near, missing>>

\* Down to the lowest segment that is there; the one below it is reported.
ProbeDown(yes) ==
    /\ pc = "down"
    /\ IF n > 0 THEN yes \in Answers(n - 1) ELSE yes = FALSE
    /\ \/ /\ yes
          /\ n' = n - 1
          /\ UNCHANGED <<pc, missing>>
       \/ /\ ~yes
          /\ pc' = "refused"
          /\ missing' = candidate(Max({n - 1, 0}))
          /\ UNCHANGED n
    /\ UNCHANGED <<found, first, near, paths>>

\* Mutant: the name reported is the one the caller gave.
MissingAtNamed(end) == IF num < first \/ num >= end THEN candidate(num) ELSE <<>>

\* What is reported when the walk ended at end without passing the named segment.
MissingAt(end) ==
    IF num < first THEN candidate(num) ELSE IF num >= end THEN candidate(end) ELSE <<>>

\* Upward from the start to the first name that is not there.
ProbeWalk(yes) ==
    /\ pc = "walk"
    /\ yes \in Answers(n)
    /\ \/ /\ yes
          /\ paths' = Append(paths, candidate(n))
          /\ n' = n + 1
          /\ UNCHANGED <<pc, missing>>
       \/ /\ ~yes
          /\ missing' = MissingAt(n)
          /\ pc' = IF missing' = <<>> THEN "past" ELSE "refused"
          /\ UNCHANGED <<paths, n>>
    /\ UNCHANGED <<found, first, near>>

\* A segment behind the missing one shows that this is a hole and not the end.
ProbePast(yes) ==
    /\ pc = "past"
    /\ yes \in Answers(n + 1)
    /\ pc' = IF yes THEN "refused" ELSE "sources"
    /\ missing' = IF yes THEN candidate(n) ELSE missing
    /\ UNCHANGED <<found, n, first, near, paths>>

-----------------------------------------------------------------------------
(* Opening the segments.                                                   *)

\* Mutant: an empty segment is let in.
EmptySegmentIgnored(len) == FALSE

\* An empty file is an image, but no segment of one.
EmptySegment(len) == Len(paths) > 1 /\ len = 0

OpenSource ==
    LET i   == Len(sources) + 1
        len == image.files[paths[i]]
        bad == paths[i] \notin Visible \/ EmptySegment(len)
    IN  /\ pc = "sources"
        /\ i <= Len(paths)
        /\ pc' = IF bad THEN "refused" ELSE pc
        /\ sources' = IF bad THEN sources ELSE Append(sources, paths[i])
        /\ lengths' = IF bad THEN lengths ELSE Append(lengths, len)
        /\ UNCHANGED <<image, n, first, near, paths, missing, rd>>

Opened ==
    /\ pc = "sources"
    /\ Len(sources) = Len(paths)
    /\ pc' = "open"
    /\ UNCHANGED <<found, n, first, near, paths, missing>>

-----------------------------------------------------------------------------
(* SegmentMap and read_at_offset.                                          *)

\* acc after i segments: the length of the first i together.
acc ==
    LET sum[i \in 0 .. Len(lengths)] == IF i = 0 THEN 0 ELSE sum[i - 1] + lengths[i]
    IN  sum

starts == [i \in DOMAIN lengths |-> acc[i - 1]]

image_size == acc[Len(lengths)]

\* The segments a binary search for an offset may come up with.
Locate(at) ==
    IF at \in Range(starts) THEN {i \in DOMAIN starts : starts[i] = at}
    ELSE {Max({i \in DOMAIN starts : starts[i] < at})}

\* Compared as u64, narrowed to a usize.
take_bytes(remaining, left) == Min({remaining, left}) % USIZE

Clamp(off, len) == Min({len, image_size - off})

BeginRead(off, len) ==
    LET total == Clamp(off, len)
    IN  /\ pc = "open"
        /\ rd.st = "none"
        /\ rd' = IF off > image_size THEN [NoRead EXCEPT !.off = off, !.len = len, !.st = "beyond"]
                 ELSE [NoRead EXCEPT !.off = off, !.len = len, !.total = total, !.st = "running"]
        /\ UNCHANGED <<image, pc, n, first, near, paths, missing, sources, lengths>>

\* One turn of the loop: what one segment has of the read.
ReadSlice ==
    LET want == rd.off + Len(rd.out)
    IN  /\ rd.st = "running"
        /\ Len(rd.out) < rd.total
        /\ IF want >= image_size THEN rd' = [rd EXCEPT !.st = "stuck"]
           ELSE \E i \in Locate(want) :
                LET within == want - starts[i]
                    take   == take_bytes(rd.total - Len(rd.out), lengths[i] - within)
                    got    == [k \in 1 .. take |-> <<sources[i], within + k - 1>>]
                IN  IF take = 0 THEN rd' = [rd EXCEPT !.st = "stuck"]
                    ELSE \/ rd' = [rd EXCEPT !.out = @ \o got]
                         \/ Flaky /\ rd' = [rd EXCEPT !.st = "io"]
        /\ UNCHANGED <<image, pc, n, first, near, paths, missing, sources, lengths>>

EndRead ==
    /\ rd.st = "running"
    /\ Len(rd.out) >= rd.total
    /\ rd' = [rd EXCEPT !.st = "ok"]
    /\ UNCHANGED <<image, pc, n, first, near, paths, missing, sources, lengths>>

Return ==
    /\ rd.st \in {"ok", "beyond", "io", "stuck"}
    /\ rd' = NoRead
    /\ UNCHANGED <<image, pc, n, first, near, paths, missing, sources, lengths>>

\* The image is refused: there is no reader.
Rest == pc = "refused" /\ UNCHANGED vars

-----------------------------------------------------------------------------
Probe(yes) ==
    \/ ProbeZero(yes) \/ ProbeOne(yes) \/ ProbeBelow(yes) \/ ProbeAbove(yes)
    \/ ProbeDown(yes) \/ ProbeWalk(yes) \/ ProbePast(yes)

Next ==
    \/ Start \/ Undetermined \/ (\E yes \in BOOLEAN : Probe(yes))
    \/ OpenSource \/ Opened
    \/ (\E r \in Reads : BeginRead(r[1], r[2])) \/ ReadSlice \/ EndRead \/ Return
    \/ Rest

Spec == Init /\ [][Next]_vars

-----------------------------------------------------------------------------
(* Properties.                                                             *)

\* Every variable stays within its type, and a read within the image.
TypeOK ==
    /\ pc \in {"start", "zero", "one", "below", "above", "down", "walk", "past", "sources",
              "open", "refused"}
    /\ n \in Nat /\ first \in {0, 1} /\ near \in BOOLEAN
    /\ paths \in Seq(Nat \X Nat) /\ missing \in {<<>>} \cup (Nat \X Nat)
    /\ Len(sources) = Len(lengths) /\ IsPrefix(sources, paths)
    /\ lengths \in Seq(Nat)
    /\ rd.st \in {"none", "running", "ok", "beyond", "io", "stuck"}
    /\ Len(rd.out) <= rd.total /\ rd.total <= rd.len
    /\ rd.st \in {"running", "ok"} => rd.off + rd.total <= image_size

\* The numbers of the segments that join on to the named one without a hole.
Joined ==
    {k \in 0 .. num + Cardinality(Visible) :
        \A j \in Min({k, num}) .. Max({k, num}) : candidate(j) \in Visible}

\* What was found is every segment that joins on to the named one, in order, from 0 or 1
\* on and with nothing one place behind the end; one file alone only if it is no
\* segment, or has no neighbour, or has no padding and no start.
IsImage ==
    LET lone == paths = <<image.example>>
        neighbours == {k \in 0 .. U64_MAX : k \in {num - 1, num + 1}}
    IN  \/ ~has_numeric_suffix /\ lone
        \/ /\ Joined # {}
           /\ paths = [i \in 1 .. Cardinality(Joined) |-> candidate(Min(Joined) + i - 1)]
           /\ Min(Joined) \in {0, 1}
           /\ candidate(Max(Joined) + 2) \notin Visible
        \/ /\ lone
           /\ {candidate(0), candidate(1)} \cap Visible = {}
           /\ is_zero_padded => {candidate(k) : k \in neighbours} \cap Visible = {}

\* The reader that opens is over the image that was named, and all of it.  A probe that
\* could not tell never shortens it (segment_paths, open_with_options).
OpenedIsImage == pc = "open" => IsImage

\* A name that is reported missing is one that no probe can see.  It need not be absent:
\* a segment that is there and is answered with 403 is reported too, and the operator is
\* then sent after a file that only needs its permissions mended (segment_paths,
\* classify_head_status).
MissingIsUnseen == missing # <<>> => missing \notin Visible

\* The bytes of the image: its segments one after the other.
Content ==
    FlattenSeq([i \in DOMAIN paths |->
        [k \in 1 .. image.files[paths[i]] |-> <<paths[i], k - 1>>]])

\* A read returns the bytes of the concatenated segments at its offset, up to the end
\* of the image, whatever boundaries it crosses; it fails only past the end or when the
\* store does, and always gets on.
ReadsMatchSegments ==
    /\ rd.st = "ok" => rd.out = SubSeq(Content, rd.off + 1, Min({rd.off + rd.len, Len(Content)}))
    /\ rd.st = "beyond" => rd.off > Len(Content)
    /\ rd.st # "stuck"
=============================================================================
