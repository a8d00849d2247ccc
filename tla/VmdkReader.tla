---------------------------- MODULE VmdkReader -----------------------------
(***************************************************************************)
(* The VMDK reader: opening walks a chain of images, each with its own     *)
(* extents, and builds the map from sectors to the extent of the nearest   *)
(* image that has them; reading follows the map (vmdk_reader.rs,           *)
(* extents.rs, storage.rs).                                                *)
(*                                                                         *)
(* A disk is a record [top, images, lost, bad]: the file to open, per file *)
(* what its descriptor says, [parent, binary, extents], the files that are *)
(* not there and the bytes that cannot be had (past the end of a file, or  *)
(* in a grain that does not decompress).  An extent description is a       *)
(* record [kind, file, sectors, offset, header], the header being that of  *)
(* the file if it is a sparse one: [ft, capacity, granularity,             *)
(* num_gtes_per_gt, compressed, has_zero_grain, l1], Absent if it cannot   *)
(* be read or its tables are corrupt; l1 is a sequence of second-level     *)
(* tables, Absent where the parent has the data.                           *)
(* A byte is the place it is stored at, <<file, offset>>, or for a         *)
(* compressed grain <<file, sector, position>>, or Zero.                   *)
(***************************************************************************)
EXTENDS VmdkSpans, Sequences, SequencesExt

CONSTANTS
    Disks,        \* what may be opened
    Reads,        \* the reads made of it, <<offset, length>>
    SECTOR_SIZE,
    COWD_L2_LEN,                \* entries per table of a VMDK3 file
    SE_L2_LEN, SE_GRAIN_SIZE,   \* the only table and grain size of SESPARSE
    MAX_GTES, MAX_SIZE,         \* what a header may claim
    Zero, Absent

ASSUME VmdkAssumption ==
    /\ {SECTOR_SIZE, COWD_L2_LEN, SE_L2_LEN, SE_GRAIN_SIZE, MAX_GTES, MAX_SIZE} \subseteq Nat \ {0}
    /\ Reads \subseteq Nat \X Nat
    /\ Absent \notin Nat

ASSUME ImagesAssumption ==
    \A d \in Disks : IsFiniteSet(DOMAIN d.images) /\ Absent \notin DOMAIN d.images

\* What a parser makes of a descriptor and a header.  A VMDK3 header with granularity 0
\* is not refused, and the number of grains is the quotient by it.
ASSUME DisksAssumption ==
    \A d \in Disks : \A u \in DOMAIN d.images :
        LET eds == d.images[u].extents
        IN  /\ eds \in Seq(Range(eds))
            /\ \A i \in DOMAIN eds :
                LET h == eds[i].header
                IN  /\ {eds[i].sectors, eds[i].offset} \subseteq Nat
                    /\ h # Absent =>
                        /\ {h.capacity, h.granularity, h.num_gtes_per_gt} \subseteq Nat
                        /\ h.ft = "vmdk3" => h.granularity > 0

VARIABLES
    disk,       \* the disk
    pc,         \* where open_with_options is
    url,        \* the image it is at
    chain,      \* the images it has been at, nearest first
    idx,        \* the next index of a source
    sources,    \* the sources registered with the cache: file by index
    image_size, \* in bytes, Absent before the first image
    todo,       \* extents of this image that are still to be added
    pieces,     \* spans of the extent at hand that are still to be added
    cur,        \* the span being added: [beg, end, sbeg]
    spans,      \* start sector -> [end, val], val the number of an extent
    uncovered,  \* start sector -> end sector of what no image has yet
    extents,    \* the extents added so far
    rd          \* the read under way

build == <<url, chain, idx, sources, image_size, todo, pieces, cur, spans, uncovered, extents>>

vars == <<disk, pc, build, rd>>

NoSpan == [beg |-> 0, end |-> 0, sbeg |-> 0]

NoRead == [st |-> "none", off |-> 0, len |-> 0, pos |-> 0, end |-> 0, i |-> 0, out |-> <<>>]

Init ==
    /\ disk \in Disks
    /\ pc = "image"
    /\ url = disk.top
    /\ chain = <<>>
    /\ idx = 0
    /\ sources = <<>>
    /\ image_size = Absent
    /\ todo = <<>>
    /\ pieces = {}
    /\ cur = NoSpan
    /\ spans = <<>>
    /\ uncovered = <<>>
    /\ extents = <<>>
    /\ rd = NoRead

-----------------------------------------------------------------------------
(* Extents and their grain tables.                                         *)

SparseKinds == {"sparse", "sesparse"}

ExtentKinds == {"flat", "zero"} \cup SparseKinds

DivCeil(a, b) == (a + b - 1) \div b

\* VmdkSparseMeta and VmdkSeSparseMeta: what is made of a header.
Meta(h) ==
    [sectors |-> h.capacity,
     cluster_sectors |-> IF h.ft = "sesparse" THEN SE_GRAIN_SIZE ELSE h.granularity,
     l2_len |-> CASE h.ft = "vmdk3" -> COWD_L2_LEN
                  [] h.ft = "sesparse" -> SE_L2_LEN
                  [] h.ft = "vmdk4" -> h.num_gtes_per_gt,
     l1 |-> IF h.ft = "vmdk4"
            THEN SubSeq(h.l1, 1, DivCeil(h.capacity, h.num_gtes_per_gt * h.granularity))
            ELSE h.l1,
     compressed |-> h.ft = "vmdk4" /\ h.compressed,
     has_zero_grain |-> h.ft = "sesparse" \/ (h.ft = "vmdk4" /\ h.has_zero_grain)]

\* The header of a sparse extent is refused: of another type than the extent, or not
\* to be relied on, or larger than any disk may be.
HeaderFails(ed) ==
    LET h == ed.header
        m == Meta(h)
    IN  \/ h = Absent
        \/ h.ft \notin (IF ed.kind = "sesparse" THEN {"sesparse"} ELSE {"vmdk3", "vmdk4"})
        \/ h.ft = "vmdk4" /\ (h.granularity = 0 \/ h.num_gtes_per_gt \notin 1 .. MAX_GTES)
        \/ h.ft = "sesparse" /\ h.granularity # SE_GRAIN_SIZE
        \/ Len(m.l1) * m.l2_len * m.cluster_sectors * SECTOR_SIZE > MAX_SIZE

\* A second-level table has an entry for each of its grains.
ASSUME TablesAssumption ==
    \A d \in Disks : \A u \in DOMAIN d.images : \A ed \in Range(d.images[u].extents) :
        LET m == Meta(ed.header)
        IN  ed.kind \in SparseKinds /\ ~HeaderFails(ed) =>
                /\ m.l1 \in Seq(Range(m.l1))
                /\ \A k \in DOMAIN m.l1 : m.l1[k] # Absent => m.l1[k] \in [1 .. m.l2_len -> Nat]

\* Grains that have an entry in a second-level table: grain index -> sector.
GrainTable(m) ==
    LET total == DivCeil(m.sectors, m.cluster_sectors)
        L2(g) == m.l1[(g \div m.l2_len) + 1]
        E(g)  == L2(g)[(g % m.l2_len) + 1]
        there == {g \in 0 .. total - 1 :
                    /\ (g \div m.l2_len) + 1 \in DOMAIN m.l1
                    /\ L2(g) # Absent /\ E(g) # 0}
    IN  [g \in there |-> E(g)]

\* Extents of image u start where the last one ends.
StartSector(eds, i) ==
    LET end[k \in 0 .. Len(eds)] == IF k = 0 THEN 0 ELSE end[k - 1] + eds[k].sectors
    IN  end[i - 1]

HasFile(ed) == ed.kind # "zero"

\* The file behind an extent: if it is not there, a binary image with one extent is
\* taken to hold the extent itself.
FileOf(u, ed) ==
    LET im == disk.images[u]
    IN  IF ed.file \notin disk.lost THEN ed.file
        ELSE IF im.binary /\ Len(im.extents) = 1 THEN u ELSE Absent

\* Mutant: a ZERO extent takes an index although it has no source.
SourceIndexAll(eds, i, first) == first + i - 1

\* The index an extent's source is registered at.
SourceIndex(eds, i, first) ==
    first + Cardinality({j \in 1 .. i - 1 : HasFile(eds[j])})

\* Mutant: an extent whose file is missing is not noticed.
ImageFailsLate(u) ==
    \/ u \notin DOMAIN disk.images
    \/ \E i \in DOMAIN disk.images[u].extents :
        LET ed == disk.images[u].extents[i]
        IN  ed.kind \notin ExtentKinds \/ (ed.kind \in SparseKinds /\ HeaderFails(ed))

\* read_extents fails: a file is missing, a kind is not supported, a table corrupt.
ImageFails(u) ==
    \/ u \notin DOMAIN disk.images
    \/ \E i \in DOMAIN disk.images[u].extents :
        LET ed == disk.images[u].extents[i]
        IN  \/ ed.kind \notin ExtentKinds
            \/ HasFile(ed) /\ FileOf(u, ed) = Absent
            \/ ed.kind \in SparseKinds /\ HeaderFails(ed)

\* The extents of image u, their sources numbered from first on.
read_extents(u, first) ==
    LET eds == disk.images[u].extents
    IN  [i \in DOMAIN eds |->
            [ed |-> eds[i], start_sector |-> StartSector(eds, i), sectors |-> eds[i].sectors,
             src |-> SourceIndex(eds, i, first),
             meta |-> IF eds[i].kind \in SparseKinds THEN Meta(eds[i].header) ELSE Absent,
             grains |-> IF eds[i].kind \in SparseKinds THEN GrainTable(Meta(eds[i].header))
                        ELSE <<>>]]

\* Mutant: grains are not cut at the end of the extent.
SpansOfWhole(ex) ==
    IF ex.ed.kind \notin SparseKinds THEN {<<ex.start_sector, ex.start_sector + ex.sectors>>}
    ELSE {<<ex.start_sector + g * ex.meta.cluster_sectors,
            ex.start_sector + (g + 1) * ex.meta.cluster_sectors>> : g \in DOMAIN ex.grains}

\* Extent::spans: the sectors an extent has, a sparse one grain by grain and only up
\* to its end.
SpansOf(ex) ==
    LET end == ex.start_sector + ex.sectors
        Beg(g) == ex.start_sector + g * ex.meta.cluster_sectors
    IN  IF ex.ed.kind \notin SparseKinds THEN {<<ex.start_sector, end>>}
        ELSE {<<Beg(g), Min({Beg(g) + ex.meta.cluster_sectors, end})>> :
                g \in {h \in DOMAIN ex.grains : Beg(h) < end}}

-----------------------------------------------------------------------------
(* open_with_options, its loop over the images.                            *)

\* Mutant: an image that was there before is taken again.
SeenNever(u) == FALSE

Seen(u) == u \in Range(chain)

SizeOf(u) == StartSector(disk.images[u].extents, Len(disk.images[u].extents) + 1) * SECTOR_SIZE

Refuses(u) ==
    \/ Seen(u)
    \/ ImageFails(u)
    \/ image_size # Absent /\ image_size # SizeOf(u)

\* handle_image registers the image and its extents with the cache.
Registered(u) ==
    LET exs == read_extents(u, idx + 1)
        own == {i \in DOMAIN exs : HasFile(exs[i].ed)}
        File(n) == IF n = idx THEN u
                   ELSE FileOf(u, exs[CHOOSE i \in own : exs[i].src = n].ed)
        new == {idx} \cup {exs[i].src : i \in own}
    IN  [n \in DOMAIN sources \cup new |-> IF n \in new THEN File(n) ELSE sources[n]]

TakeImage ==
    /\ pc = "image"
    /\ IF Refuses(url)
       THEN /\ pc' = "refused"
            /\ UNCHANGED <<chain, idx, sources, image_size, todo, uncovered>>
       ELSE /\ pc' = "extent"
            /\ chain' = Append(chain, url)
            /\ sources' = Registered(url)
            /\ todo' = read_extents(url, idx + 1)
            /\ idx' = idx + 1
            /\ image_size' = SizeOf(url)
            /\ uncovered' = IF image_size = Absent
                            THEN Put(uncovered, 0, SizeOf(url) \div SECTOR_SIZE) ELSE uncovered
    /\ UNCHANGED <<disk, url, pieces, cur, spans, extents, rd>>

TakeExtent ==
    /\ pc = "extent"
    /\ todo # <<>>
    /\ pieces' = SpansOf(Head(todo))
    /\ pc' = "piece"
    /\ UNCHANGED <<disk, url, chain, idx, sources, image_size, todo, cur, spans, uncovered,
                   extents, rd>>

\* The next span of the extent; the grains of a hash map come in any order.
TakePiece(p) ==
    /\ pc = "piece"
    /\ p \in pieces
    /\ cur' = [beg |-> p[1], end |-> p[2], sbeg |-> p[1]]
    /\ pieces' = pieces \ {p}
    /\ pc' = "insert"
    /\ UNCHANGED <<disk, url, chain, idx, sources, image_size, todo, spans, uncovered,
                   extents, rd>>

\* The value of the span being added: the number its extent will have.
Val == Len(extents) + 1

ZeroExtent(beg, end) ==
    [ed |-> [kind |-> "zero"], start_sector |-> beg, sectors |-> end - beg, src |-> idx,
     meta |-> Absent, grains |-> <<>>]

\* One turn of insert_span, for a span of an extent or for a gap.
InsertSpan ==
    LET r == InsertTurn(spans, cur.sbeg, cur.end, Val)
    IN  /\ pc \in {"insert", "gap"}
        /\ spans' = r.map
        /\ \/ /\ ~r.done
              /\ cur' = [cur EXCEPT !.sbeg = r.sbeg]
              /\ UNCHANGED <<pc, extents>>
           \/ /\ r.done /\ pc = "insert"
              /\ cur' = [cur EXCEPT !.sbeg = cur.beg]
              /\ pc' = "remove"
              /\ UNCHANGED extents
           \/ /\ r.done /\ pc = "gap"
              /\ cur' = NoSpan
              /\ pc' = "fill"
              /\ extents' = Append(extents, ZeroExtent(cur.beg, cur.end))
        /\ UNCHANGED <<disk, url, chain, idx, sources, image_size, todo, pieces, uncovered, rd>>

RemoveSpan ==
    LET r == RemoveTurn(uncovered, cur.sbeg, cur.end)
    IN  /\ pc = "remove"
        /\ uncovered' = r.map
        /\ cur' = IF r.done THEN NoSpan ELSE [cur EXCEPT !.sbeg = r.sbeg]
        /\ pc' = IF r.done THEN "piece" ELSE "remove"
        /\ UNCHANGED <<disk, url, chain, idx, sources, image_size, todo, pieces, spans,
                       extents, rd>>

\* The extent is in.  Nothing more is looked at once every sector is covered.
ExtentDone ==
    /\ pc = "piece"
    /\ pieces = {}
    /\ extents' = Append(extents, Head(todo))
    /\ idx' = IF HasFile(Head(todo).ed) THEN idx + 1 ELSE idx
    /\ todo' = Tail(todo)
    /\ pc' = IF DOMAIN uncovered = {} THEN "fill" ELSE "extent"
    /\ UNCHANGED <<disk, url, chain, sources, image_size, pieces, cur, spans, uncovered, rd>>

\* The image is in; on to its parent, if it has one.
ImageDone ==
    LET parent == disk.images[url].parent
    IN  /\ pc = "extent"
        /\ todo = <<>>
        /\ pc' = IF parent = Absent THEN "fill" ELSE "image"
        /\ url' = IF parent = Absent THEN url ELSE parent
        /\ UNCHANGED <<disk, chain, idx, sources, image_size, todo, pieces, cur, spans,
                       uncovered, extents, rd>>

\* What no image has is zeros, one extent for each gap.
TakeGap ==
    LET beg == Min(DOMAIN uncovered)
    IN  /\ pc = "fill"
        /\ DOMAIN uncovered # {}
        /\ cur' = [beg |-> beg, end |-> uncovered[beg], sbeg |-> beg]
        /\ uncovered' = Drop(uncovered, beg)
        /\ pc' = "gap"
        /\ UNCHANGED <<disk, url, chain, idx, sources, image_size, todo, pieces, spans,
                       extents, rd>>

Opened ==
    /\ pc = "fill"
    /\ DOMAIN uncovered = {}
    /\ pc' = "open"
    /\ todo' = <<>>
    /\ UNCHANGED <<disk, url, chain, idx, sources, image_size, pieces, cur, spans, uncovered,
                   extents, rd>>

-----------------------------------------------------------------------------
(* read_at_offset and the storages.  A read has a cursor of its own and    *)
(* shares nothing with another.                                            *)

\* The starts of the spans in order.
Starts ==
    LET Rank(b) == Cardinality({c \in DOMAIN spans : c <= b})
    IN  [i \in 1 .. Cardinality(DOMAIN spans) |-> CHOOSE b \in DOMAIN spans : Rank(b) = i]

\* ExtentStorage::read: up to n bytes of extent ex at pos, or an error.
StorageRead(ex, pos, n) ==
    LET local == pos - ex.start_sector * SECTOR_SIZE
        gsize == ex.meta.cluster_sectors * SECTOR_SIZE
        g     == local \div gsize
        at    == local % gsize
        m     == Min({gsize - at, n})
        file  == sources[ex.src]
        Byte(i) == IF ex.meta.has_zero_grain /\ ex.grains[g] = 1 THEN Zero
                   ELSE IF ex.meta.compressed THEN <<file, ex.grains[g], at + i - 1>>
                   ELSE <<file, ex.grains[g] * SECTOR_SIZE + at + i - 1>>
        got   == CASE ex.ed.kind = "zero" -> [i \in 1 .. n |-> Zero]
                   [] ex.ed.kind = "flat" ->
                        [i \in 1 .. n |-> <<file, local + ex.ed.offset * SECTOR_SIZE + i - 1>>]
                   [] ex.ed.kind \in SparseKinds -> [i \in 1 .. m |-> Byte(i)]
    IN  IF \/ ex.ed.kind \in SparseKinds /\ g \notin DOMAIN ex.grains
           \/ Range(got) \cap disk.bad # {}
        THEN [ok |-> FALSE] ELSE [ok |-> TRUE, bytes |-> got]

BeginRead(off, len) ==
    LET end == off + Min({len, image_size - off})
        i   == Cardinality({s \in DOMAIN spans : s * SECTOR_SIZE <= off})
        new == [NoRead EXCEPT !.off = off, !.len = len]
    IN  /\ pc = "open"
        /\ rd.st = "none"
        /\ rd' = IF off > image_size \/ i = 0 THEN [new EXCEPT !.st = "err"]
                 ELSE [new EXCEPT !.st = "running", !.pos = off, !.end = end, !.i = i]
        /\ UNCHANGED <<disk, pc, build>>

\* One turn of the loop over the spans.
ReadSpan ==
    LET span == spans[Starts[rd.i]]
        stop == span.end * SECTOR_SIZE
        got  == StorageRead(extents[span.val], rd.pos, Min({stop, rd.end}) - rd.pos)
        pos  == rd.pos + Len(got.bytes)
    IN  /\ rd.st = "running"
        /\ rd.pos < rd.end
        /\ \/ /\ ~got.ok
              /\ rd' = [rd EXCEPT !.st = "err"]
           \/ /\ got.ok
              /\ rd' = [rd EXCEPT !.pos = pos, !.out = @ \o got.bytes,
                                  !.i = IF pos >= stop THEN @ + 1 ELSE @]
        /\ UNCHANGED <<disk, pc, build>>

EndRead ==
    /\ rd.st = "running"
    /\ rd.pos >= rd.end
    /\ rd' = [rd EXCEPT !.st = "ok"]
    /\ UNCHANGED <<disk, pc, build>>

\* The read returns to its caller.
Return ==
    /\ rd.st \in {"ok", "err"}
    /\ rd' = NoRead
    /\ UNCHANGED <<disk, pc, build>>

\* The image is refused: there is no reader.
Rest == pc = "refused" /\ UNCHANGED vars

-----------------------------------------------------------------------------
Next ==
    \/ TakeImage \/ TakeExtent \/ (\E p \in pieces : TakePiece(p))
    \/ InsertSpan \/ RemoveSpan \/ ExtentDone \/ ImageDone \/ TakeGap \/ Opened
    \/ (\E r \in Reads : BeginRead(r[1], r[2])) \/ ReadSpan \/ EndRead \/ Return
    \/ Rest

Spec == Init /\ [][Next]_vars

-----------------------------------------------------------------------------
(* Properties.                                                             *)

Files == {disk.top} \cup DOMAIN disk.images \cup disk.lost \cup {Absent}
             \cup {disk.images[u].parent : u \in DOMAIN disk.images}
             \cup {ed.file : ed \in UNION {Range(disk.images[u].extents) : u \in DOMAIN disk.images}}

\* Every variable stays within its type: sources have one file each, spans lead to
\* extents that are there, and a read keeps within its buffer.
TypeOK ==
    /\ disk \in Disks
    /\ pc \in {"image", "extent", "piece", "insert", "remove", "fill", "gap", "open", "refused"}
    /\ url \in Files
    /\ chain \in Seq(Files)
    /\ idx \in Nat
    /\ \A n \in DOMAIN sources : n \in Nat /\ sources[n] \in Files \ {Absent}
    /\ image_size \in Nat \cup {Absent}
    /\ \A s \in DOMAIN spans : s \in Nat /\ spans[s].end \in Nat /\ spans[s].val \in 1 .. Val
    /\ \A s \in DOMAIN uncovered : s \in Nat /\ uncovered[s] \in Nat
    /\ pieces \subseteq Nat \X Nat
    /\ cur \in [{"beg", "end", "sbeg"} -> Nat]
    /\ rd.st \in {"none", "running", "ok", "err"}
    /\ rd.pos <= rd.end /\ Len(rd.out) <= rd.len

Sectors == 0 .. (image_size \div SECTOR_SIZE) - 1

\* Sectors some span of the map has.
Mapped == {s \in Sectors : \E b \in DOMAIN spans : b <= s /\ s < spans[b].end}

Missing == {s \in Sectors : \E b \in DOMAIN uncovered : b <= s /\ s < uncovered[b]}

\* No descriptor has an extent of no sectors, although the parser takes one.
ExtentsHaveSectors ==
    \A u \in DOMAIN disk.images : \A ed \in Range(disk.images[u].extents) : ed.sectors > 0

\* Between two spans a sector that no span has is still uncovered, so that the walk up
\* the chain never stops early; and no sector is uncovered that has one, so that it does
\* stop, unless an empty extent has split the map into spans that touch (remove_span
\* and insert_span, called in pairs).
UncoveredExact ==
    pc \in {"image", "extent", "piece"} /\ image_size # Absent =>
        /\ Sectors \ Mapped \subseteq Missing
        /\ ExtentsHaveSectors => Missing = Sectors \ Mapped

\* "Stop if we have extents for all spans": with every sector in the map no further
\* extent or image is looked at (open_with_options).
StopsWhenCovered ==
    pc \in {"image", "extent"} /\ extents # <<>> => Mapped # Sectors

\* An open image is tiled: its spans follow one another from sector 0 to the end, with
\* no gap and no overlap, and each leads to an extent that lies around it.  Only this
\* lets read_at_offset go from a span to the next by adding one, and never spin on an
\* empty span.
SpansTile ==
    pc = "open" =>
        LET n == Len(Starts)
        IN  /\ n > 0 /\ Starts[1] = 0
            /\ \A i \in 1 .. n :
                LET b == Starts[i] IN
                /\ i < n => spans[b].end = Starts[i + 1]
                /\ i = n => spans[b].end * SECTOR_SIZE = image_size
                /\ spans[b].val \in DOMAIN extents
                /\ LET ex == extents[spans[b].val]
                   IN  ex.start_sector <= b /\ spans[b].end <= ex.start_sector + ex.sectors

\* No image is in the chain twice, whatever the parent hints say: the walk ends.
ImagesOnce == IsInjective(chain)

\* The extent of image u that sector s is in.
ExtentAt(u, s) ==
    LET eds == disk.images[u].extents
    IN  CHOOSE i \in DOMAIN eds : StartSector(eds, i) <= s /\ s < StartSector(eds, i + 1)

\* What the tables of a header say of its grain g, all of them in a row; 0 where the
\* parent has it.
GrainEntry(h, g) ==
    LET t == FlattenSeq([k \in DOMAIN h.l1 |->
                IF h.l1[k] = Absent THEN [x \in 1 .. h.l2_len |-> 0] ELSE h.l1[k]])
    IN  IF g + 1 > Len(t) \/ g * h.cluster_sectors >= h.sectors THEN 0 ELSE t[g + 1]

\* Image u has byte p of the disk, as far as its descriptor and grain tables tell;
\* otherwise its parent has it.
HasByte(u, p) ==
    LET eds == disk.images[u].extents
        i   == ExtentAt(u, p \div SECTOR_SIZE)
        h   == Meta(eds[i].header)
        q   == p - StartSector(eds, i) * SECTOR_SIZE
    IN  eds[i].kind \in SparseKinds => GrainEntry(h, q \div (h.cluster_sectors * SECTOR_SIZE)) # 0

\* That byte, told from the same.
ByteOf(u, p) ==
    LET eds == disk.images[u].extents
        i   == ExtentAt(u, p \div SECTOR_SIZE)
        ed  == eds[i]
        h   == Meta(ed.header)
        q   == p - StartSector(eds, i) * SECTOR_SIZE
        gb  == h.cluster_sectors * SECTOR_SIZE
        e   == GrainEntry(h, q \div gb)
    IN  CASE ed.kind = "zero" -> Zero
          [] ed.kind = "flat" -> <<FileOf(u, ed), q + ed.offset * SECTOR_SIZE>>
          [] ed.kind \in SparseKinds ->
                IF e = 1 /\ h.has_zero_grain THEN Zero
                ELSE IF h.compressed THEN <<FileOf(u, ed), e, q % gb>>
                ELSE <<FileOf(u, ed), e * SECTOR_SIZE + (q % gb)>>

\* The image opened and its ancestors, as far as there are any, nearest first.
Lineage ==
    LET n == Cardinality(DOMAIN disk.images)
        Parent(u) == disk.images[u].parent
        line[k \in 1 .. n] ==
            IF k = 1 THEN <<disk.top>>
            ELSE IF Parent(Last(line[k - 1])) \notin DOMAIN disk.images THEN line[k - 1]
            ELSE Append(line[k - 1], Parent(Last(line[k - 1])))
    IN  line[n]

\* The byte of the nearest image that has one, Zero if none has.
NearestByte(p) ==
    LET has == {i \in DOMAIN Lineage : HasByte(Lineage[i], p)}
    IN  IF has = {} THEN Zero ELSE ByteOf(Lineage[Min(has)], p)

\* A read returns, byte for byte, what the nearest image that has the byte stores at
\* that place, zeros where none has it, and as much of it as there is before the end
\* of the disk; it fails only past the end or over a byte that cannot be had.
ReadsMatchChain ==
    LET end  == Min({rd.off + rd.len, image_size})
        want == [i \in 1 .. end - rd.off |-> NearestByte(rd.off + i - 1)]
    IN  /\ rd.st = "ok" => rd.out = want
        /\ rd.st = "err" => rd.off > image_size \/ Range(want) \cap disk.bad # {}
=============================================================================
