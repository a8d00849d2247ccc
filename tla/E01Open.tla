------------------------------ MODULE E01Open ------------------------------
(***************************************************************************)
(* What opening an EWF image computes from its segment files: the walk     *)
(* over a file's sections, the chunk table, the merge of the segments and  *)
(* the checks on the result (sec_read.rs, and read_segment to open_impl of *)
(* e01_reader.rs).                                                         *)
(*                                                                         *)
(* A segment file is a record [number, sections].  A section stands at its *)
(* position in the sequence and is a record [typ, next, sound, val]: next  *)
(* is the position its descriptor points at, sound says that its checksums *)
(* hold, and val is a volume record, the table's entries [off, compressed] *)
(* with the base offset added in, the end of the sectors, or a hash.       *)
(* Parsing is left out; every refusal is the record Refused.               *)
(***************************************************************************)
EXTENDS Integers, Sequences, FiniteSets, SequencesExt

CONSTANTS MAX_TABLE_ENTRIES, Absent

Refused == [ok |-> FALSE]

\* The first of two optional values that is there.
OrElse(a, b) == IF a # Absent THEN a ELSE b

-----------------------------------------------------------------------------
(* sec_read.rs.                                                            *)

chunk_size(v) == v.sectors_per_chunk * v.bytes_per_sector

max_offset(v) == v.total_sector_count * v.bytes_per_sector

\* SectionIterator: positions visited, in order.  A pointer that does not move
\* forward ends the walk.
SectionWalk(secs) ==
    LET walk[i \in 1 .. Len(secs) + 1] ==
            IF i > Len(secs) THEN <<>>
            ELSE <<i>> \o (IF secs[i].next > i /\ secs[i].next <= Len(secs)
                           THEN walk[secs[i].next] ELSE <<>>)
    IN  walk[1]

\* An entry ends where the next one starts; the last end is filled in later.
read_table(entries) ==
    [i \in DOMAIN entries |->
        [segment     |-> 0,
         data_offset |-> entries[i].off,
         end_offset  |-> IF i < Len(entries) THEN entries[i + 1].off ELSE 0,
         compressed  |-> entries[i].compressed]]

\* The table is refused when it is too long or goes backwards.
TableIsBad(entries) ==
    \/ Len(entries) > MAX_TABLE_ENTRIES
    \/ \E i \in 2 .. Len(entries) : entries[i].off < entries[i - 1].off

HasChecksum == {"volume", "table", "hash", "digest"}

\* read_section fails.
SectionFails(s, ignore_checksums) ==
    \/ s.typ = "garbled"
    \/ s.typ \in HasChecksum /\ ~s.sound /\ ~ignore_checksums
    \/ s.typ = "table" /\ TableIsBad(s.val)

-----------------------------------------------------------------------------
(* read_segment.                                                           *)

NoComponents ==
    [volume |-> Absent, md5 |-> Absent, sha1 |-> Absent, chunks |-> <<>>,
     end_of_sectors |-> 0, done |-> FALSE]

\* The last chunk of a table ends with the sectors section seen before it.
EndOfTable(chunks, eos) == [chunks EXCEPT ![Len(chunks)].end_offset = eos]

TakeSection(acc, s) ==
    CASE acc.done -> acc
      [] s.typ = "volume" -> [acc EXCEPT !.volume = s.val]
      [] s.typ = "table" /\ s.val # <<>> ->
            [acc EXCEPT !.chunks = EndOfTable(@ \o read_table(s.val), acc.end_of_sectors)]
      [] s.typ = "sectors" -> [acc EXCEPT !.end_of_sectors = s.val]
      [] s.typ = "hash" -> [acc EXCEPT !.md5 = s.val]
      [] s.typ = "digest" -> [acc EXCEPT !.md5 = s.val, !.sha1 = s.val]
      [] s.typ = "done" -> [acc EXCEPT !.done = TRUE]
      [] OTHER -> acc

\* Sections read for their content: up to the first one that says done.
Visited(file) ==
    LET walk == SectionWalk(file.sections)
        secs == [i \in DOMAIN walk |-> file.sections[walk[i]]]
        ends == {i \in DOMAIN secs : secs[i].typ = "done"}
    IN  IF ends = {} THEN secs
        ELSE SubSeq(secs, 1, CHOOSE i \in ends : \A j \in ends : i <= j)

SegmentFails(file, ignore_checksums) ==
    \E i \in DOMAIN Visited(file) : SectionFails(Visited(file)[i], ignore_checksums)

read_segment(file, index) ==
    LET parts == FoldLeft(TakeSection, NoComponents, Visited(file))
    IN  [parts EXCEPT !.chunks = [i \in DOMAIN @ |-> [@[i] EXCEPT !.segment = index]]]

-----------------------------------------------------------------------------
(* process_segments and open_impl.                                         *)

\* Segment numbers count from 1.
OutOfOrder(files) == \E i \in DOMAIN files : files[i].number # i

Merge(acc, seg) ==
    [volume |-> OrElse(acc.volume, seg.volume),
     md5    |-> OrElse(acc.md5, seg.md5),
     sha1   |-> OrElse(acc.sha1, seg.sha1),
     chunks |-> acc.chunks \o seg.chunks]

\* Mutant: the declared size is believed.
validate_chunk_coverage_never(image_size, chunk_count, size) == FALSE

\* The declared size exceeds what the chunks hold.
validate_chunk_coverage(image_size, chunk_count, size) == image_size > chunk_count * size

\* A volume whose chunks are of no size, which reads would divide by.
validate_volume(v) == chunk_size(v) = 0

process_segments(files) ==
    FoldLeft(Merge, NoComponents, [i \in DOMAIN files |-> read_segment(files[i], i)])

open_impl(files, ignore_checksums) ==
    LET meta == process_segments(files)
        n    == Len(meta.chunks)
    IN  IF \/ files = <<>>
           \/ \E i \in DOMAIN files : SegmentFails(files[i], ignore_checksums)
           \/ OutOfOrder(files)
           \/ read_segment(files[1], 1).volume = Absent
           \/ validate_volume(meta.volume)
           \/ n # meta.volume.chunk_count
           \/ validate_chunk_coverage(max_offset(meta.volume), n, chunk_size(meta.volume))
        THEN Refused
        ELSE [ok |-> TRUE, chunks |-> meta.chunks,
              chunk_size |-> chunk_size(meta.volume),
              image_size |-> max_offset(meta.volume),
              md5 |-> meta.md5, sha1 |-> meta.sha1,
              segments |-> Len(files)]

-----------------------------------------------------------------------------
(* Where the k-th chunk of an image lies, told from the files alone: the    *)
(* entries of all the tables, file by file, an entry reaching to the next  *)
(* one of its table or else to the end of the sectors before the table.    *)

Tables(file) == {i \in DOMAIN Visited(file) : Visited(file)[i].typ = "table"}

EntriesIn(files, f) ==
    UNION {{<<f, t, e>> : e \in DOMAIN Visited(files[f])[t].val} : t \in Tables(files[f])}

Entries(files) == UNION {EntriesIn(files, f) : f \in DOMAIN files}

Precedes(a, b) ==
    \/ a[1] < b[1]
    \/ a[1] = b[1] /\ a[2] < b[2]
    \/ a[1] = b[1] /\ a[2] = b[2] /\ a[3] < b[3]

\* Chunk k is the entry with k - 1 entries before it.
EntryOf(files, k) ==
    CHOOSE x \in Entries(files) :
        Cardinality({y \in Entries(files) : Precedes(y, x)}) = k - 1

SectorsBefore(file, t) ==
    LET before == {i \in 1 .. t - 1 : Visited(file)[i].typ = "sectors"}
    IN  Visited(file)[CHOOSE i \in before : \A j \in before : j <= i].val

Layout(files, k) ==
    LET x    == EntryOf(files, k)
        file == files[x[1]]
        tab  == Visited(file)[x[2]].val
    IN  [segment     |-> x[1],
         data_offset |-> tab[x[3]].off,
         end_offset  |-> IF x[3] < Len(tab) THEN tab[x[3] + 1].off
                         ELSE SectorsBefore(file, x[2]),
         compressed  |-> tab[x[3]].compressed]
=============================================================================
