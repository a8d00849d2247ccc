---------------------------- MODULE MCE01Reader ----------------------------
(***************************************************************************)
(* Small images for E01Reader: chunks of 2 bytes, an image of 5, two       *)
(* segment files.                                                          *)
(***************************************************************************)
EXTENDS E01Reader, TLC

\* The threads differ in nothing but their names.
ThreadSymmetry == Permutations(Threads)

Sec(typ, next, val) == [typ |-> typ, next |-> next, sound |-> TRUE, val |-> val]

Volume(count, sectors) ==
    [chunk_count |-> count, sectors_per_chunk |-> 2, bytes_per_sector |-> 1,
     total_sector_count |-> sectors]

Raw(off) == [off |-> off, compressed |-> FALSE]

Deflated(off) == [off |-> off, compressed |-> TRUE]

\* A raw chunk and a compressed one; the last section points at itself.
First(table, eos, vol) ==
    [number |-> 1,
     sections |-> <<Sec("volume", 2, vol), Sec("other", 3, 0), Sec("sectors", 4, eos),
                    Sec("table", 5, table), Sec("next", 5, 0)>>]

\* The last, partial chunk; done, and a section after it that is never looked at.
Second(number, table, eos) ==
    [number |-> number,
     sections |-> <<Sec("sectors", 2, eos), Sec("table", 3, table), Sec("hash", 4, 7),
                    Sec("digest", 5, 8), Sec("done", 6, 0), Sec("garbled", 6, 0)>>]

\* Stored lengths 6, 3 and 3.
Sound ==
    <<First(<<Raw(10), Deflated(16)>>, 19, Volume(3, 5)), Second(2, <<Deflated(10)>>, 13)>>

\* The first chunk is raw and one byte short.
Short ==
    <<First(<<Raw(10), Deflated(15)>>, 18, Volume(3, 5)), Second(2, <<Deflated(10)>>, 13)>>

\* All chunks raw; the last is longer than its part of the image.
AllRaw ==
    <<First(<<Raw(10), Raw(16)>>, 22, Volume(3, 5)), Second(2, <<Raw(10)>>, 16)>>

\* The sectors end before the last chunk of the first table starts, and a chunk of
\* the second file is too long.
BadBounds ==
    <<First(<<Raw(10), Deflated(16)>>, 12, Volume(3, 5)), Second(2, <<Deflated(10)>>, 30)>>

Refusals ==
    {<<>>,
     <<Second(1, <<Deflated(10)>>, 13)>>,
     <<Sound[1], Second(3, <<Deflated(10)>>, 13)>>,
     <<Sound[2], Sound[1]>>,
     <<First(<<Raw(16), Deflated(10)>>, 19, Volume(2, 4))>>,
     <<First(<<Raw(10), Deflated(16)>>, 19, Volume(3, 5))>>,
     <<First(<<Raw(10), Deflated(16)>>, 19, Volume(2, 5))>>,
     <<First(<<Raw(10), Deflated(16)>>, 19, [Volume(2, 4) EXCEPT !.sectors_per_chunk = 0])>>,
     <<[Sound[1] EXCEPT !.sections[4].sound = FALSE], Sound[2]>>}

Config(files, bad, faults, policy, decoded, parallel, traced) ==
    [files |-> files, glob |-> Absent, auth |-> TRUE, bad |-> bad, cut |-> {}, faults |-> faults, policy |-> policy,
     ignore |-> FALSE, decoded |-> decoded, parallel |-> parallel, traced |-> traced]

\* An image in four files: E01, e02, EAA and EAB if the numbers end at 2.  The third
\* holds no chunk.
Middle(number, table, eos) ==
    [number |-> number,
     sections |-> <<Sec("sectors", 2, eos), Sec("table", 3, table), Sec("next", 3, 0)>>]

Four ==
    <<First(<<Raw(10)>>, 16, Volume(3, 5)), Middle(2, <<Deflated(10)>>, 13),
      Middle(3, <<>>, 13), Second(4, <<Deflated(10)>>, 13)>>

E == 2

FourDir ==
    (Name(<<E, 1>>, TRUE) :> Four[1]) @@ (Name(<<E, 2>>, FALSE) :> Four[2])
    @@ (Name(<<E, 1, 1>>, TRUE) :> Four[3]) @@ (Name(<<E, 1, 2>>, TRUE) :> Four[4])

\* An image whose last file holds nothing but the hash and the done section.
Tailed ==
    <<First(<<Raw(10), Deflated(16)>>, 19, Volume(3, 5)), Middle(2, <<Deflated(10)>>, 13),
      [number |-> 3, sections |-> <<Sec("hash", 2, 7), Sec("done", 3, 0)>>]>>

Hidden(name) == [n \in DOMAIN FourDir \ {name} |-> FourDir[n]]

Glob(proto, dir, unclear, gone, scheme) ==
    [Config(Four, {}, FALSE, "Error", TRUE, FALSE, FALSE) EXCEPT
        !.glob = [proto |-> proto, dir |-> dir, unclear |-> unclear, gone |-> gone,
                  scheme |-> scheme]]

\* The last file of an image is missing, or the next to last as well.
Headless(n) ==
    [Glob(<<E, 1>>, [name \in {Name(<<E, k>>, TRUE) : k \in 1 .. n} |-> Tailed[name.ext[2]]],
          {}, {}, "file") EXCEPT !.files = Tailed]

\* Found from any of the names; a hole in the middle, at the end and at the start; a
\* probe without an answer before, at and after the end; a file that goes; a file of
\* another image in the way, one behind the end and one that has the due number; a tail
\* that is missing; names and schemes nobody takes.
MCGlobs ==
    {Glob(e, FourDir, {}, {}, "s3") : e \in {<<E, 1>>, <<E, 2>>, <<E, 1, 2>>}}
    \cup {Glob(<<E, 1>>, Hidden(n), {}, {}, "file") : n \in DOMAIN FourDir}
    \cup {Glob(<<E, 1>>, FourDir, {Name(e, u)}, {}, "s3") :
            e \in {<<E, 2>>, <<E, 1, 2>>, <<E, 1, 3>>, <<E, 2, 1>>}, u \in BOOLEAN}
    \cup {Headless(n) : n \in 1 .. 3}
    \cup {Glob(<<E, 1>>, FourDir, {}, {Name(<<E, 1, 1>>, TRUE)}, "file"),
          Glob(<<E, 1>>, [FourDir EXCEPT ![Name(<<E, 1, 2>>, TRUE)] =
                            Second(4, <<Deflated(12)>>, 15)], {}, {}, "file"),
          Glob(<<E, 1>>, FourDir @@ (Name(<<E, 2>>, TRUE) :> Sound[2]), {}, {}, "file"),
          Glob(<<E, 1>>, FourDir @@ (Name(<<E, 1, 3>>, FALSE) :> Sound[2]), {}, {}, "file"),
          Glob(<<E, 0>>, FourDir, {}, {}, "file"),
          Glob(<<1, 1>>, FourDir, {}, {}, "file"),
          Glob(<<>>, FourDir, {}, {}, "file"),
          Glob(<<E, 1>>, FourDir, {}, {}, "ftp"),
          [Glob(<<E, 1>>, FourDir, {}, {}, "s3") EXCEPT !.auth = FALSE]}

\* The stream of a chunk is cut short, or has no stored bytes at all.
Broken(deflated, cut, policy, decoded, parallel) ==
    [Config(deflated, {}, FALSE, policy, decoded, parallel, FALSE) EXCEPT !.cut = cut]

AllDeflated ==
    <<First(<<Deflated(10), Deflated(13)>>, 16, Volume(3, 5)), Second(2, <<Deflated(10)>>, 13)>>

Empty ==
    <<First(<<Deflated(10), Deflated(13)>>, 13, Volume(3, 5)), Second(2, <<Deflated(10)>>, 13)>>

\* Images that are refused, or read through the cache of decoded chunks, or read
\* without it where nothing fails.
MCReadConfigs ==
    MCGlobs
    \cup {Config(f, {}, FALSE, "Error", TRUE, TRUE, FALSE) : f \in Refusals}
    \cup {Config(Sound, {1, 2}, FALSE, "Zero", TRUE, TRUE, FALSE),
          Config(Sound, {1, 2}, FALSE, "RawIfPossible", TRUE, FALSE, FALSE),
          Config(Sound, {3}, TRUE, "Error", TRUE, TRUE, TRUE),
          [Config([AllRaw EXCEPT ![1].sections[4].sound = FALSE], {1}, TRUE, "Error",
                  TRUE, FALSE, FALSE) EXCEPT !.ignore = TRUE],
          Config(BadBounds, {}, FALSE, "Error", FALSE, TRUE, FALSE),
          Config(AllRaw, {2}, FALSE, "Zero", FALSE, TRUE, FALSE),
          Broken(AllDeflated, {2}, "Error", FALSE, FALSE),
          Broken(Empty, {}, "Zero", TRUE, FALSE)}

MCReads == {<<0, 6>>, <<1, 2>>, <<3, 0>>, <<6, 1>>}

\* The decoded-chunk cache is off and the source may fail.
MCPoolConfigs == {Config(AllRaw, {}, TRUE, "Error", FALSE, FALSE, FALSE)}

\* The decoded-chunk cache is on and one chunk is short.
MCPoisonConfigs == {Config(Short, {}, FALSE, "Error", TRUE, TRUE, FALSE)}

\* What the theorem on what reads return supposes of the images.
ASSUME MCAssumption == TableIsLayout

MCShortReads == {<<0, 1>>, <<0, 2>>, <<2, 2>>}
=============================================================================
