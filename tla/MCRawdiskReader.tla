-------------------------- MODULE MCRawdiskReader --------------------------
(***************************************************************************)
(* Every subset of a few names, opened at each of them, with numbers       *)
(* written in binary: two digits run over after four segments.             *)
(***************************************************************************)
EXTENDS RawdiskReader

\* Two digits with the run-over to three, and three digits.
Short == {<<0, 2>>, <<1, 2>>, <<2, 2>>, <<3, 2>>, <<4, 3>>}

Long == {<<k, 3>> : k \in 0 .. 4}

\* The largest number of all, and a name with one digit.
Edge == {<<6, 4>>, <<7, 4>>, <<1, 1>>, <<2, 1>>}

\* One segment is longer than a usize can tell.
LengthOf(f) == IF f[1] = 1 THEN 9 ELSE IF f[1] = 2 THEN 2 ELSE 1

Whole(names) == [f \in names |-> LengthOf(f)]

Image(files, e, loc) == [files |-> files, denied |-> {}, example |-> e, local |-> loc]

MCImages ==
    UNION {{Image(Whole(s), e, FALSE) : s \in SUBSET pool, e \in pool} : pool \in {Short, Long, Edge}}
    \cup {Image(Whole({<<0, 2>>, <<1, 2>>}), <<2, 2>>, TRUE)}
    \cup {Image([f \in {<<0, 2>>, <<1, 2>>, <<2, 2>>} |-> IF f = e THEN 0 ELSE 1], <<1, 2>>, TRUE)
            : e \in Short}
    \cup {Image(<<1, 2>> :> 0, <<1, 2>>, TRUE)}
    \cup {[Image(Whole(Short), <<1, 2>>, FALSE) EXCEPT !.denied = {d}] : d \in Short}

MCReads == (0 .. 15) \X {0, 1, 4, 7}
=============================================================================
