----------------------------- MODULE E01SegPath -----------------------------
(***************************************************************************)
(* Finding the segment files of an EWF image from the name of one of them  *)
(* (e01/src/seg_path.rs).                                                  *)
(*                                                                         *)
(* An extension is a sequence: <<c, n>> for a letter and a number (E01 is  *)
(* <<E, 1>>), <<c, a, b>> for three letters, <<>> for none.  Letters count *)
(* from 1; the code has LETTERS = 26, NUMBERS = 99, FIRST_LETTER = E and   *)
(* PROTO_LETTERS = {E, L, S}.  A name is a record [ext, upper], all names  *)
(* having the same base, and upper telling how the extension is written.   *)
(***************************************************************************)
EXTENDS Integers, Sequences, FiniteSetsExt

CONSTANTS LETTERS, NUMBERS, FIRST_LETTER, PROTO_LETTERS

ASSUME SegPathAssumption ==
    /\ LETTERS \in Nat \ {0} /\ NUMBERS \in Nat \ {0}
    /\ FIRST_LETTER \in 1 .. LETTERS
    /\ PROTO_LETTERS \subseteq FIRST_LETTER .. LETTERS

\* Letters in either case; number 00 is not legal.
valid_segment_ext(ext) ==
    /\ ext # <<>>
    /\ ext[1] \in FIRST_LETTER .. LETTERS
    /\ \/ Len(ext) = 2 /\ ext[2] \in 1 .. NUMBERS
       \/ Len(ext) = 3 /\ ext[2] \in 1 .. LETTERS /\ ext[3] \in 1 .. LETTERS

valid_proto_segment_ext(ext) == valid_segment_ext(ext) /\ ext[1] \in PROTO_LETTERS

\* Mutant: after the numbers the letters go on from the second pair.
segment_ext_iter_skips(start) ==
    [k \in 1 .. NUMBERS + (LETTERS + 1 - start) * LETTERS * LETTERS |->
        LET n == k - NUMBERS
        IN  IF k <= NUMBERS THEN <<start, k>>
            ELSE <<start + n \div (LETTERS * LETTERS),
                   1 + ((n \div LETTERS) % LETTERS), 1 + (n % LETTERS)>>]

\* The order of the segments: x01 to x99, then xAA to ZZZ.
segment_ext_iter(start) ==
    [k \in 1 .. NUMBERS + (LETTERS + 1 - start) * LETTERS * LETTERS |->
        LET n == k - NUMBERS - 1
        IN  IF k <= NUMBERS THEN <<start, k>>
            ELSE <<start + n \div (LETTERS * LETTERS),
                   1 + ((n \div LETTERS) % LETTERS), 1 + (n % LETTERS)>>]

Name(ext, upper) == [ext |-> ext, upper |-> upper]

\* ExistsChecker::exists of the names `there', where the probes of `unclear' have
\* no answer.
exists(name, there, unclear) ==
    CASE name \in unclear -> "unclear"
      [] name \in there -> "found"
      [] OTHER -> "absent"

\* One turn of the walk: the upper-case name, and only if it is absent the
\* lower-case one.
ProbeExt(ext, there, unclear) ==
    LET uc == exists(Name(ext, TRUE), there, unclear)
        lc == exists(Name(ext, FALSE), there, unclear)
    IN  IF uc = "absent" THEN [st |-> lc, name |-> Name(ext, FALSE)]
        ELSE [st |-> uc, name |-> Name(ext, TRUE)]

\* The walk ends at the first extension that is not there under either name; a
\* probe without an answer is an error and never the end.
validated_segment_paths(proto, there, unclear) ==
    LET exts   == segment_ext_iter(proto[1])
        turn   == [k \in DOMAIN exts |-> ProbeExt(exts[k], there, unclear)]
        stops  == {k \in DOMAIN exts : turn[k].st # "found"}
        last   == IF stops = {} THEN Len(exts) + 1 ELSE Min(stops)
    IN  IF \/ ~valid_proto_segment_ext(proto)
           \/ last \in DOMAIN exts /\ turn[last].st = "unclear"
        THEN [ok |-> FALSE]
        ELSE [ok |-> TRUE, names |-> [k \in 1 .. last - 1 |-> turn[k].name]]
=============================================================================
