----------------------------- MODULE VmdkSpans -----------------------------
(***************************************************************************)
(* insert_span and remove_span of the VMDK reader (spans.rs), one turn of  *)
(* their loops at a time.  A map is a function from the start of a span to *)
(* its end, or to a record [end, val].  A turn is a record [map, sbeg,     *)
(* done]: the map after it and, unless done, where the next turn starts.   *)
(***************************************************************************)
EXTENDS Integers, FiniteSets, FiniteSetsExt

Put(m, k, v) == [x \in DOMAIN m \cup {k} |-> IF x = k THEN v ELSE m[x]]

Drop(m, k) == [x \in DOMAIN m \ {k} |-> m[x]]

\* Starts of spans at or before s, and after it.
UpTo(m, s) == {k \in DOMAIN m : k <= s}

After(m, s) == {k \in DOMAIN m : k > s}

Done(m, sbeg) == [map |-> m, sbeg |-> sbeg, done |-> TRUE]

Again(m, sbeg) == [map |-> m, sbeg |-> sbeg, done |-> FALSE]

\* The span from sbeg on is taken out of the one that starts at or before it.
TrimBelow(m, sbeg, l) == IF l < sbeg THEN Put(m, l, sbeg) ELSE Drop(m, l)

\* Spans above that start before send are taken out whole, the last one in part.
RemoveAbove(m, sbeg, send) ==
    LET u == Min(After(m, sbeg))
    IN  IF After(m, sbeg) = {} \/ u > send THEN Done(m, sbeg)
        ELSE IF send < m[u] THEN Done(Put(Drop(m, u), send, m[u]), sbeg)
        ELSE Again(Drop(m, u), m[u])

\* Mutant: what is left of a span after the end is forgotten.
RemoveTurnShort(m, sbeg, send) ==
    LET l == Max(UpTo(m, sbeg))
    IN  IF UpTo(m, sbeg) = {} \/ sbeg >= m[l] THEN RemoveAbove(m, sbeg, send)
        ELSE LET t == TrimBelow(m, sbeg, l)
             IN  IF send <= m[l] THEN Done(t, sbeg) ELSE RemoveAbove(t, m[l], send)

RemoveTurn(m, sbeg, send) ==
    LET l == Max(UpTo(m, sbeg))
    IN  IF UpTo(m, sbeg) = {} \/ sbeg >= m[l] THEN RemoveAbove(m, sbeg, send)
        ELSE LET t == TrimBelow(m, sbeg, l)
             IN  IF send < m[l] THEN Done(Put(t, send, m[l]), sbeg)
                 ELSE IF send = m[l] THEN Done(t, sbeg)
                 ELSE RemoveAbove(t, m[l], send)

Span(end, val) == [end |-> end, val |-> val]

\* The part of [sbeg, send) up to the next span is put in, merged with that one if
\* it has the same value.
InsertAbove(m, sbeg, send, val) ==
    LET u   == Min(After(m, sbeg))
        end == m[u].end
        new == IF m[u].val = val THEN Put(Drop(m, u), sbeg, Span(end, val))
               ELSE Put(m, sbeg, Span(u, val))
    IN  IF After(m, sbeg) = {} \/ u > send
        THEN Done(Put(m, sbeg, Span(send, val)), sbeg)
        ELSE IF end < send THEN Again(new, end) ELSE Done(new, sbeg)

\* What is in the map already stays: spans are put in nearest image first.
InsertTurn(m, sbeg, send, val) ==
    LET l == Max(UpTo(m, sbeg))
    IN  IF UpTo(m, sbeg) = {} THEN InsertAbove(m, sbeg, send, val)
        ELSE IF sbeg < m[l].end
        THEN IF send <= m[l].end THEN Done(m, sbeg) ELSE Again(m, m[l].end)
        ELSE IF sbeg = m[l].end /\ m[l].val = val THEN InsertAbove(m, l, send, val)
        ELSE InsertAbove(m, sbeg, send, val)
=============================================================================
