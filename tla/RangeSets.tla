------------------------------ MODULE RangeSets ------------------------------
(***************************************************************************)
(* src/src/core/rangelib.py: sets of block numbers kept as the sorted       *)
(* sequence of the bounds of their half-open ranges, and the sweep over the *)
(* merged bounds of two of them that every operation is made of.            *)
(***************************************************************************)
EXTENDS Integers, SequencesExt

\* The items of s in the order of their ranks, 0 for the first.
Ordered(s, rank) ==
  [k \in DOMAIN s |-> s[CHOOSE i \in DOMAIN s : rank[i] = k - 1]]

Sorted(bounds) ==
  Ordered(bounds, [i \in DOMAIN bounds |->
                     Cardinality({j \in DOMAIN bounds :
                                    \/ bounds[j] < bounds[i]
                                    \/ bounds[j] = bounds[i] /\ j < i})])

\* A bound with its event; heapq.merge orders by the bound, then the event.
Before(e, f) == \/ e[1] < f[1]
                \/ e[1] = f[1] /\ e[2] < f[2]

\* Two equal bounds in a row cancel each other.
Pair(acc, p) == IF acc.last = <<p>>
                THEN [out |-> acc.out, last |-> <<>>]
                ELSE [out |-> acc.out \o acc.last, last |-> <<p>>]

RemovePairs(bounds) ==
  LET end == FoldLeft(Pair, [out |-> <<>>, last |-> <<>>], bounds)
  IN  end.out \o end.last

RangeSet(bounds) == RemovePairs(Sorted(bounds))

\* zip(data, cycle((first, -first))).
Bounds(r, first) ==
  [i \in DOMAIN r |-> <<r[i], IF i % 2 = 1 THEN first ELSE -first>>]

MergedEvents(events) ==
  Ordered(events, [i \in DOMAIN events |->
                     Cardinality({j \in DOMAIN events :
                                    \/ Before(events[j], events[i])
                                    \/ events[j] = events[i] /\ j < i})])

Merged(r, s, rFirst, sFirst) == MergedEvents(Bounds(r, rFirst) \o Bounds(s, sFirst))

\* A range opens where the count of active ranges leaves `low' upwards and
\* closes where it comes back to it.
Cross(low, acc, e) ==
  [out |-> IF \/ acc.z = low /\ e[2] = 1
              \/ acc.z = low + 1 /\ e[2] = -1
           THEN Append(acc.out, e[1]) ELSE acc.out,
   z   |-> acc.z + e[2]]

Crossed(events, low) ==
  FoldLeft(LAMBDA acc, e : Cross(low, acc, e), [out |-> <<>>, z |-> 0], events).out

Sweep(events, low) == RangeSet(Crossed(events, low))

Union(r, s) == Sweep(Merged(r, s, 1, 1), 0)

Intersect(r, s) == Sweep(Merged(r, s, 1, 1), 1)

\* Mutant: the events of the other set are not inverted.
SubtractNotInverted(r, s) == Sweep(Merged(r, s, 1, 1), 0)

Subtract(r, s) == Sweep(Merged(r, s, 1, -1), 0)

Total(numbers) == FoldLeft(LAMBDA n, x : n + x, 0, numbers)

Overlaps(r, s) ==
  LET events == Merged(r, s, 1, 1)
  IN  \E i \in DOMAIN events : Total([j \in 1..i |-> events[j][2]]) = 2

Ranges(r) == [i \in 1..(Len(r) \div 2) |-> <<r[2 * i - 1], r[2 * i]>>]

Size(r) == Total([i \in DOMAIN Ranges(r) |-> Ranges(r)[i][2] - Ranges(r)[i][1]])

IsWithin(s, r) == Intersect(r, s) = s

\* The bounds of `s', a subset of `r', as offsets in the blocks of `r' laid end
\* to end: -5 opens and 5 closes a range of `r', -1 and 1 one of `s'.
Lay(acc, e) ==
  CASE e[2] = -5 -> [acc EXCEPT !.start = e[1]]
    [] e[2] = 5  -> [acc EXCEPT !.offset = @ + e[1] - acc.start]
    [] OTHER     -> [acc EXCEPT !.out = Append(@, acc.offset + e[1] - acc.start)]

Laid(events) ==
  FoldLeft(LAMBDA acc, e : Lay(acc, e), [out |-> <<>>, offset |-> 0, start |-> 0],
           events).out

MapWithin(r, s) == RangeSet(Laid(Merged(r, s, -5, -1)))

\* The widened ranges go through the text form, so only equal bounds cancel:
\* two that come to overlap lose the blocks they share.
Extend(r, n) ==
  IF n = 0 THEN r
  ELSE RangeSet([i \in DOMAIN r |->
                   IF i % 2 = 0 THEN r[i] + n
                   ELSE IF r[i] < n THEN 0 ELSE r[i] - n])

\* Ranges are taken whole until one has the blocks that are left to take.
TakeRange(acc, p) ==
  IF acc.left = 0 THEN acc
  ELSE IF p[2] - p[1] >= acc.left
  THEN [out |-> acc.out \o <<p[1], p[1] + acc.left>>, left |-> 0]
  ELSE [out |-> acc.out \o p, left |-> acc.left - (p[2] - p[1])]

Taken(ranges, n) ==
  FoldLeft(LAMBDA acc, p : TakeRange(acc, p), [out |-> <<>>, left |-> n], ranges).out

First(r, n) == IF Size(r) <= n THEN r ELSE RangeSet(Taken(Ranges(r), n))
-----------------------------------------------------------------------------
(* The meaning of a sequence of bounds, and the sequence of a set.          *)

Blocks(r) == UNION {p[1]..(p[2] - 1) : p \in ToSet(Ranges(r))}

Edges(S) == {b \in S : b - 1 \notin S} \cup {b + 1 : b \in {c \in S : c + 1 \notin S}}

OfBlocks(S) ==
  LET edges == Edges(S) IN
    [k \in 1..Cardinality(edges) |->
       CHOOSE b \in edges : Cardinality({c \in edges : c < b}) = k - 1]

\* The place of block b of the set S among its blocks.
Place(S, b) == Cardinality({c \in S : c < b})

\* Every operation on the bounds computes the set it is named for, in the one
\* form that == compares (rangelib.py, the docstrings of the class).
SetAlgebra(r, s, n) ==
  LET R == Blocks(r)  S == Blocks(s) IN
    /\ Union(r, s) = OfBlocks(R \cup S)
    /\ Intersect(r, s) = OfBlocks(R \cap S)
    /\ Subtract(r, s) = OfBlocks(R \ S)
    /\ Overlaps(r, s) <=> R \cap S # {}
    /\ IsWithin(s, r) <=> S \subseteq R
    /\ S \subseteq R => MapWithin(r, s) = OfBlocks({Place(R, b) : b \in S})
    /\ Size(r) = Cardinality(R)
    /\ First(r, n) = OfBlocks({b \in R : Place(R, b) < n})
=============================================================================
