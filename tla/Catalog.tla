------------------------------ MODULE Catalog ------------------------------
(***************************************************************************)
(* The catalog the scanner reports (scan/scan.go, finalize): the routes of *)
(* the walk without duplicates, in order, and cut at a cap.                *)
(*                                                                         *)
(* A path is a sequence of segments, and Segments lists the segments in    *)
(* the order of strings.                                                   *)
(***************************************************************************)
EXTENDS Integers, Sequences, FiniteSets, FiniteSetsExt, Functions

CONSTANTS Segments,    \* path segments, in the order of strings
          MaxRoutes    \* cap of the catalog

ASSUME CatalogAssumption ==
  /\ MaxRoutes \in Nat \ {0}
  /\ Segments \in Seq(Range(Segments))
  /\ \A i, j \in DOMAIN Segments : Segments[i] = Segments[j] => i = j

VARIABLE routes  \* what the walk over the sources has found, in its order

Verbs == <<"ANY", "GET", "POST", "PUT">>  \* in the order of strings

-----------------------------------------------------------------------------
Key(route) == <<route.method, route.path>>

\* One string comes before another in a list of strings in order.
precedes(list, a, b) == \E m, n \in DOMAIN list : m < n /\ list[m] = a /\ list[n] = b

Before(p, q) ==  \* the order of strings, of paths given as segments
  \E i \in 1 .. Len(q) :
    /\ \A j \in 1 .. i - 1 : j <= Len(p) /\ p[j] = q[j]
    /\ i > Len(p) \/ precedes(Segments, p[i], q[i])

Less(a, b) ==
  \/ precedes(Verbs, a.method, b.method)
  \/ a.method = b.method /\ Before(a.path, b.path)

Firsts(list) == {i \in DOMAIN list : \A j \in 1 .. i - 1 : Key(list[j]) # Key(list[i])}

\* The i-th of the sorted routes is the one with i - 1 others before it.
sorted(set) ==
  [i \in 1 .. Cardinality(set) |->
     CHOOSE a \in set : Cardinality({b \in set : Less(b, a)}) = i - 1]

Capped(list) == SubSeq(list, 1, Min({Len(list), MaxRoutes}))

\* Seeded bug: cuts before it sorts.
finalizeCutsFirst(list) == sorted({list[i] : i \in Firsts(Capped(list))})

finalize(list) == Capped(sorted({list[i] : i \in Firsts(list)}))

-----------------------------------------------------------------------------
\* The catalog is sorted without duplicates, tells the first handler of each
\* route, and when it is cut at the cap it loses the last keys only (finalize,
\* scan/scan.go:109-139).
CatalogCanonical ==
  LET out == finalize(routes)
      keys(list) == {Key(list[i]) : i \in DOMAIN list}
      first(key) == routes[Min({i \in DOMAIN routes : Key(routes[i]) = key})]
  IN  /\ \A i, j \in DOMAIN out : i < j => Less(out[i], out[j])
      /\ Len(out) = Min({MaxRoutes, Cardinality(keys(routes))})
      /\ \A i \in DOMAIN out : out[i] = first(Key(out[i]))
      /\ \A key \in keys(routes) \ keys(out) : \A i \in DOMAIN out : Less(out[i], first(key))
=============================================================================
