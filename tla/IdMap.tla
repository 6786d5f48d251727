------------------------------- MODULE IdMap -------------------------------
(***************************************************************************)
(* utils/idmap: the map from element ids to LPs, to next hops and to       *)
(* indexes that every routing step of the simulator searches.  It is a     *)
(* sorted array of pairs; a map is created once and then only read.        *)
(***************************************************************************)
EXTENDS Integers, FiniteSets

IDMAP_CONTENT_NOT_FOUND == -1

Pair == [id : Int, content : Int]

Id(p) == p.id
SameId(p, q) == p.id = q.id
PairSort == INSTANCE QuickSort WITH Element <- Pair, Key <- Id, Alike <- SameId

Valid(a) == {i \in DOMAIN a : a[i] >= 0}

\* The positions copied into the map.
Kept(ids, contents) == Valid(ids) \cap Valid(contents)

\* The map before it is sorted: as long as there are valid contents, the kept
\* pairs in their order, then what memset left.
Filled(ids, contents) ==
  LET kept == Kept(ids, contents)
      nth[k \in 1 .. Cardinality(kept)] ==
        CHOOSE i \in kept : Cardinality({j \in kept : j <= i}) = k
  IN  [k \in 0 .. Cardinality(Valid(contents)) - 1 |->
         IF k < Cardinality(kept)
         THEN [id |-> ids[nth[k + 1]], content |-> contents[nth[k + 1]]]
         ELSE [id |-> 0, content |-> 0]]

\* "the number of valid id does not match the number of valid elements".
CreateExits(ids, contents) == Cardinality(Valid(contents)) > Cardinality(Valid(ids))

CreateIdmap(ids, contents) == PairSort!Sort(Filled(ids, contents))

\* Mutant: the search stops when one entry is left.
MutIdmapSearch(map, search_id) ==
  LET n == Cardinality(DOMAIN map)
      search[r \in [first : 0 .. n, last : -1 .. n - 1]] ==
        LET middle == (r.first + r.last) \div 2
        IN  IF r.first >= r.last THEN IDMAP_CONTENT_NOT_FOUND
            ELSE IF map[middle].id = search_id THEN map[middle].content
            ELSE IF map[middle].id < search_id
                 THEN search[[first |-> middle + 1, last |-> r.last]]
                 ELSE search[[first |-> r.first, last |-> middle - 1]]
  IN  search[[first |-> 0, last |-> n - 1]]

\* binary_search; every caller passes the length create_idmap returned.
IdmapSearch(map, search_id) ==
  LET n == Cardinality(DOMAIN map)
      search[r \in [first : 0 .. n, last : -1 .. n - 1]] ==
        LET middle == (r.first + r.last) \div 2
        IN  IF r.first > r.last THEN IDMAP_CONTENT_NOT_FOUND
            ELSE IF map[middle].id = search_id THEN map[middle].content
            ELSE IF map[middle].id < search_id
                 THEN search[[first |-> middle + 1, last |-> r.last]]
                 ELSE search[[first |-> r.first, last |-> middle - 1]]
  IN  search[[first |-> 0, last |-> n - 1]]

=============================================================================
