----------------------------- MODULE QuickList -----------------------------
(***************************************************************************)
(* The list of the embedded database (src/db/struct/list/quicklist.go),    *)
(* as long as it fits into one page: the elements of the page and the      *)
(* size.  An index of an operation counts from 0.                          *)
(*                                                                         *)
(* Add puts the first element of a list into its page twice: it makes the  *)
(* page with the element in it, and then goes on to append to that page.   *)
(* The page is therefore one element longer than the size, and find counts *)
(* from the front of the page for the first half of the list and from its  *)
(* back for the second.                                                    *)
(***************************************************************************)
EXTENDS Integers, SequencesExt

NewQuickList == [page |-> <<>>, size |-> 0]

Add(l, v) == [page |-> IF l.page = <<>> THEN <<v, v>> ELSE Append(l.page, v),
              size |-> l.size + 1]

\* LREM takes the element that is there twice for two: a list of a size below
\* zero is left, on which find panics.
Broken(l) == l.size < 0

\* The indices that find does not panic on.
InRange(l, i) == 0 <= i /\ i < l.size

\* The place in the page, counted from 1.
find(l, i) == IF i < l.size \div 2 THEN i + 1 ELSE i - (l.size - Len(l.page)) + 1

GetAt(l, i) == l.page[find(l, i)]

SetAt(l, i, v) == [l EXCEPT !.page[find(l, i)] = v]

\* Insert(0, v)
InsertFront(l, v) ==
    IF l.size = 0 THEN Add(l, v)
    ELSE [page |-> InsertAt(l.page, find(l, 0), v), size |-> l.size + 1]

\* Remove(0)
RemoveHead(l) == [page |-> RemoveAt(l.page, find(l, 0)), size |-> l.size - 1]

RemoveLast(l) == [page |-> Front(l.page), size |-> l.size - 1]

\* The number of elements of places up to place i.
upTo(places, i) == Cardinality({j \in places : j <= i})

\* The elements of the page whose places are not in gone.
Without(l, gone) ==
    LET kept == DOMAIN l.page \ gone
    IN  [page |-> [i \in 1..Cardinality(kept) |-> l.page[CHOOSE p \in kept : upTo(kept, p) = i]],
         size |-> l.size - Cardinality(gone)]

\* The places RemoveByVal (n > 0), ReverseRemoveByVal (n < 0) and RemoveAllByVal
\* take: the iterator walks the page from find(0) on, or back from its end.
placesOf(l, n, v) ==
    LET found == {i \in DOMAIN l.page : l.page[i] = v /\ (n < 0 \/ i >= find(l, 0))}
    IN  {i \in found : \/ n = 0
                       \/ n > 0 /\ upTo(found, i) <= n
                       \/ n < 0 /\ upTo(found, i) > Cardinality(found) + n}
=============================================================================
