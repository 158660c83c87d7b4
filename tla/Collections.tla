---------------------------- MODULE Collections ----------------------------
(***************************************************************************)
(* The lists, maps and sets of Jett: what the list.*, map.* and set.*      *)
(* built-ins compute (call_builtin and call_higher_order_builtin in        *)
(* crates/jett_comptime/src/interpreter.rs).                               *)
(*                                                                         *)
(* All three are vectors in the code. A list is a sequence of values; a    *)
(* set is a sequence that each operation keeps free of duplicates; a map   *)
(* is a sequence of <<key, value>>, searched from the front.               *)
(***************************************************************************)
EXTENDS Integers, SequencesExt, Values

\* An int64 index cast to usize: a negative one is past every end.
Within(items, i) == i \in 0..Len(items) - 1
Positions(items, x) == {i \in DOMAIN items : items[i] = x}
Least(S) == CHOOSE i \in S : \A j \in S : i <= j
Greatest(S) == CHOOSE i \in S : \A j \in S : i >= j

-----------------------------------------------------------------------------
(* Lists                                                                   *)

ListGet(items, i) == Optional(IF Within(items, i) THEN <<items[i + 1]>> ELSE <<>>)
ListFirst(items) == Optional(IF items = <<>> THEN <<>> ELSE <<Head(items)>>)
ListLast(items) == Optional(IF items = <<>> THEN <<>> ELSE <<Last(items)>>)

\* Mutant: a negative count is cast to a large one.
ListSkipCast(items, n) == IF n < 0 THEN <<>> ELSE SubSeq(items, n + 1, Len(items))

\* A negative count is none.
ListSkip(items, n) == SubSeq(items, (IF n < 0 THEN 0 ELSE n) + 1, Len(items))
ListTake(items, n) == SubSeq(items, 1, IF n > Len(items) THEN Len(items) ELSE n)

IndexOf(items, x) ==
  Optional(IF Positions(items, x) = {} THEN <<>> ELSE <<Int64(Least(Positions(items, x)) - 1)>>)
LastIndexOf(items, x) ==
  Optional(IF Positions(items, x) = {} THEN <<>> ELSE <<Int64(Greatest(Positions(items, x)) - 1)>>)

RemoveAtIndex(items, i) ==
  IF Within(items, i) THEN Gives(List(RemoveAt(items, i + 1))) ELSE Fails
InsertAtIndex(items, i, x) ==
  IF i \in 0..Len(items) THEN Gives(List(InsertAt(items, i + 1, x))) ELSE Fails
Swap(items, i, j) ==
  IF Within(items, i) /\ Within(items, j)
  THEN Gives(List([items EXCEPT ![i + 1] = items[j + 1], ![j + 1] = items[i + 1]]))
  ELSE Fails

\* Members that are not lists are kept as they are.
Flatten(items) ==
  FlattenSeq([i \in DOMAIN items |->
                IF Kind(items[i]) = "list" THEN Contents(items[i]) ELSE <<items[i]>>])

\* What is equal to something already kept is dropped.
Distinct(items) ==
  FoldLeft(LAMBDA kept, x : IF Contains(kept, x) THEN kept ELSE Append(kept, x), <<>>, items)

\* Pairs are lists of two.
Pair(x, y) == List(<<x, y>>)
ZipPairs(a, b) ==
  [i \in 1..(IF Len(a) < Len(b) THEN Len(a) ELSE Len(b)) |-> Pair(a[i], b[i])]
Enumerated(items) == [i \in DOMAIN items |-> Pair(Int64(i - 1), items[i])]

\* A size below one is taken as one.
Chunks(items, size) ==
  LET n == IF size < 1 THEN 1 ELSE size
  IN [c \in 1..(Len(items) + n - 1) \div n |->
        List(SubSeq(items, n * (c - 1) + 1, IF n * c > Len(items) THEN Len(items) ELSE n * c))]

\* cmp; values of other kinds, or of two kinds, are all alike.
Before2(a, b, kinds) ==
  /\ Kind(a) = Kind(b)
  /\ Kind(a) \in kinds
  /\ CASE Kind(a) = "string" -> LexBefore(Contents(a), Contents(b))
       [] Kind(a) = "bool" -> ~Contents(a) /\ Contents(b)
       [] OTHER -> Contents(a) < Contents(b)

SortKinds == {"int64", "float64", "string", "bool"}
SortedKinds == {"int64", "float64", "string"}
IndexedKinds == {"int64", "string"}

\* A stable sort: each goes in behind all that it is not before; before holds
\* the pairs of positions of which the first is to come first.
SortedBy(items, before) ==
  LET put(order, i) ==
        LET behind == {k \in DOMAIN order : <<i, order[k]>> \in before}
        IN IF behind = {} THEN Append(order, i) ELSE InsertAt(order, Least(behind), i)
      order == FoldLeft(put, <<>>, [i \in DOMAIN items |-> i])
  IN [k \in DOMAIN items |-> items[order[k]]]

Sorted(items) ==
  SortedBy(items, {p \in (DOMAIN items) \X (DOMAIN items) :
                     Before2(items[p[1]], items[p[2]], SortKinds)})

IsSortedList(items) ==
  \A i \in 1..Len(items) - 1 : ~Before2(items[i + 1], items[i], SortedKinds)

\* The pairs of rows that differ at the column. Rows that have nothing comparable
\* there are alike.
RowsBefore(items, column) ==
  LET has(row) == Kind(row) = "list" /\ Within(Contents(row), column)
      rows == {i \in DOMAIN items : has(items[i])}
  IN {p \in rows \X rows :
        Before2(Contents(items[p[1]])[column + 1], Contents(items[p[2]])[column + 1], IndexedKinds)}

SortedByIndex(items, column) == SortedBy(items, RowsBefore(items, column))

-----------------------------------------------------------------------------
(* Maps                                                                    *)

Keys(entries) == [i \in DOMAIN entries |-> entries[i][1]]
Vals(entries) == [i \in DOMAIN entries |-> entries[i][2]]
HasKey(entries, k) == Contains(Keys(entries), k)

\* The value at the first entry of the key, in a tuple.
MapGet(entries, k) ==
  IF HasKey(entries, k) THEN <<entries[Least(Positions(Keys(entries), k))][2]>> ELSE <<>>

MapInsert(entries, k, v) ==
  IF HasKey(entries, k)
  THEN [entries EXCEPT ![Least(Positions(Keys(entries), k))] = <<k, v>>]
  ELSE Append(entries, <<k, v>>)

MapRemove(entries, k) == SelectSeq(entries, LAMBDA e : e[1] # k)
MapMerge(a, b) == FoldLeft(LAMBDA m, e : MapInsert(m, e[1], e[2]), a, b)
MapFromLists(ks, vs) == Zip(ks, vs)
MapEntries(entries) == [i \in DOMAIN entries |-> Pair(entries[i][1], entries[i][2])]

-----------------------------------------------------------------------------
(* Sets                                                                    *)

SetAdd(items, x) == IF Contains(items, x) THEN items ELSE Append(items, x)
SetRemove(items, x) == SelectSeq(items, LAMBDA y : y # x)
SetUnion(a, b) == FoldLeft(SetAdd, a, b)
SetIntersection(a, b) == SelectSeq(a, LAMBDA x : Contains(b, x))
SetDifference(a, b) == SelectSeq(a, LAMBDA x : ~Contains(b, x))

-----------------------------------------------------------------------------
(* Functions over the members: outcomes holds what the calls come to, one   *)
(* for each member                                                         *)

\* The call stops at the first member whose call fails; a predicate that does
\* not give a bool fails.
Failed(outcomes) == \E i \in DOMAIN outcomes : ~Gave(outcomes[i])
Asked(outcomes) ==
  [i \in DOMAIN outcomes |->
     IF Gave(outcomes[i]) /\ Kind(outcomes[i][2]) = "bool" THEN outcomes[i] ELSE Fails]
Yes == Gives(Bool(TRUE))
No == Gives(Bool(FALSE))

Picked(items, outcomes) ==
  LET kept == SelectSeq([i \in DOMAIN items |-> i], LAMBDA i : outcomes[i] = Yes)
  IN [i \in DOMAIN kept |-> items[kept[i]]]
Results(outcomes) == [i \in DOMAIN outcomes |-> outcomes[i][2]]

ListFilter(items, outcomes) ==
  IF Failed(Asked(outcomes)) THEN Fails ELSE Gives(List(Picked(items, outcomes)))
ListMap(outcomes) == IF Failed(outcomes) THEN Fails ELSE Gives(List(Results(outcomes)))
ListCount(items, outcomes) ==
  IF Failed(Asked(outcomes)) THEN Fails ELSE Gives(Int64(Len(Picked(items, outcomes))))

\* The members with another answer than the given one: the first of them is the
\* last that is asked.
Stops(outcomes, answer) == {i \in DOMAIN outcomes : Asked(outcomes)[i] # answer}

ListFind(items, outcomes) ==
  LET stops == Stops(outcomes, No)
  IN IF stops = {} THEN Gives(Optional(<<>>))
     ELSE IF outcomes[Least(stops)] = Yes
     THEN Gives(Optional(<<items[Least(stops)]>>)) ELSE Fails
ListAll(outcomes) ==
  LET stops == Stops(outcomes, Yes)
  IN IF stops = {} THEN Yes ELSE Asked(outcomes)[Least(stops)]
ListAny(outcomes) ==
  LET stops == Stops(outcomes, No)
  IN IF stops = {} THEN No ELSE Asked(outcomes)[Least(stops)]

\* The keys are int64, and equal keys keep the order of their members.
ListSortBy(items, keys) ==
  IF Failed(keys) \/ \E i \in DOMAIN keys : Kind(keys[i][2]) # "int64" THEN Fails
  ELSE Gives(List(SortedBy(items, {p \in (DOMAIN items) \X (DOMAIN items) :
                                     Contents(keys[p[1]][2]) < Contents(keys[p[2]][2])})))

\* Groups come in the order of their first members.
ListGroupBy(items, keys) ==
  LET put(groups, i) ==
        LET k == keys[i][2]
            group == IF HasKey(groups, k) THEN Contents(MapGet(groups, k)[1]) ELSE <<>>
        IN MapInsert(groups, k, List(Append(group, items[i])))
  IN IF Failed(keys) THEN Fails
     ELSE Gives(Map(FoldLeft(put, <<>>, [i \in DOMAIN items |-> i])))

ListFlatMap(lists) ==
  IF Failed(lists) \/ \E i \in DOMAIN lists : Kind(lists[i][2]) # "list" THEN Fails
  ELSE Gives(List(Flatten(Results(lists))))

MapFilter(entries, outcomes) ==
  IF Failed(Asked(outcomes)) THEN Fails ELSE Gives(Map(Picked(entries, outcomes)))
MapMapValues(entries, outcomes) ==
  IF Failed(outcomes) THEN Fails ELSE Gives(Map(Zip(Keys(entries), Results(outcomes))))
MapForEach(outcomes) == IF Failed(outcomes) THEN Fails ELSE Gives(Nothing)

=============================================================================
