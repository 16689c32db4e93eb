---------------------------- MODULE BudgetedCache ----------------------------
(***************************************************************************)
(* The least-recently-used cache of storage/cache.py, as pure operators on *)
(* a cache [entries, current]: the entries in the order of their use, the  *)
(* oldest first, and the account of their costs, which the code keeps      *)
(* beside them.  Each operator is one critical section of the cache's lock.*)
(***************************************************************************)
EXTENDS Integers, Sequences

EmptyCache == [entries |-> <<>>, current |-> 0]

Keys(cache) == {cache.entries[i].key : i \in DOMAIN cache.entries}

Holds(cache, k) == k \in Keys(cache)

Place(entries, k) == CHOOSE i \in DOMAIN entries : entries[i].key = k

EntryFor(cache, k) == cache.entries[Place(cache.entries, k)]

\* pop(): the entries that are not k's, in their order.  A key has one entry at most.
Without(entries, k) ==
  IF \E i \in DOMAIN entries : entries[i].key = k
  THEN [n \in 1..(Len(entries) - 1) |->
          IF n < Place(entries, k) THEN entries[n] ELSE entries[n + 1]]
  ELSE entries

\* What the first n entries cost, for every n: a recursive function, to be proved about.
Costs(entries) ==
  LET sum[n \in 0..Len(entries)] == IF n = 0 THEN 0 ELSE sum[n - 1] + entries[n].cost
  IN  sum

CostOf(entries) == Costs(entries)[Len(entries)]

\* get() and peek(): an entry that is served is the most recently used one.
Touch(cache, k) ==
  [cache EXCEPT !.entries = Append(Without(@, k), EntryFor(cache, k))]

\* The oldest entries go until the budget is kept; the newest one never goes.
Evict(entries, current, budget) ==
  LET left(n)  == current - Costs(entries)[n]
      fits(n)  == left(n) <= budget \/ n = Len(entries) - 1
      dropped  == CHOOSE n \in 0..(Len(entries) - 1) : fits(n) /\ \A m \in 0..(n - 1) : ~fits(m)
  IN  [entries |-> SubSeq(entries, dropped + 1, Len(entries)), current |-> left(dropped)]

Put(cache, entry, budget, admitOversized) ==
  LET rest == Without(cache.entries, entry.key)
      kept == IF Holds(cache, entry.key)
              THEN cache.current - EntryFor(cache, entry.key).cost
              ELSE cache.current
  IN  IF entry.cost > budget /\ ~admitOversized
      THEN [entries |-> rest, current |-> kept]
      ELSE Evict(Append(rest, entry), kept + entry.cost, budget)
=============================================================================
