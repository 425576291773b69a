---------------------------- MODULE CacheStore -----------------------------
(***************************************************************************)
(* The two stores of the HTTP cache, as operators on a record with their   *)
(* entries and counters: MemoryCacheStore (lib/cache/memory-cache-store.js)*)
(* and SqliteCacheStore (lib/cache/sqlite-cache-store.js), whose database  *)
(* is external.  In memory, entries are in the order of their paths in the *)
(* Map, least recently used first; in the database, in that of their ids.  *)
(*                                                                         *)
(* A body is a sequence of chunks of size one.  "vary" maps the header     *)
(* fields that selected the response to their values.                      *)
(***************************************************************************)
EXTENDS Integers, Sequences, FiniteSets, SequencesExt

CONSTANTS
  MaxCount,     \* maxCount, of both stores
  MaxSize,      \* maxSize, in memory
  MaxEntrySize  \* maxEntrySize, of both stores

ASSUME StoreAssumption ==
  MaxCount \in Nat /\ MaxSize \in Nat /\ MaxEntrySize \in Nat

EmptyStore == [entries |-> <<>>, size |-> 0, count |-> 0]
NoEntry == [id |-> 0]

VaryMatches(key, entry) ==
  \A h \in DOMAIN entry.vary : key.headers[h] = entry.vary[h]

Selects(key, entry) ==
  entry.path = key.path /\ entry.method = key.method /\ VaryMatches(key, entry)

Size(entry) == Len(entry.body)

----------------------------------------------------------------------------
(* MemoryCacheStore                                                         *)

\* findEntry
MemoryMatches(s, key, now) ==
  {i \in DOMAIN s.entries : Selects(key, s.entries[i]) /\ s.entries[i].deleteAt > now}

\* An entry that is found makes its path the last of the Map.
Touched(entries, path) ==
  SelectSeq(entries, LAMBDA e : e.path # path) \o SelectSeq(entries, LAMBDA e : e.path = path)

MemoryGet(s, key, now) ==
  LET found == MemoryMatches(s, key, now)
  IN IF found = {} THEN [store |-> s, entry |-> NoEntry]
     ELSE [store |-> [s EXCEPT !.entries = Touched(@, key.path)],
           entry |-> s.entries[Min(found)]]

Without(s, entry) ==
  [s EXCEPT !.entries = SelectSeq(@, LAMBDA e : e # entry),
            !.size = @ - Size(entry), !.count = @ - 1]

\* #evict: down to half of the limits, and the new entry only when it must.
Evict(s, keep) ==
  LET Drop(x, entry) ==
        IF entry = keep \/ ~(2 * x.size > MaxSize \/ 2 * x.count > MaxCount) THEN x
        ELSE Without(x, entry)
      rest == FoldLeft(Drop, s, s.entries)
  IN IF rest.size > MaxSize \/ rest.count > MaxCount THEN Without(rest, keep) ELSE rest

\* Mutant of MemoryFinal: what is replaced is still counted.
MemoryFinalAdds(s, key, entry) ==
  LET moved == [s EXCEPT !.entries = Touched(@, key.path)]
      previous == MemoryMatches(moved, key, -1)
      stored ==
        [entries |-> IF previous = {} THEN Append(moved.entries, entry)
                     ELSE [moved.entries EXCEPT ![Min(previous)] = entry],
         size |-> s.size + Size(entry),
         count |-> s.count + (IF previous = {} THEN 1 ELSE 0)]
  IN IF stored.size > MaxSize \/ stored.count > MaxCount THEN Evict(stored, entry) ELSE stored

\* final() of the write stream: the entry takes the place of one that the same
\* key would find, expired or not.
MemoryFinal(s, key, entry) ==
  LET moved == [s EXCEPT !.entries = Touched(@, key.path)]
      previous == MemoryMatches(moved, key, -1)
      stored ==
        IF previous = {}
        THEN [entries |-> Append(moved.entries, entry),
              size |-> s.size + Size(entry), count |-> s.count + 1]
        ELSE [entries |-> [moved.entries EXCEPT ![Min(previous)] = entry],
              size |-> s.size + Size(entry) - Size(moved.entries[Min(previous)]),
              count |-> s.count]
  IN IF stored.size > MaxSize \/ stored.count > MaxCount THEN Evict(stored, entry) ELSE stored

MemoryDelete(s, path) ==
  FoldLeft(Without, s, SelectSeq(s.entries, LAMBDA e : e.path = path))

----------------------------------------------------------------------------
(* SqliteCacheStore                                                         *)

\* #findValue: of the rows that match, the one that is deleted first.
SqliteFind(s, key, now, canBeExpired) ==
  LET rows == {i \in DOMAIN s.entries :
                 Selects(key, s.entries[i]) /\ (canBeExpired \/ now < s.entries[i].deleteAt)}
  IN {i \in rows : \A j \in rows :
        \/ s.entries[i].deleteAt < s.entries[j].deleteAt
        \/ s.entries[i].deleteAt = s.entries[j].deleteAt /\ i <= j}

SqliteGet(s, key, now) ==
  LET found == SqliteFind(s, key, now, FALSE)
  IN [store |-> s, entry |-> IF found = {} THEN NoEntry ELSE s.entries[Min(found)]]

Oldest(entries) ==
  CHOOSE e \in ToSet(entries) : \A f \in ToSet(entries) : e.cachedAt <= f.cachedAt

\* #prune, for a maxCount below 20: expired rows, or else the oldest one.
Prune(s, now) ==
  LET alive == SelectSeq(s.entries, LAMBDA e : e.deleteAt > now)
  IN IF Len(s.entries) <= MaxCount THEN s
     ELSE [s EXCEPT !.entries =
             IF alive # @ THEN alive ELSE SelectSeq(@, LAMBDA e : e # Oldest(s.entries))]

\* set(), called by final() of the write stream.
SqliteFinal(s, key, entry, now) ==
  LET existing == SqliteFind(s, key, now, TRUE)
  IN IF existing # {} THEN [s EXCEPT !.entries[Min(existing)] = entry]
     ELSE Prune([s EXCEPT !.entries = Append(@, entry)], now)

SqliteDelete(s, path) ==
  [s EXCEPT !.entries = SelectSeq(@, LAMBDA e : e.path # path)]
=============================================================================
