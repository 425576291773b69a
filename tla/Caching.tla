------------------------------ MODULE Caching ------------------------------
(***************************************************************************)
(* The cache interceptor (lib/interceptor/cache.js) with its CacheHandler  *)
(* and CacheRevalidationHandler (lib/handler/), over one of the two        *)
(* stores, for users whose requests are answered by an origin that changes *)
(* what it serves.  The dispatcher below, the origin and node:stream are   *)
(* external.                                                               *)
(*                                                                         *)
(* A representation is [path, v, lang]: version v of the resource at path, *)
(* in the language asked for if the page varies.  Its body is some chunks. *)
(* A user has one exchange with the origin, and one in the background that *)
(* revalidates.                                                            *)
(***************************************************************************)
EXTENDS Integers, Sequences, FiniteSets, Freshness, CacheStore

CONSTANTS
  Kinds,       \* the scenarios: see MCCaching
  MaxVersion,  \* bound of the origin's versions
  Overtaken    \* a 304 may come when its entry has been replaced

ASSUME CachingAssumption == MaxVersion \in Nat \ {0} /\ Overtaken \in BOOLEAN

VARIABLES
  kind,    \* the member of Kinds
  now,     \* Date.now()
  origin,  \* for each path its version, when each was made and when last current
  sys      \* the store, the users and their exchanges

vars == <<kind, now, origin, sys>>

Users == DOMAIN kind.asks
Paths == {"/", "/other"}
Languages == {"en", "fr"}
SafeMethods == {"GET", "HEAD"}
BodyLen(path) == IF path = "/" THEN kind.chunks ELSE MaxEntrySize + 1   \* of a 200
StartTime == 100   \* dates may lie before it

NoRep == [path |-> "/", v |-> 0, lang |-> "none"]
NoAnswer == [status |-> 0, rep |-> NoRep, date |-> 0, made |-> 0]
NoWriter == [st |-> "none", full |-> FALSE, entry |-> NoEntry]

\* handler: what the dispatcher calls, "bare" without the cache.  answer: what
\* the origin has sent, of which "at" chunks have come.  paused: the controller
\* of the request; down, blocked: of the CacheController.  writer: #writeStream.
\* replay: what is left of the stored body that a 304 confirmed.  found, sie:
\* of the closure of handleResult.
NoExchange ==
  [phase |-> "none", handler |-> "bare", confirms |-> NoRep, answer |-> NoAnswer, at |-> 0,
   paused |-> FALSE, down |-> FALSE, blocked |-> FALSE, writer |-> NoWriter,
   replay |-> <<>>, found |-> NoEntry, sie |-> FALSE]

\* controller: which one the user holds.  stream: the rest of a cached body.
\* For the properties, base: what had been purged when it asked; looked: when
\* its entry was judged; claim: why a stored response was served; failed: it was
\* told of an error; late: data came when all was over.
NewUser ==
  [at |-> "new", found |-> NoEntry, controller |-> "none", stream |-> <<>>, pause |-> "never",
   status |-> 0, rep |-> NoRep, got |-> 0, ends |-> 0, failed |-> FALSE, late |-> FALSE, intact |-> TRUE,
   base |-> 0, looked |-> 0, claim |-> [how |-> "none", since |-> 0, id |-> 0]]

\* Below, t is sys while a job changes it, and x = <<u, w>> names an exchange.
Ex(t, x) == t.ex[x[1]][x[2]]
Set(t, x, e) == [t EXCEPT !.ex[x[1]][x[2]] = e]
Silent(x) == x[2] = "back"

Shared == kind.type = "shared"
Request(u) == kind.asks[u]
Key(u) == [path |-> Request(u).path, method |-> Request(u).method,
           headers |-> [lang |-> Request(u).lang]]
RequestControl(u) ==
  IF Request(u).pragma THEN ParseCacheControl({Flag("no-cache")})
  ELSE ParseCacheControl(Request(u).cc)
Asked(u) == [cc |-> RequestControl(u), conditional |-> Request(u).conditional]

Representation(u, v) ==
  [path |-> Request(u).path, v |-> v,
   lang |-> IF "lang" \in kind.page.vary THEN Request(u).lang ELSE "any"]

\* The header of an answer, with its dates.
Header(answer) ==
  LET page == CASE answer.status = 304 -> kind.confirm
                [] answer.status = 200 -> kind.page
                [] OTHER -> kind.other
      At(n) == IF n < 0 THEN n ELSE answer.date + n
  IN [page EXCEPT !.date = IF @ = 0 THEN answer.date - Max({0, page.age}) ELSE @,
                  !.expires = At(@),
                  !.lastModified = IF @ < 0 THEN @ ELSE answer.made]
     @@ [status |-> answer.status]

----------------------------------------------------------------------------
(* The user's handler                                                       *)

Started(t, u, controller) == [t EXCEPT !.users[u].controller = controller]

UserHead(t, u, status, rep) ==
  [t EXCEPT !.users[u].intact = @ /\ t.users[u].ends = 0,
            !.users[u].status = status, !.users[u].rep = rep]

UserData(t, u, chunk) ==
  LET user == t.users[u]
  IN [t EXCEPT !.users[u].got = @ + 1,
               !.users[u].late = @ \/ user.ends > 0,
               !.users[u].intact =
                  /\ @ /\ Request(u).method = "GET"
                  /\ user.failed \/ chunk = [rep |-> user.rep, at |-> user.got + 1]]

UserEnd(t, u) ==
  LET user == t.users[u]
      whole == user.got = BodyLen(Request(u).path) \/ user.status # 200 \/ Request(u).method # "GET"
  IN [t EXCEPT !.users[u].ends = @ + 1, !.users[u].controller = "none",
               !.users[u].intact = @ /\ user.ends = 0 /\ whole]

UserError(t, u) ==
  [t EXCEPT !.users[u].ends = @ + 1, !.users[u].controller = "none",
            !.users[u].failed = TRUE, !.users[u].intact = @ /\ t.users[u].ends = 0]

----------------------------------------------------------------------------
(* The store of this scenario                                               *)

StoreGet(t, key) ==
  IF kind.store = "memory" THEN MemoryGet(t.store, key, now) ELSE SqliteGet(t.store, key, now)

StoreDelete(t, path) ==
  [t EXCEPT !.store = IF kind.store = "memory" THEN MemoryDelete(@, path)
                      ELSE SqliteDelete(@, path)]

StoreFinal(t, u, entry) ==
  LET stored == [entry EXCEPT !.id = t.stored + 1]
  IN [t EXCEPT !.stored = @ + 1,
               !.store = IF kind.store = "memory" THEN MemoryFinal(@, Key(u), stored)
                         ELSE SqliteFinal(@, Key(u), stored, now)]

\* write() of the store's stream, which destroys itself when there is too much.
\* It answers FALSE then, and whenever a chunk fills its buffer.
Written(writer, chunk) ==
  LET body == Append(writer.entry.body, chunk)
  IN IF writer.st # "open" THEN writer
     ELSE IF Len(body) > MaxEntrySize THEN [writer EXCEPT !.st = "destroyed"]
     ELSE [writer EXCEPT !.entry.body = body, !.full = kind.large]

Full(writer) == writer.st = "destroyed" \/ writer.full

----------------------------------------------------------------------------
(* CacheHandler                                                             *)

Dispatch(t, x, handler, confirms) ==
  Set(t, x, [NoExchange EXCEPT !.phase = "queued", !.handler = handler, !.confirms = confirms])

\* The conditional headers of the user's own.
OwnCondition(u) == IF Request(u).conditional THEN Representation(u, 1) ELSE NoRep

PassHead(t, x) ==
  IF Silent(x) THEN t ELSE UserHead(t, x[1], Ex(t, x).answer.status, Ex(t, x).answer.rep)

PassData(t, x, chunk) == IF Silent(x) THEN t ELSE UserData(t, x[1], chunk)

\* What onResponseStart does with a response: "pass" it on, "drop" what is
\* stored as well, or "store" it.
Verdict(u, r) ==
  LET dirs == ParseCacheControl(r.cc)
      notModified == r.status = 304
      told == \/ dirs.there \/ r.expires # Absent \/ kind.byDefault > 0
              \/ r.lastModified # Absent /\ r.status \in HeuristicallyCacheable
      known == DetermineStaleAt(Shared, now, r, dirs)
      staleAt == IF known = Absent /\ kind.byDefault > 0 THEN kind.byDefault ELSE known
      revalidationOnly == staleAt = 0 /\ HasValidator(r)
  IN IF DisallowsReuse(Shared, r, dirs) THEN "drop"
     ELSE IF ~told THEN "pass"
     ELSE IF \/ Request(u).method \notin SafeMethods
             \/ ~CanCacheResponse(Shared, r, dirs, Request(u).authorization)
       THEN IF notModified /\ dirs.there THEN "drop" ELSE "pass"
     ELSE IF r.age = Invalid \/ r.date = Invalid
       THEN IF notModified THEN "drop" ELSE "pass"
     ELSE IF staleAt = Absent \/ (CurrentAge(now, r) >= staleAt /\ ~revalidationOnly)
       THEN IF notModified /\ (dirs.there \/ staleAt # Absent) THEN "drop" ELSE "pass"
     ELSE "store"

\* stripNecessaryHeaders takes away the fields that the directives name.
KeepsCookie(r, dirs) ==
  r.cookie /\ "set-cookie" \notin dirs.noCache.fields \cup dirs.private.fields

\* Mutant of Value: it is as old as its arrival.
ValueNow(u, r, rep) ==
  LET dirs == ParseCacheControl(r.cc)
      known == DetermineStaleAt(Shared, now, r, dirs)
      staleAt == now + (IF known = Absent THEN kind.byDefault ELSE known)
  IN [id |-> 0, path |-> Request(u).path, method |-> Request(u).method,
      vary |-> ParseVary(r.vary, Key(u).headers), status |-> r.status, rep |-> rep,
      etag |-> r.etag, dated |-> r.lastModified >= 0, cookie |-> KeepsCookie(r, dirs), cc |-> dirs, cachedAt |-> now,
      staleAt |-> staleAt, deleteAt |-> DetermineDeleteAt(now, now, dirs, staleAt),
      body |-> <<>>]

\* The value it stores then.
Value(u, r, rep) ==
  LET dirs == ParseCacheControl(r.cc)
      known == DetermineStaleAt(Shared, now, r, dirs)
      baseTime == now - CurrentAge(now, r)
      staleAt == baseTime + (IF known = Absent THEN kind.byDefault ELSE known)
  IN [id |-> 0, path |-> Request(u).path, method |-> Request(u).method,
      vary |-> ParseVary(r.vary, Key(u).headers), status |-> r.status, rep |-> rep,
      etag |-> r.etag, dated |-> r.lastModified >= 0, cookie |-> KeepsCookie(r, dirs), cc |-> dirs, cachedAt |-> baseTime,
      staleAt |-> staleAt, deleteAt |-> DetermineDeleteAt(baseTime, now, dirs, staleAt),
      body |-> <<>>]

\* An entry with Set-Cookie that an earlier version left in a shared store.
Inherited ==
  LET answer == [status |-> 200, rep |-> Representation(1, 1), date |-> now, made |-> now - 20]
  IN [Value(1, Header(answer), answer.rep) EXCEPT
        !.id = 1, !.body = [i \in 1..kind.chunks |-> [rep |-> answer.rep, at |-> i]]]

Init ==
  /\ kind \in Kinds
  /\ now = StartTime
  /\ origin = [p \in Paths |-> [v    |-> 1,
                               made |-> [v \in 1..MaxVersion |-> StartTime - 20],
                               last |-> [v \in 1..MaxVersion |-> now]]]
  /\ sys = [store  |-> [EmptyStore EXCEPT !.entries = IF kind.legacy THEN <<Inherited>> ELSE @],
            stored |-> IF kind.legacy THEN 1 ELSE 0,
            purged |-> [p \in Paths |-> 0],
            users  |-> [u \in Users |-> NewUser],
            ex     |-> [u \in Users |-> [main |-> NoExchange, back |-> NoExchange]]]

\* invalidateUnsafeRequest: the path, and those that Location and
\* Content-Location name at this origin.
Invalidated(u, r) == {Request(u).path} \cup r.locations

InvalidateUnsafe(t, u, r) ==
  LET Purge(s, p) == [StoreDelete(s, p) EXCEPT !.purged[p] = s.stored]
  IN FoldLeft(Purge, t, SetToSeq(Invalidated(u, r)))

Release(e) ==
  [e EXCEPT !.blocked = FALSE, !.paused = IF e.down THEN @ ELSE FALSE]

\* Mutant of Replay: after a 'drain' it starts with the first chunk again.
ReplayAgain(t, x) ==
  LET e == Ex(t, x)
      Next(acc, chunk) ==
        LET writer == Written(acc.writer, chunk)
        IN IF acc.full THEN acc
           ELSE [t |-> PassData(acc.t, x, chunk), writer |-> writer, full |-> Full(writer),
                 left |-> Tail(acc.left)]
      done == FoldLeft(Next, [t |-> t, writer |-> e.writer, full |-> FALSE, left |-> e.replay],
                       e.replay)
      left == [e EXCEPT !.writer = done.writer, !.replay = IF done.full THEN @ ELSE <<>>]
  IN Set(done.t, x, IF done.full THEN left ELSE Release(left))

\* streamCachedBody: until the write stream is full or nothing is left.
Replay(t, x) ==
  LET e == Ex(t, x)
      Next(acc, chunk) ==
        LET writer == Written(acc.writer, chunk)
        IN IF acc.full THEN acc
           ELSE [t |-> PassData(acc.t, x, chunk), writer |-> writer, full |-> Full(writer),
                 left |-> Tail(acc.left)]
      done == FoldLeft(Next, [t |-> t, writer |-> e.writer, full |-> FALSE, left |-> e.replay],
                       e.replay)
      left == [e EXCEPT !.writer = done.writer, !.replay = done.left]
  IN Set(done.t, x, IF done.full THEN left ELSE Release(left))

----------------------------------------------------------------------------
(* CacheHandler: what the dispatcher calls                                  *)

\* #writeStream is destroyed with the error, and its 'error' deletes what is
\* stored and gives the user what is left of a replay.
CacheError(t, x) ==
  LET e == Ex(t, x)
      failed == IF Silent(x) THEN t ELSE UserError(t, x[1])
      gone == IF e.writer.st = "open" THEN StoreDelete(failed, Request(x[1]).path) ELSE failed
      Pass(acc, chunk) == PassData(acc, x, chunk)
  IN Set(FoldLeft(Pass, gone, e.replay), x, NoExchange)

\* A 304 freshens whatever the store has for the key by then.  What values() of
\* a Buffer of SqliteCacheStore yields are numbers: write() of the first one
\* throws, which fails the exchange, and the others are what is left.
Handle304(t, x, r) ==
  LET u == x[1]
      got == StoreGet(t, Key(u))
      seen == [t EXCEPT !.store = got.store]
      blocked == [Ex(t, x) EXCEPT !.phase = "body", !.blocked = TRUE, !.paused = TRUE]
      old == got.entry
      value == [Value(u, r, old.rep) EXCEPT
                  !.status = old.status, !.etag = old.etag, !.cookie = @ \/ old.cookie,
                  !.vary = IF r.vary = {} THEN old.vary ELSE @]
      writer == [NoWriter EXCEPT !.st = "open", !.entry = value]
  IN IF old = NoEntry THEN Set(PassHead(seen, x), x, Release(blocked))
     ELSE IF kind.store = "sqlite" /\ old.body # <<>>
       THEN CacheError(Set(PassHead(seen, x), x,
                           [blocked EXCEPT !.writer = writer, !.replay = old.body]), x)
     ELSE Replay(Set(PassHead(seen, x), x, [blocked EXCEPT !.writer = writer, !.replay = old.body]), x)

\* onResponseStart
CacheHead(t, x) ==
  LET u == x[1]
      r == Header(Ex(t, x).answer)
      verdict == Verdict(u, r)
      started == Set(PassHead(t, x), x, [Ex(t, x) EXCEPT !.phase = "body"])
  IN IF Request(u).method \notin SafeMethods /\ r.status \in 200..399
       THEN InvalidateUnsafe(started, u, r)
     ELSE IF verdict = "drop" THEN StoreDelete(started, Request(u).path)
     ELSE IF verdict = "pass" THEN started
     ELSE IF r.status = 304 THEN Handle304(t, x, r)
     ELSE Set(started, x, [Ex(started, x) EXCEPT
            !.writer = [NoWriter EXCEPT !.st = "open",
                                        !.entry = Value(u, r, Ex(t, x).answer.rep)]])

\* onResponseData
CacheData(t, x, chunk) ==
  LET e == Ex(t, x)
      writer == Written(e.writer, chunk)
  IN Set(PassData(t, x, chunk), x,
         [e EXCEPT !.at = @ + 1, !.writer = writer, !.paused = @ \/ Full(writer)])

\* onResponseEnd: end() of the write stream stores the entry at once.
CacheEnd(t, x) ==
  LET e == Ex(t, x)
      stored == IF e.writer.st = "open" THEN StoreFinal(t, x[1], e.writer.entry) ELSE t
  IN Set(IF Silent(x) THEN stored ELSE UserEnd(stored, x[1]), x, NoExchange)

----------------------------------------------------------------------------
(* The interceptor                                                          *)

\* sendCachedValue
SendCached(t, u, entry, how, since) ==
  LET head == UserHead(Started(t, u, "cached"), u, entry.status, entry.rep)
  IN [head EXCEPT !.users[u].stream = IF Request(u).method = "HEAD" THEN <<>> ELSE entry.body,
                  !.users[u].claim = [how |-> how, since |-> since, id |-> entry.id]]

\* handleUncachedResponse
HandleUncached(t, u) ==
  IF RequestControl(u).onlyIfCached THEN UserEnd(UserHead(t, u, 504, NoRep), u)
  ELSE Dispatch(t, <<u, "main">>, "cache", OwnCondition(u))

\* handleResult
HandleResult(t, u, entry) ==
  LET expired == RequestMaxAgeExpired(entry, Asked(u), now)
      stale == expired \/ IsStale(entry, Asked(u), Shared, now)
      revalidate == expired \/ NeedsRevalidation(entry, Asked(u))
      judged == [t EXCEPT !.users[u].looked = now]
      asking == Dispatch(judged, <<u, "main">>, "reval", entry.rep)
  IN IF entry = NoEntry THEN HandleUncached(t, u)
     ELSE IF Shared /\ entry.cookie THEN HandleUncached(StoreDelete(t, Request(u).path), u)
     ELSE IF now > entry.deleteAt THEN Dispatch(t, <<u, "main">>, "cache", OwnCondition(u))
     ELSE IF ~stale /\ ~revalidate THEN SendCached(judged, u, entry, "hit", now)
     ELSE IF Request(u).stream THEN Dispatch(t, <<u, "main">>, "cache", OwnCondition(u))
     ELSE IF ~revalidate /\ WithinStaleWhileRevalidate(entry, Shared, now)
       THEN Dispatch(SendCached(judged, u, entry, "swr", now), <<u, "back">>, "cache", entry.rep)
     ELSE Set(asking, <<u, "main">>, [Ex(asking, <<u, "main">>) EXCEPT
            !.found = entry, !.sie = WithinStaleIfError(entry, Asked(u), Shared, now)])

\* What a validated response becomes of the stored one: it is asked for again,
\* reused and deleted, because the 304 has a Cache-Control of its own, or reused.
OnRevalidation(found, r, dirs) ==
  IF DisallowsReuse(Shared, r, dirs) THEN "again"
  ELSE IF dirs.there THEN "replaced"
  ELSE IF ~(r.vary \subseteq DOMAIN found.vary) THEN "again"
  ELSE "kept"

\* onResponseStart of CacheRevalidationHandler, with the callback it is given.
RevalHead(t, x) ==
  LET u == x[1]
      e == Ex(t, x)
      r == Header(e.answer)
      notModified == r.status = 304
      verdict == IF notModified THEN OnRevalidation(e.found, r, ParseCacheControl(r.cc))
                 ELSE "kept"
      dropped == StoreDelete(t, Request(u).path)
      again == Dispatch(dropped, x, "cache", OwnCondition(u))
      how == IF notModified THEN "validated" ELSE "unreachable"
      since == IF notModified THEN e.answer.date ELSE t.users[u].looked
      Send(s) == Set(SendCached(s, u, e.found, how, since), x, NoExchange)
  IN IF ~(notModified \/ (e.sie /\ r.status \in 500..504))
       THEN CacheHead(Set(Started(t, u, "request"), x, [e EXCEPT !.handler = "cache"]), x)
     ELSE CASE verdict = "again" -> again
            [] verdict = "replaced" -> Send(dropped)
            [] verdict = "kept" -> Send(t)

\* onResponseError of the three handlers
ExchangeError(t, x) ==
  LET u == x[1]
      e == Ex(t, x)
      gone == Set(t, x, NoExchange)
  IN IF e.handler = "cache" THEN CacheError(t, x)
     ELSE IF e.handler = "reval" /\ e.sie
       THEN SendCached(gone, u, e.found, "unreachable", t.users[u].looked)
     ELSE UserError(gone, u)

----------------------------------------------------------------------------
(* The users                                                                *)

\* The function that the interceptor returns.  Users ask in the
\* order of kind.asks, each when the last one has its answer if they are apart.
Ask(u) ==
  LET got == StoreGet(sys, Key(u))
      asked == [sys EXCEPT !.users[u].at = "asked",
                           !.users[u].base = sys.purged[Request(u).path]]
      looked == [asked EXCEPT !.store = got.store]
      main == <<u, "main">>
  IN /\ sys.users[u].at = "new"
     /\ \A v \in Users : v < u => /\ sys.users[v].at # "new"
                                   /\ kind.apart => sys.users[v].ends > 0
     /\ sys' = IF \/ Request(u).method \in SafeMethods \ kind.methods
                  \/ RequestControl(u).noStore
               THEN Dispatch(asked, main, "bare", OwnCondition(u))
               ELSE IF Request(u).method \notin SafeMethods
               THEN Dispatch(asked, main, "cache", OwnCondition(u))
               ELSE IF kind.later
               THEN [looked EXCEPT !.users[u].at = "looking", !.users[u].found = got.entry]
               ELSE HandleResult(looked, u, got.entry)
     /\ UNCHANGED <<kind, now, origin>>

\* A store that answers get() with a promise.
Found(u) ==
  /\ sys.users[u].at = "looking"
  /\ sys' = HandleResult([sys EXCEPT !.users[u].at = "asked", !.users[u].found = NoEntry],
                         u, sys.users[u].found)
  /\ UNCHANGED <<kind, now, origin>>

CachedData(u) ==
  /\ sys.users[u].controller = "cached" /\ sys.users[u].stream # <<>>
  /\ sys' = [UserData(sys, u, Head(sys.users[u].stream)) EXCEPT !.users[u].stream = Tail(@)]
  /\ UNCHANGED <<kind, now, origin>>

\* 'close' of the stream of a cached body
CachedEnd(u) ==
  /\ sys.users[u].controller = "cached" /\ sys.users[u].stream = <<>>
  /\ sys' = UserEnd(sys, u)
  /\ UNCHANGED <<kind, now, origin>>

Abort(u) ==
  /\ kind.aborts /\ sys.users[u].controller # "none"
  /\ sys' = IF sys.users[u].controller = "cached"
            THEN [UserError(sys, u) EXCEPT !.users[u].stream = <<>>]
            ELSE ExchangeError(sys, <<u, "main">>)
  /\ UNCHANGED <<kind, now, origin>>

\* The user's controller is CacheController, or that of a bare request.
Pause(u) ==
  /\ kind.pauses /\ sys.users[u].controller = "request" /\ sys.users[u].pause = "never"
  /\ sys' = [sys EXCEPT !.users[u].pause = "now", !.ex[u].main.down = TRUE,
                        !.ex[u].main.paused = TRUE]
  /\ UNCHANGED <<kind, now, origin>>

Resume(u) ==
  /\ sys.users[u].controller = "request" /\ sys.users[u].pause = "now"
  /\ sys' = [sys EXCEPT !.users[u].pause = "over", !.ex[u].main.down = FALSE,
                        !.ex[u].main.paused = @ /\ sys.ex[u].main.blocked]
  /\ UNCHANGED <<kind, now, origin>>

----------------------------------------------------------------------------
(* The dispatcher and the origin                                            *)

\* A version that was current within the age of the answer, a 304 for the one
\* that is, or an error.
Answers(u, confirms) ==
  LET path == Request(u).path
      served == origin[path]
      Of200(v) == [status |-> 200, rep |-> Representation(u, v), date |-> now, made |-> served.made[v]]
      Bare(status) == [status |-> status, rep |-> NoRep, date |-> now, made |-> 0]
      recent == {v \in 1..served.v : served.last[v] >= now - Max({0, kind.page.age})}
  IN IF Request(u).method \notin SafeMethods THEN {Bare(201)}
     ELSE {Of200(v) : v \in recent}
          \cup (IF confirms = Representation(u, served.v)
                THEN {[Of200(served.v) EXCEPT !.status = 304]} ELSE {})
          \cup {Bare(status) : status \in kind.errors}

\* The resource at p changes.
Renewed(p) ==
  LET v == origin[p].v + 1
  IN IF v > MaxVersion THEN origin
     ELSE [origin EXCEPT ![p].v = v, ![p].made[v] = now, ![p].last[v] = now]

\* onRequestStart, and what the origin answers.
Answer(x) ==
  LET u == x[1]
      e == Ex(sys, x)
      started == IF e.handler = "reval" \/ Silent(x) THEN sys ELSE Started(sys, u, "request")
  IN /\ e.phase = "queued"
     /\ \E answer \in Answers(u, e.confirms) :
          sys' = Set(started, x, [e EXCEPT !.phase = "answered", !.answer = answer])
     /\ origin' = IF Request(u).method \in SafeMethods THEN origin ELSE Renewed(Request(u).path)
     /\ UNCHANGED <<kind, now>>

\* Unless Overtaken, a 304 for a CacheHandler finds what it confirms.
Confirms(x) ==
  LET e == Ex(sys, x)
      entry == StoreGet(sys, Key(x[1])).entry
  IN e.handler = "cache" /\ e.answer.status = 304 /\ entry # NoEntry => entry.rep = e.answer.rep

HeadArrives(x) ==
  LET e == Ex(sys, x)
  IN /\ e.phase = "answered" /\ ~e.paused
     /\ Overtaken \/ Confirms(x)
     /\ sys' = IF e.handler = "cache" THEN CacheHead(sys, x)
               ELSE IF e.handler = "reval" THEN RevalHead(sys, x)
               ELSE Set(PassHead(sys, x), x, [e EXCEPT !.phase = "body"])
     /\ UNCHANGED <<kind, now, origin>>

Remaining(x) ==
  LET e == Ex(sys, x)
  IN IF e.answer.status = 200 /\ Request(x[1]).method = "GET" THEN BodyLen(Request(x[1]).path) - e.at ELSE 0

ChunkArrives(x) ==
  LET e == Ex(sys, x)
      chunk == [rep |-> e.answer.rep, at |-> e.at + 1]
  IN /\ e.phase = "body" /\ ~e.paused /\ Remaining(x) > 0
     /\ sys' = IF e.handler = "cache" THEN CacheData(sys, x, chunk)
               ELSE Set(PassData(sys, x, chunk), x, [e EXCEPT !.at = @ + 1])
     /\ UNCHANGED <<kind, now, origin>>

EndArrives(x) ==
  LET e == Ex(sys, x)
  IN /\ e.phase = "body" /\ ~e.paused /\ Remaining(x) = 0
     /\ sys' = IF e.handler = "cache" THEN CacheEnd(sys, x)
               ELSE UserEnd(Set(sys, x, NoExchange), x[1])
     /\ UNCHANGED <<kind, now, origin>>

\* The connection fails, or none can be made.  What Overtaken excludes ends so.
Fail(x) ==
  /\ kind.fails \/ ~(Overtaken \/ Confirms(x))
  /\ Ex(sys, x).phase # "none"
  /\ sys' = ExchangeError(sys, x)
  /\ UNCHANGED <<kind, now, origin>>

\* Mutant of Drain: 'close' of a stream that destroyed itself resumes nothing.
DrainOpenOnly(x) ==
  LET e == Ex(sys, x)
      drained == [e EXCEPT !.writer.full = FALSE,
                           !.writer.st = IF @ = "destroyed" THEN "none" ELSE @]
  IN /\ Full(e.writer)
     /\ sys' = IF e.answer.status = 304 THEN Replay(Set(sys, x, drained), x)
               ELSE Set(sys, x, [drained EXCEPT !.paused = @ /\ e.writer.st = "destroyed"])
     /\ UNCHANGED <<kind, now, origin>>

\* 'drain' or 'close' of #writeStream, in a later job: a response is resumed,
\* paused downstream or not; a replay goes on.
Drain(x) ==
  LET e == Ex(sys, x)
      drained == [e EXCEPT !.writer.full = FALSE,
                           !.writer.st = IF @ = "destroyed" THEN "none" ELSE @]
  IN /\ Full(e.writer)
     /\ sys' = IF e.answer.status = 304 THEN Replay(Set(sys, x, drained), x)
               ELSE Set(sys, x, [drained EXCEPT !.paused = FALSE])
     /\ UNCHANGED <<kind, now, origin>>

Tick ==
  /\ now < StartTime + kind.time
  /\ now' = now + 1
  /\ origin' = [p \in Paths |-> [origin[p] EXCEPT !.last[origin[p].v] = now + 1]]
  /\ UNCHANGED <<kind, sys>>

Change(p) ==
  /\ kind.changes /\ origin[p].made[origin[p].v] < now
  /\ origin' = Renewed(p)
  /\ UNCHANGED <<kind, now, sys>>

Exchanges == {<<u, w>> : u \in Users, w \in {"main", "back"}}

Deliver(x) == Answer(x) \/ HeadArrives(x) \/ ChunkArrives(x) \/ EndArrives(x) \/ Fail(x)
Read(u) == Found(u) \/ CachedData(u) \/ CachedEnd(u) \/ Resume(u)

Next ==
  \/ \E u \in Users : Ask(u) \/ Read(u) \/ Abort(u) \/ Pause(u)
  \/ \E x \in Exchanges : Deliver(x) \/ Drain(x)
  \/ Tick
  \/ Change("/")

Spec == Init /\ [][Next]_vars

\* Requests are answered or fail, streams go on, and a user that paused resumes:
\* while one of these steps can be taken, one is.
Progress ==
  \/ \E u \in Users : Read(u)
  \/ \E x \in Exchanges : Deliver(x) \/ Drain(x)

Moves(x) ==
  LET e == Ex(sys, x)
  IN \/ e.phase = "queued" \/ Full(e.writer)
     \/ e.phase # "none" /\ kind.fails
     \/ e.phase \in {"answered", "body"} /\ ~e.paused

CanProgress ==
  \/ \E x \in Exchanges : Moves(x)
  \/ \E u \in Users :
       LET user == sys.users[u]
       IN \/ user.at = "looking" \/ user.controller = "cached"
          \/ user.controller = "request" /\ user.pause = "now"

Fairness == []<>(~CanProgress) \/ []<><<Progress>>_vars

FairSpec == Spec /\ Fairness

----------------------------------------------------------------------------
(* Properties                                                               *)

\* How long after it was last current a response may be served: its lifetime,
\* what the page or the request add to it, and no more than the request wants.
Leave(u, how) ==
  LET cc == RequestControl(u)
      granted == kind.life +
        (IF kind.strict THEN 0 ELSE IF how = "hit" THEN Max({0, cc.maxStale}) ELSE kind.grace)
  IN IF how = "validated" THEN 0
     ELSE IF how = "unreachable" \/ cc.maxAge < 0 THEN granted - Max({0, cc.minFresh})
     ELSE Min({granted, cc.maxAge})

\* A response served from the store is one of what was asked for, was current
\* not longer ago than its header and the request allow, and is not from before
\* an unsafe request that had invalidated it when the user asked.
ReuseIsSound ==
  \A u \in Users :
    LET user == sys.users[u]
    IN user.claim.how # "none" =>
         /\ user.rep.path = Request(u).path /\ user.rep.lang \in {"any", Request(u).lang}
         /\ origin[user.rep.path].last[user.rep.v] >= user.claim.since - Leave(u, user.claim.how)
         /\ user.claim.id > user.base

\* A user gets one head, the chunks of one representation in order and all of
\* them before the end, one end or error, and nothing after it, whether the
\* body comes from the origin, from the store or from both; except that what is
\* left of a body replayed behind a 304 follows the error of its exchange.
IntactBody ==
  \A u \in Users :
    LET user == sys.users[u]
    IN user.intact /\ (user.late => user.failed /\ user.status = 304)

\* What the memory store counts is what it holds, both stores keep to their
\* limits, and every entry has the whole body of one representation.
StoreConsistent ==
  LET entries == ToSet(sys.store.entries)
      Whole(e) == e.status = 200 /\ e.method = "GET" =>
                    e.body = [i \in 1..BodyLen(e.path) |-> [rep |-> e.rep, at |-> i]]
  IN /\ Len(sys.store.entries) <= MaxCount
     /\ kind.store = "memory" =>
          /\ sys.store.count = Len(sys.store.entries)
          /\ sys.store.size = FoldLeft(LAMBDA n, e : n + Size(e), 0, sys.store.entries)
          /\ sys.store.size <= MaxSize
     /\ \A e \in entries : Whole(e) /\ Size(e) <= MaxEntrySize

\* Whoever asks is answered, or told of an error.
EveryUserAnswered ==
  []<>(\A u \in Users : sys.users[u].at # "new" => sys.users[u].ends = 1)

=============================================================================
