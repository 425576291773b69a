----------------------------- MODULE MCCaching -----------------------------
(* The scenarios of the Caching run: what is asked for, and how the origin's *)
(* pages may be cached.                                                      *)
EXTENDS Caching

Get == [path |-> "/", method |-> "GET", lang |-> "en", cc |-> {}, pragma |-> FALSE,
        conditional |-> FALSE, authorization |-> FALSE, stream |-> FALSE]
With(d) == [Get EXCEPT !.cc = d]
Post == [Get EXCEPT !.method = "POST", !.path = "/other"]
Page == [cc |-> {}, expires |-> Absent, lastModified |-> Absent, etag |-> TRUE, vary |-> {},
         cookie |-> FALSE, date |-> 0, age |-> Absent, locations |-> {}]
MaxAge(n) == {Number("max-age", n)}
Never == -1000   \* the life of what may not be reused

Base == [asks |-> <<Get, Get>>, type |-> "shared", store |-> "memory", methods |-> {"GET"},
         byDefault |-> 0, page |-> [Page EXCEPT !.cc = MaxAge(2)], confirm |-> Page, other |-> Page,
         time |-> 3, apart |-> FALSE, chunks |-> 1, large |-> FALSE, later |-> FALSE, errors |-> {}, fails |-> FALSE, changes |-> TRUE,
         aborts |-> FALSE, pauses |-> FALSE, legacy |-> FALSE, life |-> 2, grace |-> 0, strict |-> FALSE]
Fixed == [Base EXCEPT !.changes = FALSE]
Cached(k, cc, life) == [k EXCEPT !.page.cc = cc, !.life = life]

\* How long a page is fresh.
Lifetimes ==
  {[Base EXCEPT !.fails = TRUE, !.aborts = TRUE, !.chunks = 2],
   [Base EXCEPT !.page.age = 1],
   [Cached(Base, {}, 2) EXCEPT !.page.expires = 2],
   [Cached(Base, {}, 2) EXCEPT !.page.lastModified = 0, !.changes = FALSE],
   [Cached(Base, {}, 2) EXCEPT !.byDefault = 2],
   Cached(Base, {Number("s-maxage", 1), Number("max-age", 3)}, 1),
   [Cached(Base, {Number("s-maxage", 1), Number("max-age", 2)}, 2) EXCEPT !.type = "private"],
   [Cached(Base, MaxAge(2) \cup {Flag("private")}, 2) EXCEPT !.type = "private"],
   Cached(Base, {Flag("no-cache")}, 0)}

\* What a shared cache may not keep, or may not show to everybody.
Forbidden ==
  {Cached(Fixed, MaxAge(2) \cup {Flag("no-store")}, Never),
   Cached(Fixed, MaxAge(2) \cup {Flag("private")}, Never),
   [Cached(Fixed, MaxAge(2), Never) EXCEPT !.page.cookie = TRUE],
   [Cached(Fixed, MaxAge(2), Never) EXCEPT !.page.cookie = TRUE, !.legacy = TRUE, !.store = "sqlite"],
   [Cached(Fixed, MaxAge(2), Never) EXCEPT !.page.vary = {"*"}],
   [Cached(Fixed, MaxAge(2), Never) EXCEPT !.asks[1].authorization = TRUE, !.asks[2].authorization = TRUE],
   [Fixed EXCEPT !.page.vary = {"lang"}, !.asks = <<Get, [Get EXCEPT !.lang = "fr"], Get>>]}

\* What a request asks of the store.
Requests ==
  {[Base EXCEPT !.asks[2] = r] :
     r \in {With({Number("max-stale", 1)}), With({Number("min-fresh", 1)}), With(MaxAge(1)),
            With({Flag("no-store")}), With({Flag("only-if-cached")}),
            [Get EXCEPT !.pragma = TRUE], [Get EXCEPT !.stream = TRUE]}}
  \cup {[Cached(Base, MaxAge(1) \cup {Flag("must-revalidate")}, 1) EXCEPT
           !.strict = TRUE, !.asks[2] = With({Number("max-stale", 2)})]}

\* Stale responses, revalidated before or after they are served.
Stale ==
  {[Cached(Base, MaxAge(1) \cup {Number("stale-while-revalidate", 1)}, 1) EXCEPT
      !.asks = a, !.grace = 1, !.large = Len(a) = 2, !.apart = Len(a) = 3] : a \in {<<Get, Get>>, <<Get, Get, Get>>}}
  \cup
  {[Cached(Base, MaxAge(1) \cup {Number("stale-if-error", 2)}, 1) EXCEPT
      !.grace = 2, !.errors = {500}, !.fails = TRUE],
   [Base EXCEPT !.confirm.cc = MaxAge(1)],
   [Base EXCEPT !.confirm.cc = {Flag("no-store")}],
   [Base EXCEPT !.confirm.vary = {"lang"}],
   [Base EXCEPT !.asks[2].conditional = TRUE, !.confirm.cc = MaxAge(2), !.time = 0, !.changes = FALSE, !.large = TRUE, !.chunks = 2, !.pauses = TRUE,
      !.fails = TRUE, !.aborts = TRUE],
   [Base EXCEPT !.asks[2].conditional = TRUE, !.time = 0, !.confirm.cc = MaxAge(2), !.store = "sqlite", !.fails = TRUE]}

\* Unsafe requests, other methods, stores with limits or that answer later.
Stores ==
  {[Base EXCEPT !.asks = <<Get, Post, Get>>, !.other.locations = {"/"}, !.later = l, !.time = 1, !.apart = ~l] : l \in BOOLEAN}
  \cup
  {[Base EXCEPT !.methods = {"GET", "HEAD"}, !.store = s, !.page.vary = {"lang"}, !.time = 0, !.apart = TRUE,
      !.asks = <<Get, [Get EXCEPT !.lang = "fr"], [Get EXCEPT !.method = "HEAD"]>>] :
        s \in {"memory", "sqlite"}}
  \cup
  {[Fixed EXCEPT !.asks[2].path = "/other", !.time = 0, !.large = TRUE, !.chunks = 2, !.pauses = TRUE],
   [Fixed EXCEPT !.asks[2].method = "HEAD"]}

MCKinds == Lifetimes \cup Forbidden \cup Requests \cup Stale \cup Stores
=============================================================================
