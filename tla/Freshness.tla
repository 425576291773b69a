----------------------------- MODULE Freshness -----------------------------
(***************************************************************************)
(* What the HTTP cache decides from headers (lib/util/cache.js, the        *)
(* functions of lib/handler/cache-handler.js and lib/interceptor/cache.js):*)
(* may a response be stored, until when is it fresh and kept, may it be    *)
(* reused.  Times are in seconds; the code has milliseconds.               *)
(*                                                                         *)
(* Cache-Control is a set of directives [key, arg, n, fields]: arg is      *)
(* "none" for one without "=", "number" or "fields" for one whose value    *)
(* has that form, "bad" for any other value, and "torn" for one behind a   *)
(* quote that is never closed.                                             *)
(***************************************************************************)
EXTENDS Integers, FiniteSets, FiniteSetsExt

Absent == -1    \* a number or a date that is not there
Invalid == -2   \* one that is there and cannot be read

Flag(key) == [key |-> key, arg |-> "none", n |-> 0, fields |-> {}]
Number(key, n) == [key |-> key, arg |-> "number", n |-> n, fields |-> {}]
Fields(key, fields) == [key |-> key, arg |-> "fields", n |-> 0, fields |-> fields]

----------------------------------------------------------------------------
(* parseCacheControlHeader                                                  *)

Of(header, key) == {d \in header : d.key = key}

\* A directive that is repeated counts as the stricter of the two.
Numeric(header, key) ==
  LET mine == {d \in Of(header, key) : d.arg # "torn"}
      values == {d.n : d \in mine}
  IN IF mine = {} THEN Absent
     ELSE IF \E d \in mine : d.arg # "number" THEN Invalid
     ELSE IF key = "min-fresh" THEN Max(values) ELSE Min(values)

\* private and no-cache, for the whole response or for some of its fields.
Qualified(header, key) ==
  LET mine == Of(header, key)
      all == \E d \in mine : d.arg # "fields"
  IN [all |-> all, fields |-> IF all THEN {} ELSE UNION {d.fields : d \in mine}]

Unqualified(header, key) ==
  LET mine == {d \in Of(header, key) : d.arg # "torn"}
  IN mine # {} /\ \A d \in mine : d.arg = "none"

ParseCacheControl(header) ==
  [there          |-> header # {},
   noStore        |-> Of(header, "no-store") # {},
   private        |-> Qualified(header, "private"),
   noCache        |-> Qualified(header, "no-cache"),
   public         |-> Unqualified(header, "public"),
   mustRevalidate |-> Unqualified(header, "must-revalidate"),
   proxyRevalidate |-> Unqualified(header, "proxy-revalidate"),
   immutable      |-> Unqualified(header, "immutable"),
   onlyIfCached   |-> Unqualified(header, "only-if-cached"),
   maxAge         |-> Numeric(header, "max-age"),
   sMaxage        |-> Numeric(header, "s-maxage"),
   swr            |-> Numeric(header, "stale-while-revalidate"),
   sie            |-> Numeric(header, "stale-if-error"),
   maxStale       |-> Numeric(header, "max-stale"),
   minFresh       |-> Numeric(header, "min-fresh")]

----------------------------------------------------------------------------
(* Vary: a set of header names, "*", and "?" for what is no name.           *)

HasVaryStar(vary) == "*" \in vary
IsInvalidOrWildcardVary(vary) == vary \cap {"*", "?"} # {}
ParseVary(vary, headers) == [h \in vary |-> headers[h]]

----------------------------------------------------------------------------
(* cache-handler.js: a response r that came at now.                         *)

HeuristicallyCacheable == {200, 203, 204, 206, 300, 301, 308, 404, 405, 410, 414, 501}
NotUnderstood == {206}
Year == 31536000
RevalidationOnlyRetention == 86400

\* revalidationResponseDisallowsCachedReuse
DisallowsReuse(shared, r, dirs) ==
  \/ dirs.noStore
  \/ shared /\ (dirs.private.all \/ r.cookie)
  \/ IsInvalidOrWildcardVary(r.vary)

\* A cache that is shared keeps what was asked with credentials only if told to.
AuthorizedToStore(dirs) ==
  /\ dirs.public \/ dirs.sMaxage > 0 \/ dirs.mustRevalidate
  /\ "authorization" \notin dirs.noCache.fields \cup dirs.private.fields

CanCacheResponse(shared, r, dirs, authorization) ==
  /\ r.status >= 200 /\ r.status \notin NotUnderstood
  /\ \/ r.status \in HeuristicallyCacheable
     \/ r.expires # Absent \/ dirs.public \/ dirs.maxAge >= 0
     \/ ~shared /\ (dirs.private.all \/ dirs.private.fields # {})
     \/ shared /\ dirs.sMaxage >= 0
  /\ ~dirs.noStore
  /\ ~(shared /\ (dirs.private.all \/ r.cookie))
  /\ ~HasVaryStar(r.vary)
  /\ authorization => AuthorizedToStore(dirs)

\* What Expires says, when it is a date to come.
ExpiresLifetime(now, r) ==
  IF r.expires = Invalid \/ now >= r.expires THEN 0
  ELSE IF r.date < 0 THEN r.expires - now
  ELSE IF r.date >= r.expires \/ (r.age >= 0 /\ r.age >= r.expires - r.date) THEN 0
  ELSE r.expires - r.date

HasValidator(r) == r.etag \/ r.lastModified # Absent

\* The freshness lifetime, Absent when nothing tells it.
DetermineStaleAt(shared, now, r, dirs) ==
  IF shared /\ dirs.sMaxage # Absent THEN Max({dirs.sMaxage, 0})
  ELSE IF dirs.maxAge # Absent THEN Max({dirs.maxAge, 0})
  ELSE IF r.expires # Absent THEN ExpiresLifetime(now, r)
  ELSE IF r.lastModified >= 0
    THEN IF r.lastModified >= now THEN Absent ELSE (now - r.lastModified) \div 10
  ELSE IF dirs.immutable THEN Year
  ELSE IF dirs.noCache.all /\ HasValidator(r) THEN 0
  ELSE Absent

\* How old a response is when it comes: the older of what Date and Age say.
CurrentAge(now, r) ==
  Max({0, r.age} \cup (IF r.date >= 0 THEN {now - r.date} ELSE {}))

DetermineDeleteAt(baseTime, now, dirs, staleAt) ==
  LET extended == {staleAt + n : n \in {dirs.swr, dirs.sie} \cap (Nat \ {0})}
      lifetime == staleAt - baseTime
  IN IF extended # {} THEN Max(extended)
     ELSE IF dirs.immutable THEN Max({staleAt, now + Year})
     ELSE IF lifetime <= 0 THEN now + RevalidationOnlyRetention
     ELSE staleAt + lifetime + Min({Max({now - baseTime, 0}), 1})

----------------------------------------------------------------------------
(* interceptor/cache.js: a stored response asked for with req at now.       *)

NeedsRevalidation(entry, req) ==
  req.cc.noCache.all \/ req.cc.noCache.fields # {} \/ entry.cc.noCache.all \/ req.conditional

StaleRequiresRevalidation(entry, shared) ==
  \/ entry.cc.mustRevalidate
  \/ shared /\ (entry.cc.proxyRevalidate \/ entry.cc.sMaxage >= 0)

IsStale(entry, req, shared, now) ==
  IF now > entry.staleAt
  THEN \/ StaleRequiresRevalidation(entry, shared)
       \/ req.cc.maxStale <= 0
       \/ now > entry.staleAt + req.cc.maxStale
  ELSE req.cc.minFresh > 0 /\ entry.staleAt - now <= req.cc.minFresh

WithinStaleWhileRevalidate(entry, shared, now) ==
  /\ entry.cc.swr > 0 /\ ~StaleRequiresRevalidation(entry, shared)
  /\ now <= entry.staleAt + entry.cc.swr

WithinStaleIfError(entry, req, shared, now) ==
  LET window == IF entry.cc.sie >= 0 THEN entry.cc.sie ELSE req.cc.sie
  IN /\ ~StaleRequiresRevalidation(entry, shared)
     /\ window > 0 /\ now < entry.staleAt + window

RequestMaxAgeExpired(entry, req, now) ==
  req.cc.maxAge >= 0 /\ now - entry.cachedAt >= req.cc.maxAge
=============================================================================
