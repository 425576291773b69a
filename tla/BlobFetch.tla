----------------------------- MODULE BlobFetch -----------------------------
(***************************************************************************)
(* What schemeFetch (lib/web/fetch/index.js) answers without the network,  *)
(* and which bytes of a blob it answers a Range header with.  Only the     *)
(* arithmetic: a byte is its position, and nothing here waits.             *)
(***************************************************************************)
EXTENDS Integers

Null == -1
Number == Nat \cup {Null}

\* query: a blob: URL with a query; get: the method is GET; size: of the data,
\* Null if the URL names no Blob or is no valid data: URL.
Urls == [scheme : {"about", "blob", "data", "file", "unknown"},
         query : BOOLEAN, get : BOOLEAN, size : Number]

\* What a Range header of the form bytes=start-end says; a header of any other
\* form is an error and stands for one without numbers.
Ranges == [start : Number, end : Number]

IsRange(range) ==
  /\ range.start # Null \/ range.end # Null
  /\ range.start # Null /\ range.end # Null => range.start <= range.end

\* Blob.slice(): a negative position counts from the end.
Position(p, size) ==
  IF p < 0 THEN (IF size + p < 0 THEN 0 ELSE size + p)
           ELSE (IF p > size THEN size ELSE p)

\* The response with the bytes from first to last, as its headers name them.
Response(status, size, first, last) ==
  [status |-> status, first |-> first, last |-> last,
   from |-> Position(first, size), beyond |-> Position(last + 1, size)]

ErrorResponse == [status |-> 0, first |-> 0, last |-> 0, from |-> 0, beyond |-> 0]

WholeResponse(size) == Response(200, size, 0, size - 1)

\* A range without a start is a suffix.
PartialResponse(size, range) ==
  IF range.start = Null
  THEN Response(206, size, size - range.end, size - range.end + range.end - 1)
  ELSE Response(206, size, range.start,
         IF range.end = Null \/ range.end >= size THEN size - 1 ELSE range.end)

\* A blob with a Range header.
RangeResponse(size, range) ==
  IF ~IsRange(range) \/ range.start >= size THEN ErrorResponse
  ELSE PartialResponse(size, range)

\* ranges: the Range headers of the request, at most one.
BlobResponse(url, ranges) ==
  IF url.query \/ ~url.get \/ url.size = Null THEN ErrorResponse
  ELSE IF ranges = {} THEN WholeResponse(url.size)
  ELSE RangeResponse(url.size, CHOOSE range \in ranges : TRUE)

DataResponse(url) ==
  IF url.size = Null THEN ErrorResponse ELSE WholeResponse(url.size)

SchemeFetch(url, ranges) ==
  CASE url.scheme = "blob" -> BlobResponse(url, ranges)
    [] url.scheme = "data" -> DataResponse(url)
    [] OTHER -> ErrorResponse

----------------------------------------------------------------------------
\* The bytes of the body, those that the headers of the response name, and those
\* that a range names of a blob, by RFC 9110.
Served(response) == {p \in Nat : response.from <= p /\ p < response.beyond}
Named(response) == response.first .. response.last
Asked(size, range) ==
  {p \in 0 .. size - 1 :
     IF range.start = Null THEN p >= size - range.end
     ELSE p >= range.start /\ (range.end # Null => p <= range.end)}
=============================================================================
