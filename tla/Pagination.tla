------------------------------- MODULE Pagination -------------------------------
(***************************************************************************)
(* Reading a list page by page: the loop of items() in eazy_sdk/api.py and *)
(* the next request of a strategy (eazy_sdk/pagination.py, next_changes).  *)
(* items() is a generator, which is suspended over each request and each   *)
(* element it hands out.                                                   *)
(*                                                                         *)
(* A listing is what the server serves and how the operation reads it: a   *)
(* list of length elements, named by their places, in pages of size; a     *)
(* server that clamps answers the last page again for every number past    *)
(* it; the kind of the strategy, whether the request states the size of a  *)
(* page (sized), and whether the result states the total (counted).  A     *)
(* request is a position: the number of a page from 1, an offset from 0,   *)
(* or the token or link the page before gave, which stands for the place   *)
(* it continues after.                                                     *)
(***************************************************************************)
EXTENDS Integers, SequencesExt

CONSTANTS
    Listings,   \* [length, size, clamps, kind, sized, counted]
    Limits,     \* [keyed, maxItems, maxPages], what items() is called with; 0 is no limit
    MaxSent     \* bound on the requests, for TLC

Kinds == {"numbered", "offset", "cursor"}

ASSUME PaginationAssumption ==
    /\ Listings \subseteq [length : Nat, size : Nat \ {0}, clamps : BOOLEAN, kind : Kinds,
                           sized : BOOLEAN, counted : BOOLEAN]
    /\ \A l \in Listings : l.clamps => l.kind = "numbered" /\ l.length # 0
    /\ Limits \subseteq [keyed : BOOLEAN, maxItems : Nat, maxPages : Nat]

VARIABLES
    listing,    \* what is read
    limits,     \* the arguments of items()
    phase,      \* the iteration sends, hands out a page, or is over
    request,    \* the next request, or the one of this page
    taken,      \* elements of the page that were looked at
    fresh,      \* those of them that were new
    given,      \* the elements handed out
    sent        \* requests sent

readVars == <<listing, limits, phase, request, taken, fresh, given, sent>>

Over == -1          \* there is no next request

Lesser(m, n) == IF m < n THEN m ELSE n

TotalPages == (listing.length + listing.size - 1) \div listing.size

\* The server's page for a request, and the token it hands out for the next one.
PageStart ==
    IF listing.kind # "numbered" THEN request
    ELSE IF listing.clamps /\ request > TotalPages THEN (TotalPages - 1) * listing.size
    ELSE (request - 1) * listing.size

PageLength ==
    IF PageStart < listing.length THEN Lesser(listing.size, listing.length - PageStart) ELSE 0

Token == IF PageStart + listing.size < listing.length THEN PageStart + listing.size ELSE Over

\* A page that is shorter than the size the request states is the last one.
IsShort == listing.sized /\ PageLength < listing.size

\* A fault: pages are counted from zero.
NextNumberedFromZero ==
    IF (listing.counted /\ request + 1 >= TotalPages) \/ IsShort THEN Over ELSE request + 1

NextNumbered ==
    IF (listing.counted /\ request >= TotalPages) \/ IsShort THEN Over ELSE request + 1

NextOffset ==
    IF (listing.counted /\ request + PageLength >= listing.length) \/ IsShort
    THEN Over
    ELSE request + PageLength

\* The cursor and the link strategies go where the page says.
NextCursor == Token

NextChanges ==
    CASE fresh <= 0 -> Over
      [] fresh > 0 /\ listing.kind = "numbered" -> NextNumbered
      [] fresh > 0 /\ listing.kind = "offset" -> NextOffset
      [] fresh > 0 /\ listing.kind = "cursor" -> NextCursor

-----------------------------------------------------------------------------
ReadingBegins(l, a) ==
    /\ listing = l /\ limits = a
    /\ phase = "send"
    /\ request = IF l.kind = "numbered" THEN 1 ELSE 0
    /\ taken = 0 /\ fresh = 0 /\ given = <<>> /\ sent = 0

ReadInit == \E l \in Listings, a \in Limits : ReadingBegins(l, a)

\* The loop's condition.
MaySend == limits.maxPages = 0 \/ sent < limits.maxPages

Send ==
    /\ phase = "send" /\ MaySend /\ sent < MaxSent
    /\ phase' = "give"
    /\ sent' = sent + 1 /\ taken' = 0 /\ fresh' = 0
    /\ UNCHANGED <<listing, limits, request, given>>

EnoughPages ==
    /\ phase = "send" /\ ~MaySend
    /\ phase' = "over"
    /\ UNCHANGED <<listing, limits, request, taken, fresh, given, sent>>

Item == PageStart + taken + 1
Seen == limits.keyed /\ Item \in ToSet(given)

\* An element whose key was seen is passed over ...
Skip ==
    /\ phase = "give" /\ taken < PageLength /\ Seen
    /\ taken' = taken + 1
    /\ UNCHANGED <<listing, limits, phase, request, fresh, given, sent>>

\* ... and any other is handed out, up to the caller's limit.
Give ==
    /\ phase = "give" /\ taken < PageLength /\ ~Seen
    /\ taken' = taken + 1 /\ fresh' = fresh + 1
    /\ given' = Append(given, Item)
    /\ phase' = IF Len(given') = limits.maxItems THEN "over" ELSE "give"
    /\ UNCHANGED <<listing, limits, request, sent>>

\* After the page the strategy says what to ask for next.
Turn ==
    /\ phase = "give" /\ taken = PageLength
    /\ IF NextChanges = Over
       THEN phase' = "over" /\ UNCHANGED request
       ELSE phase' = "send" /\ request' = NextChanges
    /\ UNCHANGED <<listing, limits, taken, fresh, given, sent>>

ReadNext == Send \/ EnoughPages \/ Skip \/ Give \/ Turn

ReadSpec == ReadInit /\ [][ReadNext]_readVars

-----------------------------------------------------------------------------
(* Properties. *)

Capped(n, limit) == IF limit = 0 THEN n ELSE Lesser(n, limit)

\* What a call is to hand out: the list, to the end or to the caller's limit.
Wanted == Capped(Capped(listing.length, limits.maxItems), limits.maxPages * listing.size)

\* A strategy that is told where the list ends asks for nothing past it.
Told == listing.counted \/ listing.kind = "cursor"

\* Only key=, or the number of pages, bounds a server that answers its last page again.
Bounded == listing.clamps => limits.keyed \/ listing.counted

(* A list that does not change is handed out in order, every element once   *)
(* and to the end, or to the limit the caller set: no strategy stops a page *)
(* early, reads on for ever or asks past the end it was told of (items and  *)
(* next_changes).                                                           *)
EveryItemOnce ==
    Bounded =>
        /\ \A i \in DOMAIN given : given[i] = i
        /\ Len(given) <= Wanted
        /\ phase = "over" => Len(given) = Wanted
        /\ sent <= TotalPages + 1
        /\ Told => sent <= TotalPages \/ sent = 1
=============================================================================
