------------------------------- MODULE CookieJar -------------------------------
(***************************************************************************)
(* The cookies of one user (eazy_sdk/cookies.py): stored as the servers    *)
(* set them, selected for each address, snapshotted, loaded and evicted.   *)
(*                                                                         *)
(* A host or a domain is the sequence of its labels from the top down, so  *)
(* that "is a name under" is IsPrefix; an IP address is one label.  A path *)
(* is the sequence of its segments, with "" last when it ends in a slash.  *)
(* The value of a cookie is the host that set it: what the properties ask  *)
(* of a value is whose it is.                                              *)
(* The jar is a dict of cookies and a dict of ticks: here a cookie carries *)
(* the ticks at which its key came (born) and was last used.  A header is  *)
(* the set of its cookies: their order is left out.                        *)
(***************************************************************************)
EXTENDS Integers, SequencesExt

CONSTANTS
    Targets,        \* addresses, [host, path, encrypted]
    Lines,          \* Set-Cookie lines, [name, domain, path, secure, life]
    PublicSuffixes,       \* the domains no site may set a cookie under
    Loopback,       \* the hosts that count as secure
    MaxPerDomain, MaxCookies,
    MaxSteps, MaxTime           \* bounds of the exploration

Never == -1         \* an expiry, or a life, that is not stated

ASSUME JarAssumption ==
    /\ \A t \in Targets : t.host \in Seq(STRING) \ {<<>>}
    /\ \A l \in Lines : l.domain \in Seq(STRING) /\ l.life \in Nat \cup {Never}
    /\ {MaxPerDomain, MaxCookies, MaxSteps, MaxTime} \subseteq Nat

VARIABLES
    held,       \* [cookies, tick]: a set with one cookie a key, and the uses counted
    saved,      \* the last snapshot taken: a set of cookies
    now,        \* the clock
    steps,      \* calls made, bounded by MaxSteps
    lastUse     \* the call that last sent or set a cookie, by key (history)

jarVars == <<held, saved, now, steps, lastUse>>

Empty == [cookies |-> {}, tick |-> 0]

Key(c) == <<c.name, c.domain, c.path>>
Keys(cookies) == {Key(c) : c \in cookies}
IsExpired(c, t) == c.expires # Never /\ c.expires <= t
Live(cookies) == {c \in cookies : ~ IsExpired(c, now)}

-----------------------------------------------------------------------------
(* Where a cookie belongs and where it is sent. *)

\* The host is the domain, or a name under it; nothing is under an address.
DomainMatches(host, domain) == IsPrefix(domain, host)

\* The directory of the request path.
DefaultPath(path) == IF Len(path) = 1 THEN <<"">> ELSE Front(path)

\* The cookie path is a prefix that ends on a segment boundary.
PathMatches(request, path) ==
    \/ IsPrefix(path, request)
    \/ Last(path) = "" /\ Len(request) >= Len(path) /\ IsPrefix(Front(path), request)

\* A fault: the server says where a cookie belongs, and it is believed.
ScopeAsStated(host, domain) ==
    {[domain |-> IF domain = <<>> THEN host ELSE domain, hostOnly |-> domain = <<>>]}

\* The scopes a line may take: none when the server may not set it there.
Scope(host, domain) ==
    IF domain \in {<<>>, host}
    THEN {[domain |-> host, hostOnly |-> domain = <<>>]}
    ELSE {s \in {[domain |-> domain, hostOnly |-> FALSE]} :
            domain \notin PublicSuffixes /\ DomainMatches(host, domain)}

PathOf(target, line) == IF line.path = <<>> THEN DefaultPath(target.path) ELSE line.path

\* The keys a line names: one, or none when it may not be set there.
LineKeys(target, line) ==
    {<<line.name, s.domain, PathOf(target, line)>> : s \in Scope(target.host, line.domain)}

Belongs(c, target) ==
    /\ IF c.hostOnly THEN target.host = c.domain ELSE DomainMatches(target.host, c.domain)
    /\ c.secure => target.encrypted \/ target.host \in Loopback
    /\ PathMatches(target.path, c.path)

-----------------------------------------------------------------------------
(* What happens under the jar's lock. *)

DropExpired(j) == [j EXCEPT !.cookies = Live(@)]

\* A Python dict keeps the order in which its keys came.
Place(c, cookies) == Cardinality({d \in cookies : d.born <= c.born})

\* Cookies go in one after the other and are used by it.  A cookie under a key the
\* jar holds replaces it in place, and using a cookie is putting it where it is.
Put(j, cookies) ==
    LET tick(c) == j.tick + Place(c, cookies)
        born(c) == IF Key(c) \in Keys(j.cookies)
                   THEN (CHOOSE d \in j.cookies : Key(d) = Key(c)).born
                   ELSE tick(c)
    IN  [cookies |-> {d \in j.cookies : Key(d) \notin Keys(cookies)}
                     \cup {[c EXCEPT !.born = born(c), !.used = tick(c)] : c \in cookies},
         tick |-> j.tick + Cardinality(cookies)]

\* Those of a set that were used after a cookie.
UsedAfter(c, cookies) == {d \in cookies : d.used > c.used}

\* Of an overfull domain, then of an overfull jar, the recently used ones stay.
Evict(j) ==
    LET live == Live(j.cookies)
        trimmed == {c \in live : Cardinality(UsedAfter(c, {d \in live : d.domain = c.domain}))
                                    < MaxPerDomain}
    IN  [j EXCEPT !.cookies = {c \in trimmed : Cardinality(UsedAfter(c, trimmed)) < MaxCookies}]

\* The cookie a line sets; born and used are the jar's.
CookieOf(target, line, scope) ==
    [name |-> line.name, value |-> target.host, secure |-> line.secure,
     domain |-> scope.domain, hostOnly |-> scope.hostOnly, path |-> PathOf(target, line),
     expires |-> IF line.life = Never THEN Never ELSE now + line.life,
     born |-> 0, used |-> 0]

StoreLine(j, target, line) ==
    IF line.life = 0
    THEN [j EXCEPT !.cookies = {c \in @ : Key(c) \notin LineKeys(target, line)}]
    ELSE Put(j, {CookieOf(target, line, s) : s \in Scope(target.host, line.domain)})

Stored(j, target, lines) ==
    Evict(FoldLeft(LAMBDA acc, line : StoreLine(acc, target, line), j, lines))

\* The cookies a request to the address carries.
Chosen(j, target) == {c \in Live(j.cookies) : Belongs(c, target)}

\* A fault: sending a cookie is not using it.
SelectedUntouched(j, target) == DropExpired(j)

\* Those cookies are used in order of creation.
Selected(j, target) == Put(DropExpired(j), Chosen(j, target))

\* What is alive, in order; a snapshot says nothing of its use.
Snapshot(j) ==
    {[c EXCEPT !.born = Place(c, Live(j.cookies)), !.used = 0] : c \in Live(j.cookies)}

\* Merging a snapshot in: what has expired since it was taken stays out.
Loaded(j, state) == Evict(Put(j, Live(state)))

-----------------------------------------------------------------------------
JarInit ==
    /\ held = Empty
    /\ saved = {}
    /\ now = 0
    /\ steps = 0
    /\ lastUse = <<>>

\* History: the keys a call used, with the number of the call.
Used(keys) ==
    lastUse' = [k \in Keys(held'.cookies) |-> IF k \in keys THEN steps' ELSE lastUse[k]]

Call == steps < MaxSteps /\ steps' = steps + 1

\* A response arrives: its lines are stored together, then the jar is trimmed.
Store(target, lines) ==
    /\ Call
    /\ held' = Stored(held, target, lines)
    /\ Used(UNION {LineKeys(target, lines[i]) : i \in DOMAIN lines})
    /\ UNCHANGED <<saved, now>>

\* A request is built.
Select(target) ==
    /\ Call
    /\ held' = Selected(held, target)
    /\ Used(Keys(Chosen(held, target)))
    /\ UNCHANGED <<saved, now>>

\* A session store takes what is alive.
TakeSnapshot ==
    /\ Call
    /\ held' = DropExpired(held)
    /\ saved' = Snapshot(held)
    /\ Used({})
    /\ UNCHANGED now

\* A snapshot is merged into the jar, or into the empty jar of a new process.
LoadState(into) ==
    /\ Call
    /\ held' = Loaded(into, saved)
    /\ Used(Keys(Live(saved)))
    /\ UNCHANGED <<saved, now>>

Tick ==
    /\ now < MaxTime
    /\ now' = now + 1
    /\ UNCHANGED <<held, saved, steps, lastUse>>

Responses == {<<l>> : l \in Lines} \cup {<<l, m>> : l, m \in Lines}

JarNext ==
    \/ \E t \in Targets, ls \in Responses : Store(t, ls)
    \/ \E t \in Targets : Select(t)
    \/ TakeSnapshot
    \/ \E into \in {held, Empty} : LoadState(into)
    \/ Tick

JarSpec == JarInit /\ [][JarNext]_jarVars

-----------------------------------------------------------------------------
(* Properties. *)

(* A value goes only to the host that set it and to hosts it shares a site  *)
(* with: hosts under one domain that is no public suffix (_scope and        *)
(* _belongs), whatever was saved, merged and replaced in between.  A host   *)
(* that is itself a public suffix counts as a site of its own.              *)
SameSite(setter, host) ==
    \/ setter = host
    \/ \E n \in 1..Len(setter) :
          LET domain == SubSeq(setter, 1, n)
          IN  DomainMatches(host, domain) /\ (domain \notin PublicSuffixes \/ domain = setter)

StaysHome ==
    \A t \in Targets : \A c \in Chosen(held, t) : SameSite(c.value, t.host)

(* A full jar gives up what was used longest ago: a cookie that leaves      *)
(* without expiring and without a line or a new process removing it was     *)
(* last sent or set no later than any that stays under its domain (_evict). *)
TakenOut(k) ==
    \E t \in Targets, ls \in Responses :
        /\ \E i \in DOMAIN ls : ls[i].life = 0 /\ k \in LineKeys(t, ls[i])
        /\ held' = Stored(held, t, ls)

Expired(k) == \E c \in held.cookies : Key(c) = k /\ IsExpired(c, now)

RecentIsKept ==
    [][\A k \in Keys(held.cookies) \ Keys(held'.cookies) :
          \/ Expired(k) \/ TakenOut(k) \/ held' = Loaded(Empty, saved)
          \/ \A q \in Keys(held'.cookies) : q[2] = k[2] => lastUse[k] <= lastUse'[q]]_jarVars
=============================================================================
