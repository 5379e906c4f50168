------------------------------ MODULE MCCallInputs ------------------------------
(***************************************************************************)
(* What a call takes along and how its calls follow each other.  The three *)
(* parts do not touch: a behaviour is about one subject, a jar that is     *)
(* used, a list of requirements, or a listing that is read.                *)
(***************************************************************************)
EXTENDS CookieJar, DependencyOrder, Pagination

VARIABLE subject        \* the part a behaviour is about

Com == <<"com">>
Shop == <<"com", "shop">>
Www == <<"com", "shop", "www">>
Other == <<"com", "other">>

Addresses ==
    {[host |-> Www, path |-> <<"a", "b">>, encrypted |-> TRUE],
     [host |-> Shop, path |-> <<"a", "">>, encrypted |-> FALSE],
     [host |-> Other, path |-> <<"">>, encrypted |-> TRUE]}

SetCookies ==
    {[name |-> "sid", domain |-> Shop, path |-> <<"">>, secure |-> TRUE, life |-> 1],
     [name |-> "sid", domain |-> Shop, path |-> <<"">>, secure |-> FALSE, life |-> 0],
     [name |-> "cart", domain |-> <<>>, path |-> <<>>, secure |-> FALSE, life |-> -1],
     [name |-> "ad", domain |-> Com, path |-> <<"">>, secure |-> FALSE, life |-> -1],
     [name |-> "tag", domain |-> Shop, path |-> <<"a">>, secure |-> FALSE, life |-> 2]}

Public == {Com}
Local == {<<"localhost">>}

\* Up to four dependencies, each reading up to two: itself, another, or (up to three
\* of them) one that nobody registered.
Reads == {r \in SUBSET (1..4) : Cardinality(r) <= 2}
Declared == UNION {[1..n -> Reads] : n \in 0..4}

\* Lists of up to five elements in pages of up to three, under every strategy.
Served ==
    {l \in [length : 0..5, size : 1..3, clamps : BOOLEAN, kind : Kinds,
            sized : BOOLEAN, counted : BOOLEAN] :
        /\ l.clamps => l.kind = "numbered" /\ l.length # 0
        /\ l.kind = "cursor" => ~l.sized /\ ~l.counted}
Asked == [keyed : BOOLEAN, maxItems : 0..3, maxPages : 0..2]

\* What the parts hold that a behaviour is not about.
NoDependencies == OrderBegins(<<>>)
NoReading ==
    ReadingBegins([length |-> 0, size |-> 1, clamps |-> FALSE, kind |-> "offset",
                   sized |-> FALSE, counted |-> FALSE],
                  [keyed |-> FALSE, maxItems |-> 0, maxPages |-> 0])

MCInit ==
    /\ JarInit
    /\ \/ subject = "jar" /\ NoDependencies /\ NoReading
       \/ subject = "order" /\ OrderInit /\ NoReading
       \/ subject = "reading" /\ NoDependencies /\ ReadInit

MCNext ==
    /\ \/ subject = "jar" /\ JarNext /\ UNCHANGED <<orderVars, readVars>>
       \/ subject = "order" /\ OrderNext /\ UNCHANGED <<jarVars, readVars>>
       \/ subject = "reading" /\ ReadNext /\ UNCHANGED <<jarVars, orderVars>>
    /\ UNCHANGED subject

\* Ticks are only compared with their like: states that differ in numbers alone are one.
TicksCompared ==
    <<{[c EXCEPT !.born = Place(c, held.cookies),
                 !.used = Cardinality(UsedAfter(c, held.cookies))] : c \in held.cookies},
      saved, now, steps, lastUse, orderVars, readVars, subject>>

MCSpec == MCInit /\ [][MCNext]_<<jarVars, orderVars, readVars, subject>>
=============================================================================
