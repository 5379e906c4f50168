---------------------------- MODULE DependencyOrder ----------------------------
(***************************************************************************)
(* The order in which a call resolves the dependencies it is declared with *)
(* (eazy_sdk/dependencies/__init__.py, _compile_dependency_order).         *)
(*                                                                         *)
(* A dependency is a number, and numbers are in the order of the           *)
(* diagnostic names.  A declaration says for each of its dependencies      *)
(* which ones the provider reads; one that mentions a dependency twice is  *)
(* outside of the model, because the code counts the mentions.  A Python   *)
(* set hands out its members in any order, and so does the model.          *)
(***************************************************************************)
EXTENDS Naturals, FiniteSets, SequencesExt

CONSTANT Declarations   \* functions from the dependencies to sets of dependencies

ASSUME DeclarationAssumption ==
    \A r \in Declarations :
        /\ DOMAIN r \subseteq Nat /\ IsFiniteSet(DOMAIN r)
        /\ \A d \in DOMAIN r : IsFiniteSet(r[d])

VARIABLES
    requires,       \* the declaration
    degree,         \* indegree: what each dependency still waits for
    ready,          \* what waits for nothing, in a queue
    output          \* the order so far

orderVars == <<requires, degree, ready, output>>

Unregistered(r) == \E d \in DOMAIN r : ~ r[d] \subseteq DOMAIN r

\* The dependencies whose provider reads d.
Edges(d) == {x \in DOMAIN requires : d \in requires[x]}

Sorted(S) == {s \in SetToSeqs(S) : \A i, j \in DOMAIN s : i < j => s[i] < s[j]}

\* A declaration with an unregistered dependency is refused before it begins.
OrderBegins(r) ==
    /\ requires = r
    /\ degree = [d \in DOMAIN r |-> Cardinality(r[d])]
    /\ ready \in IF Unregistered(r) THEN {<<>>} ELSE Sorted({d \in DOMAIN r : degree[d] = 0})
    /\ output = <<>>

OrderInit == \E r \in Declarations : OrderBegins(r)

\* A fault: the first dependency put out frees what waited for several.
ReleaseAtOnce(d) ==
    /\ degree' = [x \in DOMAIN degree |-> IF x \in Edges(d) THEN 0 ELSE degree[x]]
    /\ \E freed \in SetToSeqs({x \in Edges(d) : degree[x] > 0}) : ready' = Tail(ready) \o freed

\* d is put out, and what waited for it alone is freed.
Release(d) ==
    /\ degree' = [x \in DOMAIN degree |-> IF x \in Edges(d) THEN degree[x] - 1 ELSE degree[x]]
    /\ \E freed \in SetToSeqs({x \in Edges(d) : degree'[x] = 0}) : ready' = Tail(ready) \o freed

OrderNext ==
    /\ ready # <<>>
    /\ output' = Append(output, Head(ready))
    /\ Release(Head(ready))
    /\ UNCHANGED requires

OrderSpec == OrderInit /\ [][OrderNext]_orderVars

-----------------------------------------------------------------------------
(* Properties. *)

\* An order of a declaration: every dependency once, each after all it reads.
Follows(r, o) ==
    \A k \in DOMAIN o : \A d \in r[o[k]] : \E j \in DOMAIN o : o[j] = d /\ j < k

RightOrders(r) == {o \in SetToSeqs(DOMAIN r) : Follows(r, o)}

\* The queue is empty: the order is returned, or GraphError is raised.
Compiled == ready = <<>> /\ Len(output) = Cardinality(DOMAIN requires)
Refused == ready = <<>> /\ Len(output) # Cardinality(DOMAIN requires)

(* The order the code comes to, whatever a set hands out first, names every *)
(* dependency once and each after all it reads, and a declaration is        *)
(* refused only when it has no order: a provider never reads a value that   *)
(* is not resolved yet, and no declaration without a cycle is refused       *)
(* (_compile_dependency_order).                                             *)
OrderIsRight ==
    /\ Compiled => output \in RightOrders(requires)
    /\ Refused => RightOrders(requires) = {}
=============================================================================
