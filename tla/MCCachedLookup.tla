--------------------------- MODULE MCCachedLookup ---------------------------
(* Instances of CachedLookup for TLC.                                      *)
EXTENDS CachedLookup, TLC

CONSTANTS a, b, d, w

\* Candidates of hosts: {a.x, *.x} and {b.x, *.x} share the wildcard key w; d
\* is a name of one label, which has no wildcard.
OneHost == {{d}}
WildHost == {{a, w}}
ThreeHosts == {{a, w}, {b, w}, {d}}

\* A store whose wildcard has a route that is removed, and one without routes.
WildRoute == [k \in Keys |-> IF k = w THEN 1 ELSE MaxVersion]
NoRoutes == [k \in Keys |-> 0]

\* The two hosts under the wildcard are interchangeable.
HostSymmetry == Permutations({a, b})
=============================================================================
