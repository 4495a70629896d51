------------------------------ MODULE MapLease ------------------------------
(***************************************************************************)
(* What the server promises about its mapnik::Map objects, none of which   *)
(* is locked: a request holds a map from its first call on it to its last, *)
(* a map is held by one request at a time, and a request holds one map.    *)
(***************************************************************************)
CONSTANTS Map, Request

VARIABLE holders        \* holders[m]: the requests that are using map m

LeaseInit == holders = [m \in Map |-> {}]

Acquire(m, r) ==
  /\ holders[m] = {}
  /\ \A n \in Map : r \notin holders[n]
  /\ holders' = [holders EXCEPT ![m] = {r}]

Release(m) ==
  /\ holders[m] # {}
  /\ holders' = [holders EXCEPT ![m] = {}]

LeaseNext == \E m \in Map : Release(m) \/ \E r \in Request : Acquire(m, r)

LeaseSpec == LeaseInit /\ [][LeaseNext]_holders
=============================================================================
