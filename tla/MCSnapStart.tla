---------------------------- MODULE MCSnapStart ----------------------------
(***************************************************************************)
(* SnapStart with a diamond of resources: the pool and the clock rest on   *)
(* the credentials, the cache rests on both.                               *)
(***************************************************************************)
EXTENDS SnapStart

CONSTANTS credentials, pool, clock, cache

MCFoundations ==
  [r \in Resources |->
     IF r = credentials THEN {}
     ELSE IF r = cache THEN {pool, clock} ELSE {credentials}]

=============================================================================
