--------------------------------- MODULE Pool ---------------------------------
(***************************************************************************)
(* What both object pools promise (opool.cc and object-pool.cc): New hands *)
(* out a chunk nobody holds, Release takes back one that somebody holds.   *)
(***************************************************************************)
EXTENDS Naturals

CONSTANT Chunks

VARIABLE holders  \* holders[c]: how many callers New has given chunk c to

PoolInit == holders = [c \in Chunks |-> 0]

PoolNew(c) == holders[c] = 0 /\ holders' = [holders EXCEPT ![c] = 1]

PoolRelease(c) == holders[c] = 1 /\ holders' = [holders EXCEPT ![c] = 0]

PoolNext == \E c \in Chunks : PoolNew(c) \/ PoolRelease(c)

PoolSpec == PoolInit /\ [][PoolNext]_holders
=============================================================================
