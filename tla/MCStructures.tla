---------------------------- MODULE MCStructures ----------------------------
(***************************************************************************)
(* Four structures that share no state: the log file, the memtable's       *)
(* skiplist, the value cache and an SSTable.  A behaviour runs one of them *)
(* and leaves the others as they were built, so one run explores each of   *)
(* them alone.                                                             *)
(*                                                                         *)
(* The log has blocks of six cells with headers of two: a payload of nine  *)
(* cells has a first, a middle and a last fragment.  The cache has two     *)
(* shards, and values that fit a shard, only the cache, or neither.  The   *)
(* table has keys that are prefixes of one another, blocks of one, two or  *)
(* all entries, every entry or every second one a restart point, and keys  *)
(* whose filter bits collide.                                              *)
(***************************************************************************)
EXTENDS Wal, SkipList, LruCache, SsTable

MCValue == {<<"a", 1>>, <<"b", 2>>, <<"c", 3>>, <<"d", 5>>}
MCShardOf(k) == k % 2

MCUserKey == {<<>>, <<1>>, <<1, 1>>, <<2>>}
MCHash(k) == CASE k = <<>> -> 0 [] k = <<2>> -> 14 [] OTHER -> 7
MCTableOptions == [block_size : {2, 9, 99}, restart_interval : {1, 2}]

logUntouched   == calls = 0 /\ restarts = 0
listUntouched  == wkey = head_ /\ \A r \in Reader : rpc[r] = "idle" /\ target[r] = head_
cacheUntouched == newer = {} /\ clearing = shards
tableUntouched == added = <<>> /\ options = CHOOSE o \in TableOptions : TRUE

MCInit == Init /\ SkipInit /\ LruInit /\ SstInit

\* The table's options are fixed at the start: the behaviours of the others
\* are explored with one choice of them.
MCNext ==
    \/ /\ listUntouched /\ cacheUntouched /\ tableUntouched /\ Next
       /\ UNCHANGED <<skipVars, lruVars, sstVars>>
    \/ /\ logUntouched /\ cacheUntouched /\ tableUntouched /\ SkipNext
       /\ UNCHANGED <<vars, lruVars, sstVars>>
    \/ /\ logUntouched /\ listUntouched /\ tableUntouched /\ LruNext
       /\ UNCHANGED <<vars, skipVars, sstVars>>
    \/ /\ logUntouched /\ listUntouched /\ cacheUntouched /\ SstNext
       /\ UNCHANGED <<vars, skipVars, lruVars>>

MCSpec == MCInit /\ [][MCNext]_<<vars, skipVars, lruVars, sstVars>>
=============================================================================
