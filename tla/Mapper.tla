------------------------------- MODULE Mapper -------------------------------
(****************************************************************************)
(* One Mapper scarlet: core/Mapper.py over types/RedisScarlet.py over         *)
(* contract/RedisContract.py.                                                *)
(*                                                                           *)
(* Redis holds a Set of keys and one hash per key (the chunk), which expires. *)
(* Every command is a step of its own.  Map is SISMEMBER, SADD, then one      *)
(* transaction of HSET and EXPIRE.  AllGather is SMEMBERS, an EXISTS per key, *)
(* an SREM of the keys without a chunk (the lazy cleanup), then EXISTS and    *)
(* HGETALL per key.  A value is the number of the Map that wrote it.          *)
(****************************************************************************)
EXTENDS Naturals, FiniteSets

CONSTANTS
    Keys,        \* keys, each written by the agent of that name
    Readers,     \* agents calling AllGather or Reduce
    MaxMaps,     \* bound: calls of Map per key
    MayExpire,   \* can a chunk outlive scarletDataExpiry?
    Faults       \* subset of {"unreachable", "error"}

ASSUME ConstantsAssumption ==
    /\ MaxMaps \in Nat \ {0}
    /\ MayExpire \in BOOLEAN
    /\ Faults \subseteq {"unreachable", "error"}

\* A reader's pair for a key whose chunk was gone: Pull returns modelLocal.
Fallback == MaxMaps + 1
Absent   == 0

VARIABLES
    keyList,    \* the Set <name>_key-list
    chunks,     \* key -> the value stored, or Absent
    writer,     \* key -> what its Map is doing: idle, add, push
    maps,       \* key -> calls of Map begun
    status,     \* key -> what the last Map returned: none, ok, failed
    reader,     \* reader -> idle, exists, srem, pull, read
    todo,       \* reader -> keys that step has still to look at
    listed,     \* reader -> key_list, as kept after the cleanup
    missing,    \* reader -> keys_to_remove
    gathered,   \* reader -> the pairs read so far: key -> value, or Absent
    gatherStatus, \* reader -> what the last AllGather returned: none, ok, failed
    undisturbed \* history: keys whose last Map overlapped no cleanup

storeVars  == <<keyList, chunks>>
writerVars == <<writer, maps, status>>
readerVars == <<reader, todo, listed, missing, gathered, gatherStatus>>
mapperVars == <<storeVars, writerVars, readerVars, undisturbed>>

MapperInit ==
    /\ keyList = {}
    /\ chunks = [k \in Keys |-> Absent]
    /\ writer = [k \in Keys |-> "idle"]
    /\ maps = [k \in Keys |-> 0]
    /\ status = [k \in Keys |-> "none"]
    /\ reader = [r \in Readers |-> "idle"]
    /\ todo = [r \in Readers |-> {}]
    /\ listed = [r \in Readers |-> {}]
    /\ missing = [r \in Readers |-> {}]
    /\ gathered = [r \in Readers |-> [k \in Keys |-> Absent]]
    /\ gatherStatus = [r \in Readers |-> "none"]
    /\ undisturbed = {}

InCleanup(r) == reader[r] \in {"exists", "srem"}

-----------------------------------------------------------------------------
(* Map(value, key)                                                           *)

Return(k, s) ==
    /\ writer' = [writer EXCEPT ![k] = "idle"]
    /\ status' = [status EXCEPT ![k] = s]

\* registerNewKey asks SISMEMBER.
MapBegin_OnlyFirstAdds(k) ==
    /\ writer[k] = "idle" /\ maps[k] < MaxMaps
    /\ maps' = [maps EXCEPT ![k] = @ + 1]
    /\ undisturbed' = IF \E r \in Readers : InCleanup(r) THEN undisturbed \ {k} ELSE undisturbed \cup {k}
    /\ writer' = [writer EXCEPT ![k] = IF maps[k] > 0 THEN "push" ELSE "add"]
    /\ UNCHANGED <<storeVars, readerVars, status>>

MapBegin(k) ==
    /\ writer[k] = "idle" /\ maps[k] < MaxMaps
    /\ maps' = [maps EXCEPT ![k] = @ + 1]
    /\ undisturbed' = IF \E r \in Readers : InCleanup(r) THEN undisturbed \ {k} ELSE undisturbed \cup {k}
    /\ writer' = [writer EXCEPT ![k] = IF k \in keyList THEN "push" ELSE "add"]
    /\ UNCHANGED <<storeVars, readerVars, status>>

\* loadRedis finds no server: False is returned and Map does not look at it.
RegisterUnreachable(k) ==
    /\ "unreachable" \in Faults
    /\ writer[k] = "idle" /\ maps[k] < MaxMaps
    /\ maps' = [maps EXCEPT ![k] = @ + 1]
    /\ undisturbed' = undisturbed \ {k}
    /\ writer' = [writer EXCEPT ![k] = "push"]
    /\ UNCHANGED <<storeVars, readerVars, status>>

MapAdd(k) ==
    /\ writer[k] = "add"
    /\ keyList' = keyList \cup {k}
    /\ writer' = [writer EXCEPT ![k] = "push"]
    /\ UNCHANGED <<chunks, maps, status, readerVars, undisturbed>>

\* setChunk: the value and its TTL in one transaction.
MapPush(k) ==
    /\ writer[k] = "push"
    /\ chunks' = [chunks EXCEPT ![k] = maps[k]]
    /\ Return(k, "ok")
    /\ UNCHANGED <<keyList, maps, readerVars, undisturbed>>

\* setChunk finds no server: Push returns [False], and Map returns True.
PushUnreachable(k) ==
    /\ "unreachable" \in Faults
    /\ writer[k] = "push"
    /\ Return(k, "ok")
    /\ UNCHANGED <<storeVars, maps, readerVars, undisturbed>>

\* A command raises after a successful PING: Map returns False.
MapRaises(k) ==
    /\ "error" \in Faults
    /\ writer[k] \in {"add", "push"}
    /\ Return(k, "failed")
    /\ UNCHANGED <<storeVars, maps, readerVars, undisturbed>>

Expire(k) ==
    /\ MayExpire
    /\ chunks[k] # Absent
    /\ chunks' = [chunks EXCEPT ![k] = Absent]
    /\ UNCHANGED <<keyList, writerVars, readerVars, undisturbed>>

-----------------------------------------------------------------------------
(* AllGather                                                                 *)

ReaderAt(r, at, left) ==
    /\ reader' = [reader EXCEPT ![r] = at]
    /\ todo' = [todo EXCEPT ![r] = left]

\* getMapperLength: SMEMBERS.
GatherBegin(r) ==
    /\ reader[r] = "idle"
    /\ listed' = [listed EXCEPT ![r] = keyList]
    /\ missing' = [missing EXCEPT ![r] = {}]
    /\ gathered' = [gathered EXCEPT ![r] = [k \in Keys |-> Absent]]
    /\ gatherStatus' = [gatherStatus EXCEPT ![r] = "none"]
    /\ ReaderAt(r, "exists", keyList)
    /\ undisturbed' = undisturbed \ {k \in Keys : writer[k] # "idle"}
    /\ UNCHANGED <<storeVars, writerVars>>

\* No server: a length of 0, and an empty result that says True.
GatherUnreachable(r) ==
    /\ "unreachable" \in Faults
    /\ reader[r] = "idle"
    /\ gathered' = [gathered EXCEPT ![r] = [k \in Keys |-> Absent]]
    /\ gatherStatus' = [gatherStatus EXCEPT ![r] = "ok"]
    /\ UNCHANGED <<storeVars, writerVars, reader, todo, listed, missing, undisturbed>>

CheckExists(r) ==
    /\ reader[r] = "exists"
    /\ \E k \in todo[r] :
          /\ todo' = [todo EXCEPT ![r] = @ \ {k}]
          /\ missing' = [missing EXCEPT ![r] = IF chunks[k] = Absent THEN @ \cup {k} ELSE @]
    /\ UNCHANGED <<storeVars, writerVars, reader, listed, gathered, gatherStatus, undisturbed>>

CheckedAll(r) ==
    /\ reader[r] = "exists" /\ todo[r] = {}
    /\ ReaderAt(r, "srem", {})
    /\ UNCHANGED <<storeVars, writerVars, listed, missing, gathered, gatherStatus, undisturbed>>

\* SREM of what had no chunk when it was looked at.
CleanUp(r) ==
    /\ reader[r] = "srem"
    /\ keyList' = keyList \ missing[r]
    /\ listed' = [listed EXCEPT ![r] = @ \ missing[r]]
    /\ ReaderAt(r, "pull", listed[r] \ missing[r])
    /\ UNCHANGED <<chunks, writerVars, missing, gathered, gatherStatus, undisturbed>>

\* A lookup of one chunk may find none, and does when it finds no server.
Unfound(k) == chunks[k] = Absent \/ "unreachable" \in Faults

\* Pull: checkChunkExists, then getChunk.  The fallback is used if the first
\* finds nothing; an empty chunk cannot be decompressed, and AllGather fails.
Pull(r) ==
    /\ reader[r] = "pull"
    /\ \E k \in todo[r] :
          \/ /\ Unfound(k)
             /\ gathered' = [gathered EXCEPT ![r][k] = Fallback]
             /\ todo' = [todo EXCEPT ![r] = @ \ {k}]
             /\ UNCHANGED <<reader, missing>>
          \/ /\ chunks[k] # Absent
             /\ reader' = [reader EXCEPT ![r] = "read"]
             /\ missing' = [missing EXCEPT ![r] = {k}]
             /\ UNCHANGED <<todo, gathered>>
    /\ UNCHANGED <<storeVars, writerVars, listed, gatherStatus, undisturbed>>

GetChunk(r) ==
    /\ reader[r] = "read"
    /\ \E k \in missing[r] :
          \/ /\ chunks[k] # Absent
             /\ gathered' = [gathered EXCEPT ![r][k] = chunks[k]]
             /\ ReaderAt(r, "pull", todo[r] \ {k})
             /\ UNCHANGED gatherStatus
          \/ /\ Unfound(k)
             /\ gatherStatus' = [gatherStatus EXCEPT ![r] = "failed"]
             /\ ReaderAt(r, "idle", {})
             /\ UNCHANGED gathered
    /\ UNCHANGED <<storeVars, writerVars, listed, missing, undisturbed>>

GatherReturn(r) ==
    /\ reader[r] = "pull" /\ todo[r] = {}
    /\ gatherStatus' = [gatherStatus EXCEPT ![r] = "ok"]
    /\ ReaderAt(r, "idle", {})
    /\ UNCHANGED <<storeVars, writerVars, listed, missing, gathered, undisturbed>>

\* A command raises: AllGather returns False.
GatherRaises(r) ==
    /\ "error" \in Faults
    /\ reader[r] # "idle"
    /\ gatherStatus' = [gatherStatus EXCEPT ![r] = "failed"]
    /\ ReaderAt(r, "idle", {})
    /\ UNCHANGED <<storeVars, writerVars, listed, missing, gathered, undisturbed>>

-----------------------------------------------------------------------------
MapCall(k) == MapBegin(k) \/ RegisterUnreachable(k)

GatherCall(r) == GatherBegin(r) \/ GatherUnreachable(r)

MapStep(k) ==
    MapAdd(k) \/ MapPush(k) \/ PushUnreachable(k) \/ MapRaises(k)

GatherStep(r) ==
    \/ CheckExists(r) \/ CheckedAll(r) \/ CleanUp(r) \/ Pull(r) \/ GetChunk(r)
    \/ GatherReturn(r) \/ GatherRaises(r)

MapperNext ==
    \/ \E k \in Keys : MapCall(k) \/ MapStep(k) \/ Expire(k)
    \/ \E r \in Readers : GatherCall(r) \/ GatherStep(r)

MapperSpec == MapperInit /\ [][MapperNext]_mapperVars

-----------------------------------------------------------------------------
(* Properties                                                                *)

MapperTypeOK ==
    /\ keyList \subseteq Keys
    /\ chunks \in [Keys -> 0 .. MaxMaps]
    /\ writer \in [Keys -> {"idle", "add", "push"}]
    /\ maps \in [Keys -> 0 .. MaxMaps]
    /\ status \in [Keys -> {"none", "ok", "failed"}]
    /\ reader \in [Readers -> {"idle", "exists", "srem", "pull", "read"}]
    /\ todo \in [Readers -> SUBSET Keys]
    /\ listed \in [Readers -> SUBSET Keys]
    /\ missing \in [Readers -> SUBSET Keys]
    /\ gathered \in [Readers -> [Keys -> 0 .. Fallback]]
    /\ gatherStatus \in [Readers -> {"none", "ok", "failed"}]
    /\ undisturbed \subseteq Keys
    /\ \A r \in Readers : todo[r] \subseteq listed[r]

\* The cleanup of a concurrent reader is the only thing that hides a value: one
\* whose Map succeeded and overlapped none stays findable while it is stored.
OnlyOverlapHides ==
    \A k \in undisturbed :
        writer[k] = "idle" /\ status[k] = "ok" /\ chunks[k] # Absent => k \in keyList
=============================================================================
