------------------------- MODULE SkillBarrierProofs -------------------------
(****************************************************************************)
(* As long as Redis can be reached, an aggregating skill that answers ok has *)
(* folded the value of every worker, for every number of workers and with    *)
(* commands that raise, lost ready messages, deadlines and cancels.          *)
(*                                                                           *)
(* The argument: a ready message with map_status means a stored value, so    *)
(* the fold begins only after every Map has returned, the reader finds       *)
(* nothing missing, and its cleanup removes nothing.  That goes for the       *)
(* skills themselves (Skills), which implement the barrier; and what they    *)
(* make of the values is right, the last part: their sums, merges and        *)
(* evaluations against the references of Skills, by induction.               *)
(****************************************************************************)
EXTENDS Skills, WellFoundedInduction, FiniteSetTheorems, FunctionTheorems, TLAPS

-----------------------------------------------------------------------------
(****************************************************************************)
(* Only the lazy cleanup of a concurrent AllGather can hide a stored value,  *)
(* for every number of keys, readers and calls, with every failure.          *)
(*                                                                           *)
(* The argument: a key that no cleanup overlapped has an idle writer as long *)
(* as any reader is cleaning up, so what that reader found missing is still  *)
(* missing when its SREM comes.                                              *)
(****************************************************************************)

StoreTypes  == keyList \subseteq Keys /\ chunks \in [Keys -> 0 .. MaxMaps] /\ undisturbed \subseteq Keys
WriterTypes ==
    /\ writer \in [Keys -> {"idle", "add", "push"}]
    /\ maps \in [Keys -> 0 .. MaxMaps]
    /\ status \in [Keys -> {"none", "ok", "failed"}]

ReaderTypes ==
    /\ reader \in [Readers -> {"idle", "exists", "srem", "pull", "read"}]
    /\ gatherStatus \in [Readers -> {"none", "ok", "failed"}]
    /\ gathered \in [Readers -> [Keys -> 0 .. Fallback]]
SetTypes    ==
    /\ todo \in [Readers -> SUBSET Keys]
    /\ listed \in [Readers -> SUBSET Keys]
    /\ missing \in [Readers -> SUBSET Keys]
    /\ \A r \in Readers : todo[r] \subseteq listed[r]

LEMMA MapperTypeParts == MapperTypeOK <=> StoreTypes /\ WriterTypes /\ ReaderTypes /\ SetTypes
BY DEF MapperTypeOK, StoreTypes, WriterTypes, ReaderTypes, SetTypes

LEMMA MapperTypePartsNext == MapperTypeOK' <=> StoreTypes' /\ WriterTypes' /\ ReaderTypes' /\ SetTypes'
BY DEF MapperTypeOK, StoreTypes, WriterTypes, ReaderTypes, SetTypes

LEMMA MapperInitTypes == MapperInit => MapperTypeOK
BY ConstantsAssumption DEF MapperInit, MapperTypeOK, Absent, Fallback

LEMMA MapKeepsTypes ==
    ASSUME MapperTypeOK, NEW k \in Keys, MapCall(k) \/ MapStep(k) \/ Expire(k)
    PROVE  MapperTypeOK'
<1> USE MapperTypeParts, ConstantsAssumption DEF storeVars, writerVars, readerVars
<1>1. MapCall(k) \/ MapStep(k) \/ Expire(k) => UNCHANGED readerVars
  BY DEF MapCall, MapBegin, RegisterUnreachable, MapStep, MapAdd, MapPush, PushUnreachable, MapRaises, Expire
<1>2. ReaderTypes' /\ SetTypes'
  BY <1>1 DEF ReaderTypes, SetTypes
<1>3. CASE MapCall(k)
  <2>1. maps[k] + 1 \in 0 .. MaxMaps
    BY <1>3 DEF MapCall, MapBegin, RegisterUnreachable, WriterTypes
  <2>2. maps' = [maps EXCEPT ![k] = maps[k] + 1] /\ UNCHANGED <<storeVars, status>>
    BY <1>3 DEF MapCall, MapBegin, RegisterUnreachable
  <2>3. writer' \in [Keys -> {"idle", "add", "push"}] /\ undisturbed' \subseteq Keys
    BY <1>3 DEF MapCall, MapBegin, RegisterUnreachable, WriterTypes, StoreTypes
  <2> QED BY <1>2, <2>1, <2>2, <2>3, MapperTypePartsNext DEF WriterTypes, StoreTypes
<1>4. CASE MapStep(k)
  <2>1. WriterTypes'
    BY <1>4 DEF MapStep, MapAdd, MapPush, PushUnreachable, MapRaises, Return, WriterTypes
  <2>2. StoreTypes'
    BY <1>4 DEF MapStep, MapAdd, MapPush, PushUnreachable, MapRaises, Return, WriterTypes, StoreTypes
  <2> QED BY <1>2, <2>1, <2>2, MapperTypePartsNext
<1>5. CASE Expire(k)
  BY <1>2, <1>5, MapperTypePartsNext DEF Expire, WriterTypes, StoreTypes, Absent
<1> QED BY <1>3, <1>4, <1>5

\* Storing one gathered pair.
LEMMA GatheredType ==
    ASSUME ReaderTypes, NEW r \in Readers, NEW k \in Keys, NEW v \in 0 .. Fallback
    PROVE  [gathered EXCEPT ![r][k] = v] \in [Readers -> [Keys -> 0 .. Fallback]]
BY DEF ReaderTypes

LEMMA GatherKeepsTypes ==
    ASSUME MapperTypeOK, NEW r \in Readers, GatherCall(r) \/ GatherStep(r)
    PROVE  MapperTypeOK'
<1> USE MapperTypeParts, ConstantsAssumption DEF storeVars, writerVars
<1>1. WriterTypes' /\ StoreTypes'
  BY DEF GatherCall, GatherBegin, GatherUnreachable, GatherStep, CheckExists, CheckedAll, CleanUp, Pull,
         GetChunk, GatherReturn, GatherRaises, WriterTypes, StoreTypes
<1>2. 0 \in 0 .. Fallback /\ Fallback \in 0 .. Fallback /\ \A k \in Keys : chunks[k] \in 0 .. Fallback
  BY DEF Fallback, StoreTypes
<1>3. CASE GatherCall(r)
  <2>1. [k \in Keys |-> Absent] \in [Keys -> 0 .. Fallback]
    BY <1>2 DEF Absent
  <2>2. ReaderTypes'
    BY <1>3, <2>1 DEF GatherCall, GatherBegin, GatherUnreachable, ReaderAt, ReaderTypes
  <2>3. SetTypes'
    BY <1>3 DEF GatherCall, GatherBegin, GatherUnreachable, ReaderAt, SetTypes, StoreTypes
  <2> QED BY <1>1, <2>2, <2>3, MapperTypePartsNext
<1>4. CASE CheckExists(r) \/ CheckedAll(r) \/ CleanUp(r)
  <2>1. ReaderTypes'
    BY <1>4 DEF CheckExists, CheckedAll, CleanUp, ReaderAt, ReaderTypes
  <2>2. CASE CheckExists(r)
    <3>1. PICK k \in todo[r] :
            /\ todo' = [todo EXCEPT ![r] = todo[r] \ {k}]
            /\ missing' = [missing EXCEPT ![r] = IF chunks[k] = Absent THEN missing[r] \cup {k} ELSE missing[r]]
      BY <2>2 DEF CheckExists
    <3>2. k \in Keys /\ listed' = listed
      BY <2>2 DEF CheckExists, SetTypes
    <3>3. SetTypes'
      BY <3>1, <3>2 DEF SetTypes
    <3> QED BY <1>1, <2>1, <3>3, MapperTypePartsNext
  <2>3. CASE CheckedAll(r)
    BY <1>1, <2>1, <2>3, MapperTypePartsNext DEF CheckedAll, ReaderAt, SetTypes
  <2>4. CASE CleanUp(r)
    <3>1. SetTypes'
      BY <2>4 DEF CleanUp, ReaderAt, SetTypes
    <3> QED BY <1>1, <2>1, <3>1, MapperTypePartsNext
  <2> QED BY <1>4, <2>2, <2>3, <2>4
<1>5. CASE Pull(r)
  <2>1. PICK k \in todo[r] :
          \/ /\ gathered' = [gathered EXCEPT ![r][k] = Fallback]
             /\ todo' = [todo EXCEPT ![r] = todo[r] \ {k}]
             /\ UNCHANGED <<reader, missing>>
          \/ /\ reader' = [reader EXCEPT ![r] = "read"]
             /\ missing' = [missing EXCEPT ![r] = {k}]
             /\ UNCHANGED <<todo, gathered>>
    BY <1>5 DEF Pull
  <2>2. k \in Keys /\ UNCHANGED <<listed, gatherStatus>>
    BY <1>5 DEF Pull, SetTypes
  <2>3. SetTypes'
    BY <2>1, <2>2 DEF SetTypes
  <2>4. [gathered EXCEPT ![r][k] = Fallback] \in [Readers -> [Keys -> 0 .. Fallback]]
    BY <1>2, <2>2, GatheredType
  <2>5. ReaderTypes'
    BY <2>1, <2>2, <2>4 DEF ReaderTypes
  <2> QED BY <1>1, <2>3, <2>5, MapperTypePartsNext
<1>6. CASE GetChunk(r)
  <2>1. PICK k \in missing[r] :
          \/ /\ gathered' = [gathered EXCEPT ![r][k] = chunks[k]]
             /\ ReaderAt(r, "pull", todo[r] \ {k})
             /\ UNCHANGED gatherStatus
          \/ /\ gatherStatus' = [gatherStatus EXCEPT ![r] = "failed"]
             /\ ReaderAt(r, "idle", {})
             /\ UNCHANGED gathered
    BY <1>6 DEF GetChunk
  <2>2. k \in Keys /\ UNCHANGED <<listed, missing>>
    BY <1>6 DEF GetChunk, SetTypes
  <2>3. SetTypes'
    BY <2>1, <2>2 DEF SetTypes, ReaderAt
  <2>4. [gathered EXCEPT ![r][k] = chunks[k]] \in [Readers -> [Keys -> 0 .. Fallback]]
    BY <1>2, <2>2, GatheredType
  <2>5. ReaderTypes'
    BY <2>1, <2>2, <2>4 DEF ReaderTypes, ReaderAt
  <2> QED BY <1>1, <2>3, <2>5, MapperTypePartsNext
<1>7. CASE GatherReturn(r) \/ GatherRaises(r)
  <2>1. SetTypes'
    BY <1>7 DEF GatherReturn, GatherRaises, ReaderAt, SetTypes
  <2>2. ReaderTypes'
    BY <1>7 DEF GatherReturn, GatherRaises, ReaderAt, ReaderTypes
  <2> QED BY <1>1, <2>1, <2>2, MapperTypePartsNext
<1> QED BY <1>3, <1>4, <1>5, <1>6, <1>7 DEF GatherStep

LEMMA MapperStutterTypes == ASSUME MapperTypeOK, UNCHANGED mapperVars PROVE MapperTypeOK'
BY DEF mapperVars, storeVars, writerVars, readerVars, MapperTypeOK

\* Type correctness of the store, its writers and its readers.
THEOREM MapperTypeCorrect == MapperSpec => []MapperTypeOK
<1>1. MapperTypeOK /\ [MapperNext]_mapperVars => MapperTypeOK'
  BY MapKeepsTypes, GatherKeepsTypes, MapperStutterTypes DEF MapperNext
<1> QED BY <1>1, MapperInitTypes, PTL DEF MapperSpec

-----------------------------------------------------------------------------
(* What hides a value                                                        *)

\* A Map about to push, and undisturbed, has its key listed.
PushesListed == \A k \in undisturbed : writer[k] = "push" => k \in keyList

\* During a cleanup an undisturbed key has no writer, and none if missing.
CleanupsAlone ==
    \A r \in Readers, k \in undisturbed :
        InCleanup(r) => writer[k] = "idle" /\ (k \in missing[r] => chunks[k] = Absent)

HidesInv == MapperTypeOK /\ OnlyOverlapHides /\ PushesListed /\ CleanupsAlone

LEMMA InitHides == MapperInit => HidesInv
BY MapperInitTypes DEF MapperInit, HidesInv, OnlyOverlapHides, PushesListed, CleanupsAlone

LEMMA MapKeepsHides ==
    ASSUME HidesInv, NEW k \in Keys, MapCall(k) \/ MapStep(k) \/ Expire(k)
    PROVE  HidesInv'
<1> USE MapperTypeParts, ConstantsAssumption DEF storeVars, writerVars, readerVars
<1>0. MapperTypeOK /\ MapperTypeOK'
  BY MapKeepsTypes DEF HidesInv
<1>1. CASE MapCall(k)
  <2>1. /\ UNCHANGED <<keyList, chunks, reader, missing>>
        /\ \A j \in Keys \ {k} : writer'[j] = writer[j] /\ status'[j] = status[j]
        /\ writer'[k] # "idle"
        /\ undisturbed' \subseteq undisturbed \cup {k}
    BY <1>0, <1>1 DEF MapCall, MapBegin, RegisterUnreachable, WriterTypes
  <2>2. k \in undisturbed' => /\ writer'[k] = "push" => k \in keyList
                              /\ \A r \in Readers : ~InCleanup(r)
    BY <1>0, <1>1 DEF MapCall, MapBegin, RegisterUnreachable, WriterTypes
  <2>3. OnlyOverlapHides'
    BY <2>1 DEF HidesInv, OnlyOverlapHides, StoreTypes
  <2>4. PushesListed'
    BY <1>0, <2>1, <2>2 DEF HidesInv, PushesListed, StoreTypes
  <2>5. CleanupsAlone'
    BY <1>0, <2>1, <2>2 DEF HidesInv, CleanupsAlone, InCleanup, StoreTypes
  <2> QED BY <1>0, <2>3, <2>4, <2>5 DEF HidesInv
<1>2. CASE MapAdd(k)
  <2>1. /\ UNCHANGED <<chunks, reader, missing, status, undisturbed>> /\ keyList' = keyList \cup {k}
        /\ writer[k] = "add" /\ writer'[k] = "push" /\ \A j \in Keys \ {k} : writer'[j] = writer[j]
    BY <1>0, <1>2 DEF MapAdd, WriterTypes
  <2> QED BY <1>0, <2>1 DEF HidesInv, OnlyOverlapHides, PushesListed, CleanupsAlone, InCleanup, StoreTypes
<1>3. CASE MapPush(k) \/ PushUnreachable(k) \/ MapRaises(k)
  <2>1. /\ UNCHANGED <<keyList, reader, missing, undisturbed>>
        /\ writer[k] # "idle" /\ writer'[k] = "idle"
        /\ status'[k] = "ok" => writer[k] = "push"
        /\ \A j \in Keys \ {k} : writer'[j] = writer[j] /\ status'[j] = status[j] /\ chunks'[j] = chunks[j]
    BY <1>0, <1>3 DEF MapPush, PushUnreachable, MapRaises, Return, WriterTypes, StoreTypes
  <2>2. ASSUME NEW j \in undisturbed, writer'[j] = "idle", status'[j] = "ok", chunks'[j] # Absent
        PROVE  j \in keyList
    <3>1. CASE j = k
      BY <2>1, <2>2, <3>1 DEF HidesInv, PushesListed
    <3>2. CASE j # k
      <4>1. j \in Keys \ {k}
        BY <1>0, <3>2 DEF StoreTypes
      <4>2. writer[j] = "idle" /\ status[j] = "ok" /\ chunks[j] # Absent
        BY <2>1, <2>2, <4>1
      <4> QED BY <4>2 DEF HidesInv, OnlyOverlapHides
    <3> QED BY <3>1, <3>2
  <2>3. PushesListed'
    <3>1. \A j \in Keys : writer'[j] = "push" => writer[j] = "push"
      BY <2>1
    <3> QED BY <1>0, <2>1, <3>1 DEF HidesInv, PushesListed, StoreTypes
  <2>5. OnlyOverlapHides'
    BY <2>1, <2>2 DEF OnlyOverlapHides
  <2>4. CleanupsAlone'
    BY <1>0, <2>1 DEF HidesInv, CleanupsAlone, InCleanup, StoreTypes
  <2> QED BY <1>0, <2>3, <2>4, <2>5 DEF HidesInv
<1>4. CASE Expire(k)
  <2>1. /\ UNCHANGED <<keyList, reader, missing, undisturbed, writer, status>>
        /\ chunks'[k] = Absent /\ \A j \in Keys \ {k} : chunks'[j] = chunks[j]
    BY <1>0, <1>4 DEF Expire, StoreTypes
  <2> QED BY <1>0, <2>1 DEF HidesInv, OnlyOverlapHides, PushesListed, CleanupsAlone, InCleanup, StoreTypes
<1> QED BY <1>1, <1>2, <1>3, <1>4 DEF MapStep

LEMMA GatherKeepsHides ==
    ASSUME HidesInv, NEW r \in Readers, GatherCall(r) \/ GatherStep(r)
    PROVE  HidesInv'
<1> USE MapperTypeParts, ConstantsAssumption DEF storeVars, writerVars
<1>0. MapperTypeOK /\ MapperTypeOK'
  BY GatherKeepsTypes DEF HidesInv
<1>1. UNCHANGED <<chunks, writer, status>>
  BY DEF GatherCall, GatherBegin, GatherUnreachable, GatherStep, CheckExists, CheckedAll, CleanUp, Pull,
         GetChunk, GatherReturn, GatherRaises
<1>2. CASE GatherBegin(r)
  <2>1. /\ keyList' = keyList /\ undisturbed' = undisturbed \ {k \in Keys : writer[k] # "idle"}
        /\ missing'[r] = {}
        /\ \A q \in Readers \ {r} : reader'[q] = reader[q] /\ missing'[q] = missing[q]
    BY <1>0, <1>2 DEF GatherBegin, ReaderAt, ReaderTypes, SetTypes
  <2>2. OnlyOverlapHides' /\ PushesListed'
    BY <1>1, <2>1 DEF HidesInv, OnlyOverlapHides, PushesListed
  <2>3. CleanupsAlone'
    BY <1>0, <1>1, <2>1 DEF HidesInv, CleanupsAlone, InCleanup, StoreTypes
  <2> QED BY <1>0, <2>2, <2>3 DEF HidesInv
<1>3. CASE CheckExists(r)
  <2>1. PICK k \in todo[r] :
          missing' = [missing EXCEPT ![r] = IF chunks[k] = Absent THEN missing[r] \cup {k} ELSE missing[r]]
    BY <1>3 DEF CheckExists
  <2>2. UNCHANGED <<keyList, undisturbed, reader>>
    BY <1>3 DEF CheckExists
  <2>3. \A q \in Readers, j \in Keys : j \in missing'[q] => j \in missing[q] \/ chunks[j] = Absent
    BY <1>0, <2>1 DEF SetTypes
  <2>4. CleanupsAlone'
    BY <1>0, <1>1, <2>2, <2>3 DEF HidesInv, CleanupsAlone, InCleanup, StoreTypes
  <2> QED BY <1>0, <1>1, <2>2, <2>4 DEF HidesInv, OnlyOverlapHides, PushesListed
<1>4. CASE CheckedAll(r)
  <2>1. UNCHANGED <<keyList, undisturbed, missing>> /\ InCleanup(r)
        /\ \A q \in Readers : InCleanup(q)' => InCleanup(q)
    BY <1>0, <1>4 DEF CheckedAll, ReaderAt, InCleanup, ReaderTypes
  <2> QED BY <1>0, <1>1, <2>1 DEF HidesInv, OnlyOverlapHides, PushesListed, CleanupsAlone
<1>5. CASE CleanUp(r)
  <2>1. /\ UNCHANGED <<undisturbed, missing>> /\ keyList' = keyList \ missing[r] /\ InCleanup(r)
        /\ \A q \in Readers : InCleanup(q)' => InCleanup(q)
    BY <1>0, <1>5 DEF CleanUp, ReaderAt, InCleanup, ReaderTypes
  <2>2. \A k \in undisturbed : writer[k] = "idle" /\ (k \in missing[r] => chunks[k] = Absent)
    BY <2>1 DEF HidesInv, CleanupsAlone
  <2>3. OnlyOverlapHides' /\ PushesListed'
    BY <1>1, <2>1, <2>2 DEF HidesInv, OnlyOverlapHides, PushesListed
  <2>4. CleanupsAlone'
    BY <1>1, <2>1 DEF HidesInv, CleanupsAlone
  <2> QED BY <1>0, <2>3, <2>4 DEF HidesInv
<1>6. CASE GatherUnreachable(r) \/ Pull(r) \/ GetChunk(r) \/ GatherReturn(r) \/ GatherRaises(r)
  <2>1. /\ UNCHANGED <<keyList, undisturbed>>
        /\ \A q \in Readers : InCleanup(q)' => InCleanup(q) /\ missing'[q] = missing[q]
    BY <1>0, <1>6 DEF GatherUnreachable, Pull, GetChunk, GatherReturn, GatherRaises, ReaderAt, InCleanup,
                      ReaderTypes, SetTypes
  <2> QED BY <1>0, <1>1, <2>1 DEF HidesInv, OnlyOverlapHides, PushesListed, CleanupsAlone
<1> QED BY <1>2, <1>3, <1>4, <1>5, <1>6 DEF GatherCall, GatherStep

\* A value whose Map succeeded and overlapped no cleanup stays findable while it
\* is stored, through failures and expiry: the race of Map with AllGather's lazy
\* cleanup is the only way a stored value gets hidden.
THEOREM HiddenOnlyByOverlap == MapperSpec => []OnlyOverlapHides
<1>1. HidesInv /\ UNCHANGED mapperVars => HidesInv'
  BY MapperStutterTypes DEF HidesInv, mapperVars, storeVars, writerVars, readerVars, OnlyOverlapHides,
                            PushesListed, CleanupsAlone, InCleanup
<1>2. HidesInv /\ [MapperNext]_mapperVars => HidesInv'
  BY <1>1, MapKeepsHides, GatherKeepsHides DEF MapperNext
<1>3. HidesInv => OnlyOverlapHides
  BY DEF HidesInv
<1> QED BY <1>2, <1>3, InitHides, PTL DEF MapperSpec

-----------------------------------------------------------------------------
(* The barrier                                                               *)

Messages == [from : Workers, map_status : BOOLEAN]

QueueTypes == queue \in Seq(Messages)

ControlTypes ==
    /\ contributor \in [Workers -> {"idle", "map", "over", "raised"}]
    /\ coordinator \in {"off", "wait", "aggregate", "gather", "over"}
    /\ readyFrom \subseteq Workers
    /\ deadline \in BOOLEAN
    /\ cancelled \in BOOLEAN
    /\ result \in {"none", "ok", "cancelled", "map_failed", "missing", "aggregate_failed"}
    /\ coordinator = "over" <=> result # "none"

LEMMA BarrierTypeParts == BarrierTypeOK <=> MapperTypeOK /\ QueueTypes /\ ControlTypes
BY DEF BarrierTypeOK, ControlTypes, QueueTypes, Messages

LEMMA BarrierTypePartsNext == BarrierTypeOK' <=> MapperTypeOK' /\ QueueTypes' /\ ControlTypes'
BY DEF BarrierTypeOK, ControlTypes, QueueTypes, Messages

LEMMA CoordinatorReads == Coordinator \in Readers /\ Coordinator \in Keys /\ \A r \in Readers : r = Coordinator
BY BarrierAssumption

LEMMA BarrierInitTypes == Init => BarrierTypeOK
<1> SUFFICES ASSUME Init PROVE BarrierTypeOK
  OBVIOUS
<1>1. MapperTypeOK
  BY MapperInitTypes DEF Init
<1>2. QueueTypes
  BY DEF Init, QueueTypes
<1>3. ControlTypes
  BY DEF Init, ControlTypes
<1> QED BY <1>1, <1>2, <1>3, BarrierTypeParts

\* What is sent to the coordinator, and what is left of it.
LEMMA QueueUpdates ==
    ASSUME QueueTypes, NEW w \in Workers
    PROVE  /\ Append(queue, Ready(w)) \in Seq(Messages)
           /\ queue # <<>> => Head(queue) \in Messages /\ Tail(queue) \in Seq(Messages)
<1>1. Ready(w) \in Messages
  BY DEF Ready, Messages
<1> QED BY <1>1 DEF QueueTypes

LEMMA WorkerKeepsBarrierTypes ==
    ASSUME BarrierTypeOK, NEW w \in Workers,
           Contribute(w) \/ ContributeRaises(w) \/ Mapping(w) \/ SendReady(w)
    PROVE  BarrierTypeOK'
<1>0. MapperTypeOK /\ QueueTypes /\ ControlTypes
  BY BarrierTypeParts
<1>1. MapperTypeOK'
  BY <1>0, MapKeepsTypes, MapperStutterTypes DEF Contribute, ContributeRaises, Mapping, SendReady, Workers
<1>2. QueueTypes'
  BY <1>0, QueueUpdates DEF Contribute, ContributeRaises, Mapping, SendReady, QueueTypes
<1>3. ControlTypes'
  BY <1>0 DEF Contribute, ContributeRaises, Mapping, SendReady, ControlTypes, coordVars
<1> QED BY <1>1, <1>2, <1>3, BarrierTypePartsNext

LEMMA CoordinatorKeepsBarrierTypes ==
    ASSUME BarrierTypeOK, CoordinateBegin \/ DeadlinePasses \/ CoordinatorStep \/ Cancel
    PROVE  BarrierTypeOK'
<1> USE DEF coordVars
<1>0. MapperTypeOK /\ QueueTypes /\ ControlTypes /\ Coordinator \in Workers /\ <<>> \in Seq(Messages)
  BY BarrierTypeParts, CoordinatorReads DEF Workers
<1>1. MapperTypeOK'
  BY <1>0, GatherKeepsTypes, MapperStutterTypes, CoordinatorReads
  DEF CoordinateBegin, DeadlinePasses, CoordinatorStep, ReceiveReady, SeeCancelled, StopWaiting, AggregateBegin,
      Gathering, AggregateReturn, Cancel
<1>2. CASE CoordinateBegin \/ DeadlinePasses \/ Cancel
  <2>1. QueueTypes' /\ ControlTypes'
    BY <1>0, <1>2 DEF CoordinateBegin, DeadlinePasses, Cancel, ControlTypes, QueueTypes
  <2> QED BY <1>1, <2>1, BarrierTypePartsNext
<1>3. CASE ReceiveReady
  <2>1. Head(queue) \in Messages /\ Tail(queue) \in Seq(Messages)
    BY <1>0, <1>3, QueueUpdates DEF ReceiveReady
  <2>2. QueueTypes'
    BY <1>0, <1>3, <2>1 DEF ReceiveReady, Receive, ReturnResult, QueueTypes
  <2>3. Head(queue).from \in Workers
    BY <2>1 DEF Messages
  <2>4. ControlTypes'
    BY <1>0, <1>3, <2>3 DEF ReceiveReady, Receive, ReturnResult, ControlTypes
  <2> QED BY <1>1, <2>2, <2>4, BarrierTypePartsNext
<1>4. CASE SeeCancelled \/ StopWaiting
  <2>1. QueueTypes' /\ ControlTypes'
    BY <1>0, <1>4 DEF SeeCancelled, StopWaiting, ReturnResult, ControlTypes, QueueTypes
  <2> QED BY <1>1, <2>1, BarrierTypePartsNext
<1>5. CASE AggregateBegin \/ Gathering \/ AggregateReturn
  <2>1. QueueTypes' /\ ControlTypes'
    BY <1>0, <1>5 DEF AggregateBegin, Gathering, AggregateReturn, ReturnResult, ControlTypes, QueueTypes
  <2> QED BY <1>1, <2>1, BarrierTypePartsNext
<1> QED BY <1>2, <1>3, <1>4, <1>5 DEF CoordinatorStep

LEMMA BarrierStutterTypes == ASSUME BarrierTypeOK, UNCHANGED vars PROVE BarrierTypeOK'
<1>1. MapperTypeOK'
  BY BarrierTypeParts, MapperStutterTypes DEF vars
<1> QED BY <1>1, BarrierTypeParts, BarrierTypePartsNext DEF vars, coordVars, ControlTypes, QueueTypes

\* Type correctness: among others, coordinate is over exactly when it has a result.
THEOREM BarrierTypeCorrect == Spec => []BarrierTypeOK
<1>1. BarrierTypeOK /\ [Next]_vars => BarrierTypeOK'
  BY WorkerKeepsBarrierTypes, CoordinatorKeepsBarrierTypes, BarrierStutterTypes DEF Next
<1> QED BY <1>1, BarrierInitTypes, PTL DEF Spec

-----------------------------------------------------------------------------
(* Complete folds                                                            *)

\* A worker whose Map says ok has its value stored and listed.
Contributions ==
    \A w \in Workers :
        /\ contributor[w] # "map" => writer[w] = "idle"
        /\ contributor[w] \in {"idle", "raised"} => status[w] = "none"
        /\ writer[w] # "idle" => maps[w] > 0 /\ status[w] = "none"
        /\ writer[w] = "push" => w \in keyList
        /\ status[w] = "ok" => chunks[w] = maps[w] /\ maps[w] > 0 /\ w \in keyList

Sent(w) == contributor[w] = "over" /\ status[w] = "ok"

\* The coordinator hears, and knows, only of those.
Heard ==
    /\ \A i \in 1 .. Len(queue) : queue[i].map_status => Sent(queue[i].from)
    /\ \A w \in readyFrom : Sent(w)

Phases ==
    /\ coordinator \in {"aggregate", "gather"} \/ result = "ok" => readyFrom = Workers
    /\ reader[Coordinator] # "idle" => coordinator = "gather"

AllGathered == \A k \in Keys : gathered[Coordinator][k] = maps[k]

\* The reader misses nothing.
Gatherings ==
    /\ coordinator = "gather" =>
          /\ reader[Coordinator] \in {"exists", "srem"} => listed[Coordinator] = Keys /\ missing[Coordinator] = {}
          /\ reader[Coordinator] \in {"pull", "read"} =>
                \A k \in Keys \ todo[Coordinator] : gathered[Coordinator][k] = maps[k]
          /\ reader[Coordinator] = "idle" /\ gatherStatus[Coordinator] = "ok" => AllGathered
    /\ result = "ok" => AllGathered

BarrierInv == BarrierTypeOK /\ Contributions /\ Heard /\ Phases /\ Gatherings

LEMMA BarrierInvGives == BarrierInv => CompleteFold /\ GathersAlone
BY DEF BarrierInv, CompleteFold, GathersAlone, Contributions, Heard, Phases, Gatherings, AllGathered, Sent, Workers

LEMMA InitBarrier == Init => BarrierInv
BY BarrierInitTypes, CoordinatorReads
DEF Init, MapperInit, BarrierInv, Contributions, Heard, Phases, Gatherings, Workers

\* While some worker has nothing stored, nobody gathers and nothing is ok.
LEMMA NotAllSent ==
    ASSUME BarrierInv, NEW w \in Workers, ~Sent(w)
    PROVE  /\ w \notin readyFrom
           /\ coordinator \notin {"aggregate", "gather"}
           /\ result # "ok"
           /\ reader[Coordinator] = "idle"
<1>1. w \notin readyFrom
  BY DEF BarrierInv, Heard
<1>2. readyFrom # Workers
  BY <1>1
<1> QED BY <1>1, <1>2 DEF BarrierInv, Phases

\* A step of a worker that has not reported leaves the others and the
\* coordinator alone.
LEMMA WorkerStepKeeps ==
    ASSUME BarrierInv, BarrierTypeOK', Contributions', NEW w \in Workers, ~Sent(w),
           \A v \in Workers \ {w} : contributor'[v] = contributor[v] /\ status'[v] = status[v],
           queue' = queue \/ (queue' = Append(queue, Ready(w)) /\ contributor'[w] = "over" /\ status' = status),
           UNCHANGED <<readerVars, coordVars>>
    PROVE  BarrierInv'
<1> USE DEF coordVars, readerVars
<1> DEFINE SentNext(v) == contributor'[v] = "over" /\ status'[v] = "ok"
<1>1. /\ w \notin readyFrom /\ coordinator \notin {"aggregate", "gather"}
      /\ result # "ok" /\ reader[Coordinator] = "idle"
  BY NotAllSent
<1>2. \A v \in Workers \ {w} : SentNext(v) <=> Sent(v)
  BY DEF Sent
<1>3. QueueTypes /\ ControlTypes
  BY BarrierTypeParts DEF BarrierInv
<1>4. \A i \in 1 .. Len(queue) : queue[i] \in Messages /\ (queue[i].map_status => SentNext(queue[i].from))
  <2> SUFFICES ASSUME NEW i \in 1 .. Len(queue)
               PROVE  queue[i] \in Messages /\ (queue[i].map_status => SentNext(queue[i].from))
    OBVIOUS
  <2>1. queue[i] \in Messages
    BY <1>3 DEF QueueTypes
  <2>2. queue[i].from \in Workers
    BY <2>1 DEF Messages
  <2>3. queue[i].map_status => Sent(queue[i].from)
    BY DEF BarrierInv, Heard
  <2> QED BY <1>2, <2>1, <2>2, <2>3
<1>5. \A i \in 1 .. Len(queue') : queue'[i].map_status => SentNext(queue'[i].from)
  <2>1. CASE queue' = queue
    BY <1>4, <2>1
  <2>2. CASE queue' = Append(queue, Ready(w)) /\ contributor'[w] = "over" /\ status' = status
    <3>1. Len(queue') = Len(queue) + 1 /\ queue'[Len(queue) + 1] = Ready(w) /\ Len(queue) \in Nat
          /\ \A i \in 1 .. Len(queue) : queue'[i] = queue[i]
      BY <1>3, <2>2, QueueUpdates DEF QueueTypes
    <3>2. Ready(w).map_status => SentNext(Ready(w).from)
      BY <2>2 DEF Ready, Sent
    <3>3. \A i \in 1 .. Len(queue') : i \in 1 .. Len(queue) \/ i = Len(queue) + 1
      BY <3>1
    <3> QED BY <1>4, <3>1, <3>2, <3>3
  <2> QED BY <2>1, <2>2
<1>6. \A v \in readyFrom' : SentNext(v)
  BY <1>1, <1>2, <1>3 DEF BarrierInv, Heard, ControlTypes
<1>7. Heard'
  BY <1>5, <1>6 DEF Heard, Sent
<1>8. Phases' /\ Gatherings'
  BY <1>1 DEF Phases, Gatherings
<1> QED BY <1>7, <1>8 DEF BarrierInv

LEMMA ContributeKeeps ==
    ASSUME BarrierInv, "unreachable" \notin Faults, NEW w \in Workers, Contribute(w) \/ ContributeRaises(w)
    PROVE  BarrierInv'
<1> USE DEF coordVars, Workers, mapperVars, storeVars, writerVars
<1>1. BarrierTypeOK' /\ contributor[w] = "idle" /\ contributor \in [Workers -> {"idle", "map", "over", "raised"}]
  BY WorkerKeepsBarrierTypes, BarrierTypeParts DEF BarrierInv, Contribute, ContributeRaises, ControlTypes
<1>2. WriterTypes
  BY BarrierTypeParts, MapperTypeParts DEF BarrierInv
<1>3. writer[w] = "idle" /\ status[w] = "none" /\ ~Sent(w)
  BY <1>1 DEF BarrierInv, Contributions, Sent
<1>4. CASE ContributeRaises(w)
  <2>1. \A v \in Workers : contributor'[v] = IF v = w THEN "raised" ELSE contributor[v]
    BY <1>1, <1>4 DEF ContributeRaises
  <2>2. Contributions'
    BY <1>3, <1>4, <2>1 DEF ContributeRaises, BarrierInv, Contributions
  <2>3. queue' = queue /\ status' = status /\ UNCHANGED <<readerVars, coordVars>>
    BY <1>4 DEF ContributeRaises
  <2> QED BY <1>1, <1>3, <2>1, <2>2, <2>3, WorkerStepKeeps
<1>5. CASE Contribute(w)
  <2>1. MapBegin(w)
    BY <1>5 DEF Contribute, MapCall, RegisterUnreachable
  <2>2. \A v \in Workers :
          /\ contributor'[v] = IF v = w THEN "map" ELSE contributor[v]
          /\ writer'[v] = IF v # w THEN writer[v] ELSE IF w \in keyList THEN "push" ELSE "add"
          /\ maps'[v] = IF v = w THEN maps[w] + 1 ELSE maps[v]
    BY <1>1, <1>2, <1>5, <2>1 DEF Contribute, MapBegin, WriterTypes
  <2>3. UNCHANGED <<keyList, chunks, status, readerVars, coordVars, queue>> /\ maps[w] + 1 > 0
    BY <1>2, <1>5, <2>1, ConstantsAssumption DEF Contribute, MapBegin, WriterTypes
  <2>4. Contributions'
    <3> SUFFICES ASSUME NEW v \in Workers
                 PROVE  /\ contributor'[v] # "map" => writer'[v] = "idle"
                        /\ contributor'[v] \in {"idle", "raised"} => status[v] = "none"
                        /\ writer'[v] # "idle" => maps'[v] > 0 /\ status[v] = "none"
                        /\ writer'[v] = "push" => v \in keyList
                        /\ status[v] = "ok" => chunks[v] = maps'[v] /\ maps'[v] > 0 /\ v \in keyList
      BY <2>3 DEF Contributions
    <3>1. CASE v = w
      BY <1>3, <2>2, <2>3, <3>1
    <3>2. CASE v # w
      BY <2>2, <3>2 DEF BarrierInv, Contributions
    <3> QED BY <3>1, <3>2
  <2> QED BY <1>1, <1>3, <2>2, <2>3, <2>4, WorkerStepKeeps
<1> QED BY <1>4, <1>5

LEMMA MappingKeeps ==
    ASSUME BarrierInv, "unreachable" \notin Faults, NEW w \in Workers, Mapping(w)
    PROVE  BarrierInv'
<1> USE DEF Workers, storeVars, writerVars, coordVars
<1>1. BarrierTypeOK' /\ WriterTypes /\ StoreTypes
  BY WorkerKeepsBarrierTypes, BarrierTypeParts, MapperTypeParts DEF BarrierInv
<1>2. writer[w] # "idle" /\ UNCHANGED <<contributor, queue, coordVars, readerVars, maps>>
  BY DEF Mapping, MapStep, MapAdd, MapPush, PushUnreachable, MapRaises
<1>3. contributor[w] = "map" /\ status[w] = "none" /\ maps[w] > 0 /\ ~Sent(w)
  BY <1>2 DEF BarrierInv, Contributions, Sent
<1>4. \A v \in Workers \ {w} : writer'[v] = writer[v] /\ status'[v] = status[v] /\ chunks'[v] = chunks[v]
  BY <1>1 DEF Mapping, MapStep, MapAdd, MapPush, PushUnreachable, MapRaises, Return, WriterTypes, StoreTypes
<1>5. keyList \subseteq keyList'
  BY DEF Mapping, MapStep, MapAdd, MapPush, PushUnreachable, MapRaises
<1>6. /\ writer'[w] # "idle" => status'[w] = "none"
      /\ writer'[w] = "push" => w \in keyList'
      /\ status'[w] = "ok" => chunks'[w] = maps[w] /\ w \in keyList'
  BY <1>1, <1>3 DEF Mapping, MapStep, MapAdd, MapPush, PushUnreachable, MapRaises, Return, WriterTypes, StoreTypes,
                    BarrierInv, Contributions
<1>7. Contributions'
  <2> SUFFICES ASSUME NEW v \in Workers
               PROVE  /\ contributor[v] # "map" => writer'[v] = "idle"
                      /\ contributor[v] \in {"idle", "raised"} => status'[v] = "none"
                      /\ writer'[v] # "idle" => maps[v] > 0 /\ status'[v] = "none"
                      /\ writer'[v] = "push" => v \in keyList'
                      /\ status'[v] = "ok" => chunks'[v] = maps[v] /\ maps[v] > 0 /\ v \in keyList'
    BY <1>2 DEF Contributions
  <2>1. CASE v = w
    BY <1>3, <1>6, <2>1
  <2>2. CASE v # w
    BY <1>4, <1>5, <2>2 DEF BarrierInv, Contributions
  <2> QED BY <2>1, <2>2
<1> QED BY <1>1, <1>2, <1>3, <1>4, <1>7, WorkerStepKeeps

LEMMA SendReadyKeeps ==
    ASSUME BarrierInv, NEW w \in Workers, SendReady(w)
    PROVE  BarrierInv'
<1> USE DEF Workers, mapperVars, storeVars, writerVars, coordVars
<1>1. BarrierTypeOK' /\ contributor \in [Workers -> {"idle", "map", "over", "raised"}]
  BY WorkerKeepsBarrierTypes, BarrierTypeParts DEF BarrierInv, ControlTypes
<1>2. /\ contributor[w] = "map" /\ writer[w] = "idle" /\ ~Sent(w)
      /\ queue' = Append(queue, Ready(w)) \/ queue' = queue
      /\ UNCHANGED <<keyList, chunks, writer, maps, status, readerVars, coordVars>>
      /\ \A v \in Workers : contributor'[v] = IF v = w THEN "over" ELSE contributor[v]
  BY <1>1 DEF SendReady, Sent
<1>3. Contributions'
  BY <1>2 DEF BarrierInv, Contributions
<1> QED BY <1>1, <1>2, <1>3, WorkerStepKeeps

\* Once the fold has begun, every worker's value is stored and listed.
LEMMA AllStored ==
    ASSUME BarrierInv, coordinator \in {"aggregate", "gather"}
    PROVE  keyList = Keys /\ \A k \in Keys : Sent(k) /\ chunks[k] = maps[k] /\ chunks[k] # Absent
<1>1. \A k \in Keys : Sent(k)
  BY DEF BarrierInv, Phases, Heard, Workers
<1>2. StoreTypes /\ WriterTypes
  BY BarrierTypeParts, MapperTypeParts DEF BarrierInv
<1>3. \A k \in Keys : k \in keyList /\ chunks[k] = maps[k] /\ maps[k] > 0
  BY <1>1 DEF BarrierInv, Contributions, Sent, Workers
<1>4. \A k \in Keys : maps[k] \in 0 .. MaxMaps
  BY <1>2 DEF WriterTypes
<1> QED BY <1>1, <1>2, <1>3, <1>4 DEF StoreTypes, Absent

\* Steps of the loop, and of the head: the store and the reader rest.
LEMMA WaitingKeeps ==
    ASSUME BarrierInv, CoordinateBegin \/ DeadlinePasses \/ Cancel \/ ReceiveReady \/ SeeCancelled \/ StopWaiting
    PROVE  BarrierInv'
<1> USE DEF coordVars, mapperVars, storeVars, writerVars, readerVars
<1>1. BarrierTypeOK' /\ QueueTypes /\ ControlTypes
  BY CoordinatorKeepsBarrierTypes, BarrierTypeParts DEF BarrierInv, CoordinatorStep
<1>2. UNCHANGED <<contributor, keyList, chunks, writer, maps, status, reader, todo, listed, missing, gathered,
                  gatherStatus>>
  BY DEF CoordinateBegin, DeadlinePasses, Cancel, ReceiveReady, SeeCancelled, StopWaiting
<1>3. Contributions'
  BY <1>2 DEF BarrierInv, Contributions
<1>4. CASE CoordinateBegin \/ DeadlinePasses \/ Cancel
  <2>1. Heard'
    BY <1>2, <1>4 DEF CoordinateBegin, DeadlinePasses, Cancel, BarrierInv, Heard, Sent
  <2>2. Phases' /\ Gatherings'
    BY <1>2, <1>4 DEF CoordinateBegin, DeadlinePasses, Cancel, BarrierInv, Phases, Gatherings, AllGathered
  <2> QED BY <1>1, <1>3, <2>1, <2>2 DEF BarrierInv
<1>5. CASE ReceiveReady
  <2>1. coordinator = "wait" /\ result = "none" /\ result' # "ok" /\ reader[Coordinator] = "idle"
        /\ coordinator' \in {"wait", "over"}
    BY <1>1, <1>5 DEF ReceiveReady, Receive, ReturnResult, ControlTypes, BarrierInv, Phases
  <2>2. Len(queue) \in Nat \ {0} /\ Head(queue) = queue[1] /\ Len(Tail(queue)) = Len(queue) - 1
        /\ \A i \in 1 .. Len(Tail(queue)) : Tail(queue)[i] = queue[i + 1]
    BY <1>1, <1>5 DEF ReceiveReady, QueueTypes
  <2>3. Head(queue).map_status => Sent(Head(queue).from)
    BY <2>2 DEF BarrierInv, Heard
  <2>4. \A i \in 1 .. Len(Tail(queue)) : Tail(queue)[i].map_status => Sent(Tail(queue)[i].from)
    BY <2>2 DEF BarrierInv, Heard
  <2>5. queue' = <<>> \/ queue' = Tail(queue)
    BY <1>5 DEF ReceiveReady, Receive, ReturnResult
  <2>6. readyFrom' = readyFrom \/ (readyFrom' = readyFrom \cup {Head(queue).from} /\ Head(queue).map_status)
    BY <1>5 DEF ReceiveReady, Receive
  <2>7. \A i \in 1 .. Len(queue') : queue'[i].map_status => Sent(queue'[i].from)
    <3>1. CASE queue' = <<>>
      BY <3>1
    <3>2. CASE queue' = Tail(queue)
      BY <2>4, <3>2
    <3> QED BY <2>5, <3>1, <3>2
  <2>8. \A v \in readyFrom' : Sent(v)
    BY <2>3, <2>6 DEF BarrierInv, Heard
  <2>9. Heard'
    BY <1>2, <2>7, <2>8 DEF Heard, Sent
  <2>10. Phases' /\ Gatherings'
    BY <1>2, <2>1 DEF Phases, Gatherings
  <2> QED BY <1>1, <1>3, <2>9, <2>10 DEF BarrierInv
<1>6. CASE SeeCancelled \/ StopWaiting
  <2>1. /\ coordinator = "wait" /\ result = "none" /\ result' # "ok" /\ reader[Coordinator] = "idle"
        /\ readyFrom' = readyFrom /\ (queue' = queue \/ queue' = <<>>)
        /\ coordinator' = "over" \/ (coordinator' = "aggregate" /\ readyFrom = Workers)
    BY <1>1, <1>6 DEF SeeCancelled, StopWaiting, ReturnResult, ControlTypes, BarrierInv, Phases
  <2>2. Heard'
    BY <1>2, <2>1 DEF BarrierInv, Heard, Sent
  <2>3. Phases' /\ Gatherings'
    BY <1>2, <2>1 DEF Phases, Gatherings
  <2> QED BY <1>1, <1>3, <2>2, <2>3 DEF BarrierInv
<1> QED BY <1>4, <1>5, <1>6

LEMMA GatheringKeeps ==
    ASSUME BarrierInv, "unreachable" \notin Faults, AggregateBegin \/ Gathering \/ AggregateReturn
    PROVE  BarrierInv'
<1> DEFINE C == Coordinator
<1> USE DEF coordVars, mapperVars, storeVars, writerVars, ReaderAt
<1>1. BarrierTypeOK' /\ ReaderTypes /\ SetTypes /\ ControlTypes /\ C \in Readers /\ C \in Keys
  BY CoordinatorKeepsBarrierTypes, BarrierTypeParts, MapperTypeParts, CoordinatorReads DEF BarrierInv, CoordinatorStep
<1>2. coordinator \in {"aggregate", "gather"} /\ (Gathering => reader[C] # "idle")
  BY DEF AggregateBegin, Gathering, AggregateReturn, GatherStep, CheckExists, CheckedAll, CleanUp, Pull, GetChunk,
         GatherReturn, GatherRaises, BarrierInv, Phases
<1>3. keyList = Keys /\ readyFrom = Workers /\ \A k \in Keys : chunks[k] = maps[k] /\ chunks[k] # Absent
  BY <1>2, AllStored DEF BarrierInv, Phases
<1>4. UNCHANGED <<contributor, chunks, writer, maps, status, readyFrom>> /\ (queue' = queue \/ queue' = <<>>)
  BY DEF AggregateBegin, GatherCall, GatherBegin, GatherUnreachable, Gathering, AggregateReturn, ReturnResult,
         GatherStep, CheckExists, CheckedAll, CleanUp, Pull, GetChunk, GatherReturn, GatherRaises
<1>5. Heard'
  BY <1>4 DEF BarrierInv, Heard, Sent
<1>6. ASSUME keyList' = keyList PROVE Contributions'
  BY <1>4, <1>6 DEF BarrierInv, Contributions
<1>7. CASE AggregateBegin
  <2>1. GatherBegin(C)
    BY <1>7 DEF AggregateBegin, GatherCall, GatherUnreachable
  <2>2. /\ keyList' = keyList /\ coordinator' = "gather" /\ result' = result /\ result # "ok"
        /\ reader'[C] = "exists" /\ listed'[C] = Keys /\ missing'[C] = {}
    BY <1>1, <1>2, <1>3, <1>7, <2>1 DEF AggregateBegin, GatherBegin, ReaderTypes, SetTypes, ControlTypes
  <2>3. Phases' /\ Gatherings'
    BY <1>3, <1>4, <2>2 DEF Phases, Gatherings
  <2> QED BY <1>1, <1>5, <1>6, <2>2, <2>3 DEF BarrierInv
<1>8. CASE Gathering
  <2>1. coordinator = "gather" /\ coordinator' = "gather" /\ result' = result /\ result # "ok"
    BY <1>1, <1>2, <1>8 DEF Gathering, BarrierInv, Phases, ControlTypes
  <2>2. Phases'
    BY <1>3, <1>4, <2>1 DEF Phases
  <2>3. CASE CheckExists(C)
    <3>1. /\ UNCHANGED <<keyList, listed, reader>> /\ reader[C] = "exists" /\ missing'[C] = missing[C]
      BY <1>1, <1>3, <2>3 DEF CheckExists, SetTypes
    <3>2. Gatherings'
      BY <2>1, <3>1 DEF BarrierInv, Gatherings
    <3> QED BY <1>1, <1>5, <1>6, <2>2, <3>1, <3>2 DEF BarrierInv
  <2>4. CASE CheckedAll(C)
    <3>1. /\ UNCHANGED <<keyList, listed, missing>> /\ reader[C] = "exists" /\ reader'[C] = "srem"
      BY <1>1, <2>4 DEF CheckedAll, ReaderTypes
    <3>2. Gatherings'
      BY <2>1, <3>1 DEF BarrierInv, Gatherings
    <3> QED BY <1>1, <1>5, <1>6, <2>2, <3>1, <3>2 DEF BarrierInv
  <2>5. CASE CleanUp(C)
    <3>1. missing[C] = {} /\ listed[C] = Keys
      BY <2>1, <2>5 DEF CleanUp, BarrierInv, Gatherings
    <3>2. keyList' = keyList /\ reader'[C] = "pull" /\ todo'[C] = Keys
      BY <1>1, <2>5, <3>1 DEF CleanUp, ReaderTypes, SetTypes
    <3>3. Gatherings'
      BY <2>1, <3>2 DEF Gatherings
    <3> QED BY <1>1, <1>5, <1>6, <2>2, <3>2, <3>3 DEF BarrierInv
  <2>6. CASE Pull(C)
    <3>1. /\ UNCHANGED <<keyList, gathered, todo>> /\ reader[C] = "pull" /\ reader'[C] = "read"
      BY <1>1, <1>3, <2>6 DEF Pull, Unfound, ReaderTypes, SetTypes
    <3>2. Gatherings'
      BY <1>4, <2>1, <3>1 DEF BarrierInv, Gatherings
    <3> QED BY <1>1, <1>5, <1>6, <2>2, <3>1, <3>2 DEF BarrierInv
  <2>7. CASE GetChunk(C)
    <3>1. PICK k \in Keys : /\ gathered' = [gathered EXCEPT ![C][k] = chunks[k]]
                            /\ reader' = [reader EXCEPT ![C] = "pull"]
                            /\ todo' = [todo EXCEPT ![C] = todo[C] \ {k}]
      BY <1>1, <1>3, <2>7 DEF GetChunk, Unfound, SetTypes
    <3>2. keyList' = keyList /\ reader[C] = "read" /\ reader'[C] = "pull" /\ todo'[C] = todo[C] \ {k}
      BY <1>1, <1>3, <2>7, <3>1 DEF GetChunk, Unfound, ReaderTypes, SetTypes
    <3>3. \A j \in Keys : gathered'[C][j] = IF j = k THEN chunks[k] ELSE gathered[C][j]
      BY <1>1, <3>1 DEF ReaderTypes
    <3>4. \A j \in Keys \ todo'[C] : gathered'[C][j] = maps[j]
      BY <1>3, <2>1, <3>2, <3>3 DEF BarrierInv, Gatherings
    <3>5. Gatherings'
      BY <1>4, <2>1, <3>2, <3>4 DEF Gatherings
    <3> QED BY <1>1, <1>5, <1>6, <2>2, <3>2, <3>5 DEF BarrierInv
  <2>8. CASE GatherReturn(C)
    <3>1. /\ UNCHANGED <<keyList, gathered>> /\ reader[C] = "pull" /\ todo[C] = {} /\ reader'[C] = "idle"
      BY <1>1, <2>8 DEF GatherReturn, ReaderTypes
    <3>2. AllGathered
      BY <2>1, <3>1 DEF BarrierInv, Gatherings, AllGathered
    <3>3. Gatherings'
      BY <1>4, <2>1, <3>1, <3>2 DEF Gatherings, AllGathered
    <3> QED BY <1>1, <1>5, <1>6, <2>2, <3>1, <3>3 DEF BarrierInv
  <2>9. CASE GatherRaises(C)
    <3>1. keyList' = keyList /\ reader'[C] = "idle" /\ gatherStatus'[C] = "failed"
      BY <1>1, <2>9 DEF GatherRaises, ReaderTypes
    <3>2. Gatherings'
      BY <2>1, <3>1 DEF Gatherings
    <3> QED BY <1>1, <1>5, <1>6, <2>2, <3>1, <3>2 DEF BarrierInv
  <2> QED BY <1>8, <2>3, <2>4, <2>5, <2>6, <2>7, <2>8, <2>9 DEF Gathering, GatherStep
<1>9. CASE AggregateReturn
  <2>1. /\ UNCHANGED <<keyList, reader, gathered, gatherStatus>> /\ coordinator = "gather" /\ reader[C] = "idle"
        /\ coordinator' = "over" /\ (result' = "ok" => gatherStatus[C] = "ok")
    BY <1>9 DEF AggregateReturn, ReturnResult, readerVars
  <2>2. result' = "ok" => AllGathered
    BY <2>1 DEF BarrierInv, Gatherings
  <2>3. Phases' /\ Gatherings'
    BY <1>3, <1>4, <2>1, <2>2 DEF Phases, Gatherings, AllGathered
  <2> QED BY <1>1, <1>5, <1>6, <2>1, <2>3 DEF BarrierInv
<1> QED BY <1>7, <1>8, <1>9

LEMMA BarrierStutter == ASSUME BarrierInv, UNCHANGED vars PROVE BarrierInv'
<1>1. BarrierTypeOK'
  BY BarrierStutterTypes DEF BarrierInv
<1> QED BY <1>1 DEF BarrierInv, vars, coordVars, mapperVars, storeVars, writerVars, readerVars, Contributions,
                    Heard, Sent, Phases, Gatherings, AllGathered

LEMMA NextKeepsBarrier == "unreachable" \notin Faults => (BarrierInv /\ [Next]_vars => BarrierInv')
BY ContributeKeeps, MappingKeeps, SendReadyKeeps, WaitingKeeps, GatheringKeeps, BarrierStutter
DEF Next, CoordinatorStep

LEMMA BarrierHolds == "unreachable" \notin Faults => (Spec => []BarrierInv)
<1> SUFFICES ASSUME "unreachable" \notin Faults PROVE Spec => []BarrierInv
  OBVIOUS
<1>1. BarrierInv /\ [Next]_vars => BarrierInv'
  BY NextKeepsBarrier
<1> QED BY <1>1, InitBarrier, PTL DEF Spec

\* A skill that answers ok has folded what every worker stored (sum.py and
\* median.py, coordinate), if Redis is never unreachable.
THEOREM FoldIsComplete == "unreachable" \notin Faults => (Spec => []CompleteFold)
<1>1. BarrierInv => CompleteFold
  BY BarrierInvGives
<1> QED BY <1>1, BarrierHolds, PTL

\* The coordinator gathers only after every worker's Map has returned, so the
\* lazy cleanup never meets one.
THEOREM GatheringIsAlone == "unreachable" \notin Faults => (Spec => []GathersAlone)
<1>1. BarrierInv => GathersAlone
  BY BarrierInvGives
<1> QED BY <1>1, BarrierHolds, PTL

-----------------------------------------------------------------------------
(****************************************************************************)
(* sum and median are the barrier, median clears what it leaves, and a name  *)
(* that create_scarlet answers was written for it (Skills).                  *)
(*                                                                           *)
(* Until the clearing begins, sum and median are in a state of the barrier;  *)
(* then everybody but the coordinator is through, and its reader too, so     *)
(* that nothing meets the deletions.                                         *)
(****************************************************************************)

\* The clearing has begun: the barrier is over, and all was gathered.
WhileClearing ==
    /\ skill = "median"
    /\ coordinator \in {"gather", "over"}
    /\ reader[Coordinator] = "idle" /\ gatherStatus[Coordinator] = "ok"
    /\ \A w \in Workers : contributor[w] = "over" /\ writer[w] = "idle" /\ maps[w] > 0
    /\ AllGathered
    /\ LeavesNothing

\* create_scarlet and combine leave the store alone.
Storeless ==
    /\ \A w \in Workers : contributor[w] # "map" /\ writer[w] = "idle"
    /\ reader[Coordinator] = "idle"
    /\ coordinator # "gather" /\ result # "ok"

\* One name is chosen, and nobody else's definition becomes the coordinator's.
Minting ==
    /\ minting # "off" => skill = "create_scarlet" /\ \E n \in Names : answer = <<n>>
    /\ minting = "off" => \A n \in Names : definitions[n] # "coordinator"
    /\ minting = "chosen" =>
          coordinator = "aggregate" /\ \A n \in Names : definitions[n] # "coordinator"
    /\ minting \in {"registered", "lost"} =>
          /\ result = "minted"
          /\ \A n \in Names : definitions[n] = "coordinator" => answer = <<n>>
    /\ minting = "registered" => definitions[answer[1]] = "coordinator"

SkillsInv ==
    /\ SkillsTypeOK
    /\ Aggregating /\ clear = "off" => BarrierInv
    /\ clear # "off" => WhileClearing
    /\ ~Aggregating => Storeless
    /\ Minting

OwnTypes ==
    /\ clear \in {"off", "list", "keys", "swept", "left"}
    /\ clearing \subseteq Keys
    /\ clear # "off" => skill = "median"
    /\ minting \in {"off", "chosen", "registered", "lost"}
    /\ definitions \in [Names -> {"nobody", "other", "coordinator"}]

\* ControlTypes, with what create_scarlet returns.
ResultTypes ==
    /\ contributor \in [Workers -> {"idle", "map", "over", "raised"}]
    /\ coordinator \in {"off", "wait", "aggregate", "gather", "over"}
    /\ result \in {"none", "ok", "cancelled", "map_failed", "missing", "aggregate_failed",
                   "minted", "mint_failed"}
    /\ coordinator = "over" <=> result # "none"

LEMMA SkillsTypeParts == SkillsTypeOK <=> MapperTypeOK /\ ResultTypes /\ OwnTypes
BY DEF SkillsTypeOK, ResultTypes, OwnTypes

LEMMA SkillsTypePartsNext == SkillsTypeOK' <=> MapperTypeOK' /\ ResultTypes' /\ OwnTypes'
BY DEF SkillsTypeOK, ResultTypes, OwnTypes

LEMMA SkillsStart == SkillsInit => SkillsInv
<1> SUFFICES ASSUME SkillsInit PROVE SkillsInv
  OBVIOUS
<1>1. Init /\ clear = "off" /\ clearing = {} /\ minting = "off"
  BY DEF SkillsInit
<1>2. BarrierInv
  BY <1>1, InitBarrier
<1>3. definitions \in [Names -> {"nobody", "other"}]
  BY DEF SkillsInit
<1>4. MapperTypeOK /\ ControlTypes
  BY <1>2, BarrierTypeParts DEF BarrierInv
<1>5. OwnTypes /\ Minting
  BY <1>1, <1>3 DEF OwnTypes, Minting
<1>6. ResultTypes
  BY <1>4 DEF ControlTypes, ResultTypes
<1>7. Storeless
  BY <1>1, CoordinatorReads DEF Init, MapperInit, Storeless, Workers
<1> QED
  BY <1>1, <1>2, <1>4, <1>5, <1>6, <1>7, SkillsTypeParts DEF SkillsInv

\* The steps of the barrier, as long as it lasts.
LEMMA BarrierStepKeeps ==
    ASSUME SkillsInv, "unreachable" \notin Faults, Aggregating, clear = "off", [Next]_vars,
           UNCHANGED <<skill, clear, clearing, minting, definitions>>
    PROVE  SkillsInv'
<1>1. BarrierInv'
  BY NextKeepsBarrier DEF SkillsInv
<1>2. MapperTypeOK' /\ ControlTypes'
  BY <1>1, BarrierTypePartsNext DEF BarrierInv
<1>3. minting = "off" /\ OwnTypes
  BY SkillsTypeParts DEF SkillsInv, Minting, OwnTypes, Aggregating
<1>4. OwnTypes' /\ Minting'
  BY <1>3 DEF SkillsInv, OwnTypes, Minting
<1>5. ResultTypes'
  BY <1>2 DEF ControlTypes, ResultTypes
<1>6. Aggregating' /\ clear' = "off"
  BY DEF Aggregating
<1> QED
  BY <1>1, <1>2, <1>4, <1>5, <1>6, SkillsTypePartsNext DEF SkillsInv

\* The clearing begins when all is gathered, and everybody is through.
LEMMA ClearBeginKeeps ==
    ASSUME SkillsInv, ClearBegin
    PROVE  /\ SkillsInv'
           /\ Aggregating /\ keyList = Keys /\ \A k \in Keys : chunks[k] = maps[k]
<1> USE DEF writerVars, readerVars, coordVars, storeVars, requestVars
<1>1. /\ skill = "median" /\ clear = "off" /\ coordinator = "gather"
      /\ reader[Coordinator] = "idle" /\ gatherStatus[Coordinator] = "ok"
      /\ clear' = "list" /\ clearing' = {}
      /\ UNCHANGED <<keyList, chunks, writer, maps, status, reader, todo, listed, missing, gathered,
                     gatherStatus, undisturbed, contributor, coordinator, result, skill, minting, definitions>>
  BY DEF ClearBegin, GatherOver, ClearTo
<1>2. BarrierInv /\ Aggregating
  BY <1>1 DEF SkillsInv, Aggregating
<1>3. keyList = Keys /\ \A k \in Keys : Sent(k) /\ chunks[k] = maps[k] /\ chunks[k] # Absent
  BY <1>1, <1>2, AllStored
<1>4. \A w \in Workers : contributor[w] = "over" /\ writer[w] = "idle" /\ maps[w] > 0
  BY <1>2, <1>3 DEF BarrierInv, Contributions, Sent, Workers
<1>5. AllGathered
  BY <1>1, <1>2 DEF BarrierInv, Gatherings
<1>6. WhileClearing'
  BY <1>1, <1>4, <1>5 DEF WhileClearing, AllGathered, LeavesNothing
<1>7. MapperTypeOK' /\ ResultTypes' /\ OwnTypes'
  <2>1. MapperTypeOK'
    BY <1>1, <1>2, MapperStutterTypes, BarrierTypeParts DEF BarrierInv, mapperVars
  <2>2. ResultTypes' /\ OwnTypes'
    BY <1>1, SkillsTypeParts DEF SkillsInv, ResultTypes, OwnTypes
  <2> QED
    BY <2>1, <2>2
<1>8. Minting'
  BY <1>1 DEF SkillsInv, Minting
<1>9. Aggregating' /\ clear' # "off"
  BY <1>1 DEF Aggregating
<1> QED
  BY <1>2, <1>3, <1>6, <1>7, <1>8, <1>9, SkillsTypePartsNext DEF SkillsInv

\* Once it has begun only the coordinator acts, and the head may cancel.
LEMMA ClearingActs ==
    ASSUME SkillsInv, clear # "off", [SkillsNext]_skillVars
    PROVE  \/ ClearList \/ ClearKey \/ Sweep \/ MedianReturn
           \/ Cancel /\ UNCHANGED <<requestVars, local, ownVars>>
           \/ UNCHANGED skillVars
<1>1. /\ skill = "median" /\ coordinator \in {"gather", "over"}
      /\ reader[Coordinator] = "idle" /\ gatherStatus[Coordinator] = "ok"
      /\ \A w \in Workers : contributor[w] = "over" /\ writer[w] = "idle"
  BY DEF SkillsInv, WhileClearing
<1>2. ASSUME NEW w \in Workers
      PROVE  ~SkillContribute(w) /\ ~ContributeReady(w) /\ ~ContributeRaises(w) /\ ~Mapping(w) /\ ~SendReady(w)
  BY <1>1 DEF SkillContribute, Contribute, ContributeReady, ContributeRaises, Mapping, MapStep, MapAdd, MapPush,
              PushUnreachable, MapRaises, SendReady
<1>3. ~Gathering /\ ~AggregateBegin
  BY <1>1 DEF Gathering, GatherStep, CheckExists, CheckedAll, CleanUp, Pull, GetChunk, GatherReturn, GatherRaises,
              AggregateBegin
<1>4. ~CoordinateBegin /\ ~DeadlinePasses /\ ~ReceiveReady /\ ~SeeCancelled /\ ~StopWaiting
  BY <1>1 DEF CoordinateBegin, DeadlinePasses, ReceiveReady, SeeCancelled, StopWaiting
<1>5. ~SumReturn /\ ~MedianFails /\ ~ClearBegin /\ ~MintFails /\ ~MintChat /\ ~Combine
  BY <1>1 DEF SumReturn, MedianFails, ClearBegin, MintFails, MintChat, Combine, ReadyToMint
<1>6. ~MintRegister
  BY <1>1 DEF MintRegister, SkillsInv, Minting
<1>7. BarrierStep => Cancel /\ UNCHANGED <<requestVars, local, ownVars>>
  BY <1>2, <1>3, <1>4 DEF BarrierStep
<1> QED
  BY <1>2, <1>5, <1>6, <1>7 DEF SkillsNext

LEMMA ClearingKeeps ==
    ASSUME SkillsInv, clear # "off", [SkillsNext]_skillVars
    PROVE  SkillsInv'
<1> USE DEF writerVars, readerVars, coordVars, storeVars, requestVars, ownVars, mapperVars
<1>1. WhileClearing /\ OwnTypes /\ ResultTypes /\ MapperTypeOK /\ Minting
  BY SkillsTypeParts DEF SkillsInv
<1>2. StoreTypes /\ Absent \in 0 .. MaxMaps
  BY <1>1, MapperTypeParts, ConstantsAssumption DEF Absent
<1>3. UNCHANGED <<writer, maps, status, reader, todo, listed, missing, gathered, gatherStatus, undisturbed,
                  contributor, skill, minting, definitions>>
  BY ClearingActs DEF ClearList, ClearKey, Sweep, ClearTo, MedianReturn, Cancel, skillVars, vars
<1>4. /\ clear' \in {"off", "list", "keys", "swept", "left"} /\ clearing' \subseteq Keys /\ clear' # "off"
      /\ clear' = "swept" => keyList' = {} /\ \A k \in Keys : chunks'[k] = Absent
      /\ StoreTypes'
  <2>1. CASE ClearList
    BY <1>1, <1>2, <1>3, <2>1 DEF ClearList, ClearTo, StoreTypes, OwnTypes
  <2>2. CASE ClearKey
    <3>1. PICK k \in clearing : KeyCleared(k) /\ ClearTo("keys", clearing \ {k})
      BY <2>2 DEF ClearKey
    <3>2. keyList' \subseteq keyList /\ (chunks' = chunks \/ chunks' = [chunks EXCEPT ![k] = Absent])
      BY <3>1 DEF KeyCleared
    <3>3. StoreTypes'
      BY <1>2, <1>3, <3>2 DEF StoreTypes
    <3> QED
      BY <1>1, <3>1, <3>3 DEF ClearTo, OwnTypes
  <2>3. CASE Sweep
    <3>1. CASE AllCleared /\ ClearTo("swept", {})
      <4>1. StoreTypes'
        BY <1>2, <1>3, <3>1 DEF AllCleared, StoreTypes
      <4> QED
        BY <3>1, <4>1 DEF AllCleared, ClearTo
    <3>2. CASE PartlyCleared /\ ClearTo("left", {})
      <4>1. StoreTypes'
        BY <1>2, <1>3, <3>2 DEF PartlyCleared, StoreTypes
      <4> QED
        BY <3>2, <4>1 DEF ClearTo
    <3> QED
      BY <2>3, <3>1, <3>2 DEF Sweep
  <2>4. CASE UNCHANGED <<keyList, chunks, clear, clearing>>
    BY <1>1, <1>2, <1>3, <2>4 DEF StoreTypes, OwnTypes, WhileClearing, LeavesNothing
  <2> QED
    BY <2>1, <2>2, <2>3, <2>4, ClearingActs DEF MedianReturn, Cancel, skillVars, vars
<1>5. /\ coordinator' \in {"gather", "over"} /\ ResultTypes'
  BY <1>1, <1>3, ClearingActs DEF ClearList, ClearKey, Sweep, ClearTo, MedianReturn, ReturnResult, Cancel, skillVars,
                                  vars, ResultTypes, WhileClearing
<1>6. MapperTypeOK'
  BY <1>1, <1>3, <1>4, MapperTypeParts, MapperTypePartsNext DEF WriterTypes, ReaderTypes, SetTypes
<1>7. OwnTypes' /\ WhileClearing' /\ Minting' /\ Aggregating'
  <2>1. skill = "median" /\ minting = "off"
    BY <1>1 DEF WhileClearing, OwnTypes, Minting
  <2>2. OwnTypes'
    BY <1>1, <1>3, <1>4, <2>1 DEF OwnTypes
  <2>3. Minting' /\ Aggregating'
    BY <1>1, <1>3, <2>1 DEF Minting, Aggregating
  <2>4. WhileClearing'
    BY <1>1, <1>3, <1>4, <1>5 DEF WhileClearing, AllGathered, LeavesNothing
  <2> QED
    BY <2>2, <2>3, <2>4
<1> QED
  BY <1>4, <1>5, <1>6, <1>7, SkillsTypePartsNext DEF SkillsInv
\* A step of create_scarlet or combine that leaves the definitions alone.
LEMMA StorelessStep ==
    ASSUME SkillsInv, ~Aggregating, UNCHANGED <<mapperVars, skill, clear, clearing, minting, definitions>>,
           minting \in {"registered", "lost"} => result' = result,
           minting = "chosen" => coordinator' = coordinator,
           minting # "off" => answer' = answer,
           \A w \in Workers : contributor'[w] # "map",
           coordinator' # "gather", result' # "ok", ResultTypes'
    PROVE  SkillsInv'
<1> USE DEF mapperVars, storeVars, writerVars, readerVars
<1>1. MapperTypeOK /\ OwnTypes /\ Storeless /\ Minting /\ clear = "off"
  BY SkillsTypeParts DEF SkillsInv, OwnTypes, Aggregating
<1>2. MapperTypeOK'
  BY <1>1, MapperStutterTypes
<1>3. OwnTypes' /\ clear' = "off" /\ ~Aggregating'
  BY <1>1 DEF OwnTypes, Aggregating
<1>4. Storeless'
  BY <1>1 DEF Storeless
<1>5. Minting'
  BY <1>1 DEF Minting
<1> QED
  BY <1>2, <1>3, <1>4, <1>5, SkillsTypePartsNext DEF SkillsInv

\* contribute and the loop of coordinate, without a Map.
LEMMA StorelessBarrier ==
    ASSUME SkillsInv, ~Aggregating,
           BarrierStep \/ \E w \in Workers : SkillContribute(w) \/ ContributeReady(w)
    PROVE  SkillsInv'
<1> USE DEF coordVars, requestVars, ownVars
<1>1. Storeless /\ ResultTypes /\ Minting
  BY SkillsTypeParts DEF SkillsInv
<1>2. ASSUME NEW w \in Workers
      PROVE  ~SkillContribute(w) /\ ~Mapping(w) /\ ~SendReady(w)
  BY <1>1 DEF SkillContribute, Mapping, MapStep, MapAdd, MapPush, PushUnreachable, MapRaises, SendReady, Storeless
<1>3. ~Gathering
  BY <1>1 DEF Gathering, GatherStep, CheckExists, CheckedAll, CleanUp, Pull, GetChunk, GatherReturn, GatherRaises,
              Storeless
<1>4. ASSUME NEW w \in Workers, ContributeReady(w)
      PROVE  SkillsInv'
  <2>1. /\ UNCHANGED <<mapperVars, skill, clear, clearing, minting, definitions, answer, coordinator, result>>
        /\ contributor' = [contributor EXCEPT ![w] = "over"]
    BY <1>4 DEF ContributeReady
  <2>2. ResultTypes' /\ \A v \in Workers : contributor'[v] # "map"
    BY <1>1, <2>1 DEF ResultTypes, Storeless
  <2> QED
    BY <1>1, <2>1, <2>2, StorelessStep DEF Storeless
<1>5. CASE BarrierStep
  <2>1. /\ CoordinateBegin \/ DeadlinePasses \/ ReceiveReady \/ SeeCancelled \/ StopWaiting \/ Cancel
        /\ UNCHANGED <<requestVars, local, ownVars>>
    BY <1>2, <1>3, <1>5 DEF BarrierStep
  <2>2. UNCHANGED <<mapperVars, contributor>>
    BY <2>1 DEF CoordinateBegin, DeadlinePasses, ReceiveReady, SeeCancelled, StopWaiting, Cancel
  <2>3. ResultTypes'
    BY <1>1, <2>1, <2>2 DEF CoordinateBegin, DeadlinePasses, ReceiveReady, Receive, SeeCancelled, StopWaiting, Cancel,
                            ReturnResult, ResultTypes
  <2>4. /\ coordinator' # "gather" /\ result' # "ok"
        /\ minting \in {"registered", "lost"} => result' = result
        /\ minting = "chosen" => coordinator' = coordinator
    BY <1>1, <2>1 DEF CoordinateBegin, DeadlinePasses, ReceiveReady, Receive, SeeCancelled, StopWaiting, Cancel,
                      ReturnResult, ResultTypes, Storeless, Minting
  <2>5. \A w \in Workers : contributor'[w] # "map"
    BY <1>1, <2>2 DEF Storeless
  <2> QED
    BY <2>1, <2>2, <2>3, <2>4, <2>5, StorelessStep
<1> QED
  BY <1>2, <1>4, <1>5

\* The LLM's call, and the one write of a definition.
LEMMA MintingKeeps ==
    ASSUME SkillsInv, MintFails \/ MintChat \/ MintRegister \/ Combine
    PROVE  SkillsInv' /\ ~Aggregating
<1> USE DEF coordVars, requestVars, ownVars, vars
<1>1. ResultTypes /\ OwnTypes /\ Minting
  BY SkillsTypeParts DEF SkillsInv
<1>2. ~Aggregating
  BY <1>1 DEF MintFails, MintChat, MintRegister, Combine, ReadyToMint, Aggregating, Minting
<1>3. Storeless /\ clear = "off"
  BY <1>1, <1>2 DEF SkillsInv, OwnTypes, Aggregating
<1>4. CASE MintFails
  <2>1. /\ UNCHANGED <<mapperVars, contributor, skill, clear, clearing, minting, definitions, answer>>
        /\ coordinator' = "over" /\ result' = "mint_failed" /\ minting = "off"
    BY <1>4 DEF MintFails, ReadyToMint, ReturnResult
  <2>2. ResultTypes' /\ \A w \in Workers : contributor'[w] # "map"
    BY <1>1, <1>3, <2>1 DEF ResultTypes, Storeless
  <2> QED
    BY <1>2, <2>1, <2>2, StorelessStep
<1>5. CASE Combine
  <2>1. /\ UNCHANGED <<mapperVars, contributor, coordinator, result, skill, clear, clearing, minting, definitions>>
        /\ minting = "off"
    BY <1>1, <1>5 DEF Combine, Minting
  <2>2. ResultTypes' /\ \A w \in Workers : contributor'[w] # "map"
    BY <1>1, <1>3, <2>1 DEF ResultTypes, Storeless
  <2> QED
    BY <1>2, <1>3, <2>1, <2>2, StorelessStep DEF Storeless
<1>6. CASE MintChat \/ MintRegister
  <2>1. /\ UNCHANGED <<mapperVars, contributor, skill, clear, clearing>>
        /\ coordinator' # "gather" /\ result' # "ok"
    BY <1>3, <1>6 DEF MintChat, MintRegister, ReturnResult, Storeless
  <2>2. ResultTypes'
    BY <1>1, <1>6, <2>1 DEF MintChat, MintRegister, ReturnResult, ResultTypes
  <2>3. Storeless'
    BY <1>3, <2>1 DEF Storeless, mapperVars, writerVars, readerVars
  <2>4. MapperTypeOK'
    BY <2>1, SkillsTypeParts, MapperStutterTypes DEF SkillsInv
  <2>5. OwnTypes' /\ Minting'
    <3>1. CASE MintChat
      <4>1. PICK n \in Names : answer' = <<n>>
        BY <3>1 DEF MintChat
      <4>2. /\ minting = "off" /\ minting' = "chosen" /\ skill = "create_scarlet" /\ coordinator = "aggregate"
            /\ UNCHANGED <<definitions, coordinator>>
        BY <3>1 DEF MintChat, ReadyToMint
      <4>3. OwnTypes'
        BY <1>1, <2>1, <4>2 DEF OwnTypes
      <4>4. Minting'
        BY <1>1, <2>1, <4>1, <4>2 DEF Minting
      <4> QED
        BY <4>3, <4>4
    <3>2. CASE MintRegister
      <4>1. PICK n \in Names : answer = <<n>>
        BY <1>1, <3>2 DEF MintRegister, Minting
      <4>2. answer[1] = n /\ \A k \in Names : answer = <<k>> => k = n
        BY <4>1
      <4>3. /\ minting = "chosen" /\ skill = "create_scarlet" /\ result' = "minted" /\ answer' = answer
            /\ \/ minting' = "registered" /\ definitions' = [definitions EXCEPT ![n] = "coordinator"]
               \/ minting' = "lost" /\ definitions' = definitions
        BY <1>1, <3>2, <4>2 DEF MintRegister, ReturnResult, Minting
      <4>4. OwnTypes'
        BY <1>1, <2>1, <4>3 DEF OwnTypes
      <4>5. \A k \in Names : definitions'[k] = "coordinator" => k = n
        BY <1>1, <4>3 DEF OwnTypes, Minting
      <4>6. minting' = "registered" => definitions'[n] = "coordinator"
        BY <1>1, <4>3 DEF OwnTypes
      <4>7. Minting'
        BY <2>1, <4>1, <4>2, <4>3, <4>5, <4>6 DEF Minting
      <4> QED
        BY <4>4, <4>7
    <3> QED
      BY <1>6, <3>1, <3>2
  <2>6. ~Aggregating' /\ clear' = "off"
    BY <1>2, <1>3, <2>1 DEF Aggregating
  <2> QED
    BY <1>2, <2>2, <2>3, <2>4, <2>5, <2>6, SkillsTypePartsNext DEF SkillsInv
<1> QED
  BY <1>2, <1>4, <1>5, <1>6

\* What the steps of sum and median are to the barrier, before the clearing.
LEMMA BarrierActs ==
    ASSUME SkillsInv, Aggregating, clear = "off", SkillsNext, ~ClearBegin
    PROVE  Next /\ UNCHANGED <<skill, params, clear, clearing, minting, definitions>>
<1> USE DEF requestVars, ownVars
<1>1. ~MintFails /\ ~MintChat /\ ~MintRegister /\ ~Combine
  BY MintingKeeps
<1>2. ~ClearList /\ ~ClearKey /\ ~Sweep /\ ~MedianReturn
  BY DEF ClearList, ClearKey, Sweep, MedianReturn
<1>3. ASSUME NEW w \in Workers PROVE ~ContributeReady(w)
  BY DEF ContributeReady, Aggregating
<1>4. ASSUME NEW w \in Workers, SkillContribute(w)
      PROVE  Next /\ UNCHANGED <<skill, params, clear, clearing, minting, definitions>>
  BY <1>4 DEF SkillContribute, Next
<1>5. CASE BarrierStep
  BY <1>5 DEF BarrierStep, Next, CoordinatorStep
<1>6. CASE SumReturn
  BY <1>6 DEF SumReturn, Next, CoordinatorStep
<1>7. CASE MedianFails
  <2>1. AggregateReturn
    BY <1>7 DEF MedianFails, GatherOver, AggregateReturn
  <2> QED
    BY <1>7, <2>1 DEF MedianFails, Next, CoordinatorStep
<1> QED
  BY <1>1, <1>2, <1>3, <1>4, <1>5, <1>6, <1>7 DEF SkillsNext

LEMMA SkillsStep ==
    ASSUME SkillsInv, "unreachable" \notin Faults, [SkillsNext]_skillVars
    PROVE  SkillsInv'
<1>1. CASE clear # "off"
  BY <1>1, ClearingKeeps
<1>2. CASE clear = "off" /\ Aggregating
  <2>1. CASE ClearBegin
    BY <2>1, ClearBeginKeeps
  <2>2. CASE SkillsNext /\ ~ClearBegin
    BY <1>2, <2>2, BarrierActs, BarrierStepKeeps
  <2>3. CASE UNCHANGED skillVars
    BY <1>2, <2>3, BarrierStepKeeps DEF skillVars, requestVars, ownVars
  <2> QED
    BY <2>1, <2>2, <2>3
<1>3. CASE clear = "off" /\ ~Aggregating
  <2>1. ~SumReturn /\ ~MedianFails /\ ~ClearBegin /\ ~ClearList /\ ~ClearKey /\ ~Sweep /\ ~MedianReturn
    BY <1>3 DEF SumReturn, MedianFails, GatherOver, ClearBegin, ClearList, ClearKey, Sweep, MedianReturn, Aggregating
  <2>2. CASE UNCHANGED skillVars
    <3>1. UNCHANGED <<mapperVars, contributor, coordinator, result, skill, clear, clearing, minting, definitions,
                      answer>>
      BY <2>2 DEF skillVars, vars, coordVars, requestVars, ownVars
    <3>2. Storeless /\ ResultTypes
      BY <1>3, SkillsTypeParts DEF SkillsInv
    <3>3. ResultTypes' /\ coordinator' # "gather" /\ result' # "ok" /\ \A w \in Workers : contributor'[w] # "map"
      BY <3>1, <3>2 DEF ResultTypes, Storeless
    <3> QED
      BY <1>3, <3>1, <3>3, StorelessStep
  <2> QED
    BY <1>3, <2>1, <2>2, StorelessBarrier, MintingKeeps DEF SkillsNext
<1> QED
  BY <1>1, <1>2, <1>3

LEMMA SkillsHold == "unreachable" \notin Faults => (SkillsSpec => []SkillsInv)
<1> SUFFICES ASSUME "unreachable" \notin Faults PROVE SkillsSpec => []SkillsInv
  OBVIOUS
<1>1. SkillsInv /\ [SkillsNext]_skillVars => SkillsInv'
  BY SkillsStep
<1> QED BY <1>1, SkillsStart, PTL DEF SkillsSpec

\* sum and median fold the value of every worker before they answer ok, and so
\* does every skill that says so (sum.py, median.py and create_scarlet.py).
THEOREM SkillsFoldCompletely == "unreachable" \notin Faults => (SkillsSpec => []CompleteFold)
<1>1. SkillsInv => CompleteFold
  <2> SUFFICES ASSUME SkillsInv PROVE CompleteFold
    OBVIOUS
  <2>1. CASE Aggregating /\ clear = "off"
    BY <2>1, BarrierInvGives DEF SkillsInv
  <2>2. CASE clear # "off"
    BY <2>2 DEF SkillsInv, WhileClearing, AllGathered, CompleteFold, Workers
  <2>3. CASE ~Aggregating
    BY <2>3 DEF SkillsInv, Storeless, CompleteFold
  <2> QED
    BY <2>1, <2>2, <2>3
<1> QED BY <1>1, SkillsHold, PTL

\* After a clearAll that got through its last sweep no value and no key of a
\* median is left, and nobody is there to put one back, however many deletions of
\* single keys raised (Mapper.clearAll).
THEOREM MedianLeavesNothing == "unreachable" \notin Faults => (SkillsSpec => []LeavesNothing)
<1>1. SkillsInv => LeavesNothing
  BY DEF SkillsInv, WhileClearing, LeavesNothing
<1> QED BY <1>1, SkillsHold, PTL

\* The name that create_scarlet answers stands for what its coordinator wrote, and
\* nothing is written for another attempt (scarlet_minting.py); and every variable
\* of the skills keeps its type.
THEOREM MintedNamesStand == "unreachable" \notin Faults => (SkillsSpec => [](SkillsTypeOK /\ MintedStands))
<1>1. SkillsInv => SkillsTypeOK /\ MintedStands
  <2> SUFFICES ASSUME SkillsInv PROVE MintedStands
    BY DEF SkillsInv
  <2>1. Minting /\ minting \in {"off", "chosen", "registered", "lost"}
    BY DEF SkillsInv, SkillsTypeOK
  <2>2. \A n \in Names : definitions[n] = "coordinator" => minting \in {"registered", "lost"}
    BY <2>1 DEF Minting
  <2> QED
    BY <2>1, <2>2 DEF Minting, MintedStands
<1> QED BY <1>1, SkillsHold, PTL

-----------------------------------------------------------------------------
(* The refinement of SkillBarrier                                            *)

\* Before the clearing the store is the barrier's.
LEMMA WorkerRefines ==
    ASSUME clear = "off", clear' = "off", NEW w \in Workers,
           Contribute(w) \/ ContributeRaises(w) \/ Mapping(w) \/ SendReady(w)
    PROVE  Barrier!Next
<1> USE DEF coordVars, mapperVars, storeVars, writerVars, readerVars, Barrier!coordVars, Barrier!mapperVars,
            Barrier!storeVars, Barrier!writerVars, Barrier!readerVars, Barrier!Workers, Workers
<1>1. ASSUME Contribute(w) PROVE Barrier!Contribute(w)
  BY <1>1 DEF Contribute, MapCall, MapBegin, RegisterUnreachable, InCleanup,
     Barrier!Contribute, Barrier!MapCall, Barrier!MapBegin, Barrier!RegisterUnreachable, Barrier!InCleanup
<1>2. ASSUME ContributeRaises(w) PROVE Barrier!ContributeRaises(w)
  BY <1>2 DEF ContributeRaises, Barrier!ContributeRaises
<1>3. ASSUME Mapping(w) PROVE Barrier!Mapping(w)
  BY <1>3 DEF Mapping, MapStep, MapAdd, MapPush, PushUnreachable, MapRaises, Return,
     Barrier!Mapping, Barrier!MapStep, Barrier!MapAdd, Barrier!MapPush, Barrier!PushUnreachable, Barrier!MapRaises,
     Barrier!Return
<1>4. ASSUME SendReady(w) PROVE Barrier!SendReady(w)
  BY <1>4 DEF SendReady, Ready, Barrier!SendReady, Barrier!Ready
<1> QED
  BY <1>1, <1>2, <1>3, <1>4 DEF Barrier!Next

LEMMA CoordinatorRefines ==
    ASSUME clear = "off", clear' = "off",
           CoordinateBegin \/ DeadlinePasses \/ CoordinatorStep \/ Cancel
    PROVE  Barrier!Next
<1> USE DEF coordVars, mapperVars, storeVars, writerVars, readerVars, Barrier!coordVars, Barrier!mapperVars,
            Barrier!storeVars, Barrier!writerVars, Barrier!readerVars, Barrier!Workers, Workers,
            ReturnResult, Barrier!ReturnResult, ReaderAt, Barrier!ReaderAt
<1>1. ASSUME CoordinateBegin \/ DeadlinePasses \/ Cancel
      PROVE  Barrier!CoordinateBegin \/ Barrier!DeadlinePasses \/ Barrier!Cancel
  BY <1>1 DEF CoordinateBegin, DeadlinePasses, Cancel, Barrier!CoordinateBegin, Barrier!DeadlinePasses, Barrier!Cancel
<1>2. ASSUME ReceiveReady PROVE Barrier!ReceiveReady
  BY <1>2 DEF ReceiveReady, Receive, Barrier!ReceiveReady, Barrier!Receive
<1>3. ASSUME SeeCancelled \/ StopWaiting PROVE Barrier!SeeCancelled \/ Barrier!StopWaiting
  BY <1>3 DEF SeeCancelled, StopWaiting, Barrier!SeeCancelled, Barrier!StopWaiting
<1>4. ASSUME AggregateBegin PROVE Barrier!AggregateBegin
  <2>1. ASSUME GatherBegin(Coordinator) PROVE Barrier!GatherBegin(Coordinator)
    BY <2>1 DEF GatherBegin, Barrier!GatherBegin, Absent, Barrier!Absent
  <2>2. ASSUME GatherUnreachable(Coordinator) PROVE Barrier!GatherUnreachable(Coordinator)
    BY <2>2 DEF GatherUnreachable, Barrier!GatherUnreachable, Absent, Barrier!Absent
  <2> QED
    BY <1>4, <2>1, <2>2 DEF AggregateBegin, GatherCall, Barrier!AggregateBegin, Barrier!GatherCall
<1>5. ASSUME Gathering PROVE Barrier!Gathering
  <2>1. ASSUME CheckExists(Coordinator) \/ CheckedAll(Coordinator) \/ CleanUp(Coordinator)
        PROVE  Barrier!GatherStep(Coordinator)
    BY <2>1 DEF CheckExists, CheckedAll, CleanUp, Barrier!GatherStep, Barrier!CheckExists, Barrier!CheckedAll,
       Barrier!CleanUp, Absent, Barrier!Absent
  <2>2. ASSUME Pull(Coordinator) \/ GetChunk(Coordinator) PROVE Barrier!GatherStep(Coordinator)
    BY <2>2 DEF Pull, GetChunk, Barrier!GatherStep, Barrier!Pull, Barrier!GetChunk, Unfound,
       Barrier!Unfound, Absent, Barrier!Absent, Fallback, Barrier!Fallback
  <2>3. ASSUME GatherReturn(Coordinator) \/ GatherRaises(Coordinator) PROVE Barrier!GatherStep(Coordinator)
    BY <2>3 DEF GatherReturn, GatherRaises, Barrier!GatherStep, Barrier!GatherReturn, Barrier!GatherRaises
  <2> QED
    BY <1>5, <2>1, <2>2, <2>3 DEF Gathering, GatherStep, Barrier!Gathering
<1>6. ASSUME AggregateReturn PROVE Barrier!AggregateReturn
  BY <1>6 DEF AggregateReturn, Barrier!AggregateReturn
<1> QED
  BY <1>1, <1>2, <1>3, <1>4, <1>5, <1>6 DEF CoordinatorStep, Barrier!Next, Barrier!CoordinatorStep

\* The beginning of the clearing, and its deletions, the barrier does not see;
\* what median returns then is what Aggregate returns.
LEMMA ClearingRefines ==
    ASSUME SkillsInv, "error" \in Faults, [SkillsNext]_skillVars, ClearBegin \/ clear # "off"
    PROVE  Barrier!Next \/ UNCHANGED Barrier!vars
<1> USE DEF coordVars, mapperVars, storeVars, writerVars, readerVars, Barrier!vars, Barrier!coordVars,
            Barrier!mapperVars, Barrier!storeVars, Barrier!writerVars, Barrier!readerVars, Workers
<1>1. CASE ClearBegin
  <2>1. keyList = Keys /\ \A k \in Keys : chunks[k] = maps[k]
    BY <1>1, ClearBeginKeeps
  <2>2. chunks = maps
    BY <2>1, SkillsTypeParts, MapperTypeParts DEF SkillsInv, StoreTypes, WriterTypes
  <2> QED
    BY <1>1, <2>1, <2>2 DEF ClearBegin, ClearTo
<1>2. CASE clear # "off"
  <2>1. clear' # "off"
    BY <1>2, ClearingActs DEF ClearList, ClearKey, Sweep, ClearTo, MedianReturn, Cancel, skillVars, ownVars
  <2>2. CASE ClearList \/ ClearKey \/ Sweep \/ UNCHANGED skillVars
    BY <1>2, <2>1, <2>2 DEF ClearList, ClearKey, Sweep, ClearTo, skillVars, vars
  <2>3. CASE MedianReturn
    <3>1. Barrier!AggregateReturn
      BY <1>2, <2>1, <2>3 DEF MedianReturn, ReturnResult, SkillsInv, WhileClearing, Barrier!AggregateReturn,
         Barrier!ReturnResult
    <3> QED
      BY <3>1 DEF Barrier!Next, Barrier!CoordinatorStep
  <2>4. CASE Cancel
    BY <1>2, <2>1, <2>4 DEF Cancel, Barrier!Cancel, Barrier!Next
  <2> QED
    BY <1>2, <2>2, <2>3, <2>4, ClearingActs
<1> QED
  BY <1>1, <1>2

\* sum and median, with all that surrounds the barrier in them, take its steps and
\* no others: what is proved of it is proved of them.  (That a fold may fail is the
\* barrier's word for a median of no numbers, too, hence "error".)
THEOREM SkillsImplementBarrier ==
  ASSUME "unreachable" \notin Faults, "error" \in Faults
  PROVE  SkillsSpec => ImplementsBarrier
<1>1. SkillsInv /\ [SkillsNext]_skillVars
      => [Aggregating => Barrier!Next \/ UNCHANGED Barrier!vars]_skillVars
  <2> SUFFICES ASSUME SkillsInv, SkillsNext, Aggregating
               PROVE  Barrier!Next \/ UNCHANGED Barrier!vars
    OBVIOUS
  <2>1. CASE ClearBegin \/ clear # "off"
    BY <2>1, ClearingRefines
  <2>2. CASE ~ClearBegin /\ clear = "off"
    <3>1. Next /\ clear' = "off"
      BY <2>2, BarrierActs
    <3> QED
      BY <2>2, <3>1, WorkerRefines, CoordinatorRefines DEF Next
  <2> QED
    BY <2>1, <2>2
<1>2. SkillsSpec => []SkillsInv
  BY SkillsHold
<1> QED
  BY <1>1, <1>2, PTL DEF SkillsSpec, ImplementsBarrier

-----------------------------------------------------------------------------
(****************************************************************************)
(* What the skills compute (Skills.AnswerRight).                             *)
(*                                                                           *)
(* The skills and the reference are recursions: over sets of places and of   *)
(* workers, over what is left of the partitions, over the nodes of a tree.   *)
(* Induction over the natural numbers comes first (every nonempty set of     *)
(* them has a least member), and from it what every one of them rests on:    *)
(* such functions exist, and a sum is the same in whatever order it is taken. *)
(****************************************************************************)

\* Every nonempty set of natural numbers has a least member.
LEMMA LeastNumber ==
  ASSUME NEW T, T \subseteq Nat, T # {}
  PROVE  \E n \in T : \A m \in T : n <= m
<1> DEFINE Less == {x \in Nat \X Nat : x[1] < x[2]}
<1>1. IsWellFoundedOn(Less, Nat)
  <2>1. Less = OpToRel(<, Nat)
    BY Zenon DEF OpToRel
  <2> QED
    BY <2>1, NatLessThanWellFounded
<1>2. PICK n \in T : \A m \in T : ~(<<m, n>> \in Less)
  <2> HIDE DEF Less
  <2> QED
    BY <1>1, WFMin
<1>3. \A m \in T : m \in Nat /\ n \in Nat /\ ~(m < n)
  BY <1>2
<1> QED
  BY <1>3

\* A set that holds 0, and with every number the next, holds all numbers.
LEMMA NumberInduction ==
  ASSUME NEW T, 0 \in T, \A n \in Nat : n \in T => n + 1 \in T
  PROVE  Nat \subseteq T
<1> SUFFICES ASSUME NEW k \in Nat, k \notin T PROVE FALSE
  OBVIOUS
<1> DEFINE U == {n \in Nat : n \notin T}
<1>1. PICK n \in U : \A m \in U : n <= m
  <2>1. U # {} /\ U \subseteq Nat
    OBVIOUS
  <2> HIDE DEF U
  <2> QED
    BY <2>1, LeastNumber
<1>2. n # 0 /\ n - 1 \in Nat /\ n - 1 \in T
  BY <1>1
<1> QED
  BY <1>1, <1>2

\* A set of subsets of a finite set that holds the empty set, and with every
\* subset those with one member more, holds all.
LEMMA SubsetInduction ==
  ASSUME NEW S, IsFiniteSet(S), NEW C, {} \in C,
         \A T \in SUBSET S : \A x \in S \ T : T \in C => T \cup {x} \in C
  PROVE  SUBSET S \subseteq C
<1> DEFINE N == {n \in Nat : \A T \in SUBSET S : Cardinality(T) = n => T \in C}
<1>0. \A T \in SUBSET S : IsFiniteSet(T) /\ Cardinality(T) \in Nat
  BY FS_Subset, FS_CardinalityType
<1>1. 0 \in N
  BY <1>0, FS_EmptySet
<1>2. ASSUME NEW n \in Nat, n \in N PROVE n + 1 \in N
  <2> SUFFICES ASSUME NEW T \in SUBSET S, Cardinality(T) = n + 1 PROVE T \in C
    OBVIOUS
  <2>1. T # {}
    BY <1>0, FS_EmptySet
  <2>2. PICK x \in T : TRUE
    BY <2>1
  <2>3. Cardinality(T \ {x}) = n
    <3>1. IsFiniteSet(T) /\ x \in T
      BY <1>0
    <3>2. Cardinality(T \ {x}) = Cardinality(T) - 1
      BY <3>1, FS_RemoveElement, Zenon
    <3> QED
      BY <3>2
  <2>4. T \ {x} \in C
    BY <1>2, <2>3
  <2>5. T = (T \ {x}) \cup {x} /\ x \in S \ (T \ {x}) /\ T \ {x} \in SUBSET S
    OBVIOUS
  <2> QED
    BY <2>4, <2>5
<1>3. Nat \subseteq N
  <2> HIDE DEF N
  <2> QED
    BY <1>1, <1>2, NumberInduction
<1> QED
  BY <1>0, <1>3

\* A function by recursion along a measure: what it is at p comes from next[p].
Recursive(g, D, measure, next, base, step) ==
    \A p \in D : g[p] = IF measure[p] = 0 THEN base[p] ELSE step[p][g[next[p]]]

\* Such a function exists, if the measure falls from p to next[p].
LEMMA Recursion ==
  ASSUME NEW D, NEW V, NEW measure \in [D -> Nat], NEW next \in [D -> D],
         NEW base \in [D -> V], NEW step \in [D -> [V -> V]],
         \A p \in D : measure[p] # 0 => measure[next[p]] < measure[p]
  PROVE  \E g \in [D -> V] : Recursive(g, D, measure, next, base, step)
<1> DEFINE To(n) == {p \in D : measure[p] <= n}
           Value(p, g) == IF measure[p] = 0 THEN base[p] ELSE step[p][g[next[p]]]
           Partial(n) == {g \in [To(n) -> V] : \A p \in To(n) : g[p] = Value(p, g)}
           N == {n \in Nat : Partial(n) # {}}
<1>1. 0 \in N
  <2>1. [p \in To(0) |-> base[p]] \in Partial(0)
    OBVIOUS
  <2> QED
    BY <2>1
<1>2. ASSUME NEW n \in Nat, n \in N PROVE n + 1 \in N
  <2>1. PICK g \in Partial(n) : TRUE
    BY <1>2
  <2> DEFINE h == [p \in To(n + 1) |-> Value(p, g)]
  <2>2. \A p \in To(n + 1) : measure[p] # 0 => next[p] \in To(n) /\ next[p] \in To(n + 1)
    OBVIOUS
  <2>3. h \in [To(n + 1) -> V]
    BY <2>1, <2>2
  <2>4. \A p \in To(n) : p \in To(n + 1) /\ h[p] = g[p]
    BY <2>1
  <2>5. ASSUME NEW p \in To(n + 1) PROVE h[p] = Value(p, h)
    <3>1. h[p] = Value(p, g)
      BY <2>5
    <3>2. measure[p] # 0 => h[next[p]] = g[next[p]]
      BY <2>2, <2>4, <2>5
    <3> QED
      BY <3>1, <3>2
  <2>6. h \in Partial(n + 1)
    BY <2>3, <2>5
  <2> HIDE DEF h, Partial
  <2> QED
    BY <2>6
<1>3. \A n \in Nat : Partial(n) # {}
  <2>1. Nat \subseteq N
    <3> HIDE DEF N
    <3> QED
      BY <1>1, <1>2, NumberInduction
  <2> QED
    BY <2>1
<1> DEFINE Same == {j \in Nat : \A n, k \in Nat : \A g \in Partial(n), h \in Partial(k) :
                                  \A p \in D : measure[p] <= j /\ j <= n /\ j <= k => g[p] = h[p]}
<1>4. 0 \in Same
  <2> SUFFICES ASSUME NEW n \in Nat, NEW k \in Nat, NEW g \in Partial(n), NEW h \in Partial(k),
                      NEW p \in D, measure[p] <= 0
               PROVE  g[p] = h[p]
    OBVIOUS
  <2>1. p \in To(n) /\ p \in To(k) /\ measure[p] = 0
    OBVIOUS
  <2> QED
    BY <2>1
<1>5. ASSUME NEW j \in Nat, j \in Same PROVE j + 1 \in Same
  <2> SUFFICES ASSUME NEW n \in Nat, NEW k \in Nat, NEW g \in Partial(n), NEW h \in Partial(k),
                      NEW p \in D, measure[p] <= j + 1, j + 1 <= n, j + 1 <= k
               PROVE  g[p] = h[p]
    <3> HIDE DEF Partial
    <3> QED
      OBVIOUS
  <2>1. p \in To(n) /\ p \in To(k)
    <3>1. measure[p] \in Nat /\ measure[p] <= n /\ measure[p] <= k
      OBVIOUS
    <3> QED
      BY <3>1
  <2>2. g[p] = Value(p, g) /\ h[p] = Value(p, h)
    BY <2>1
  <2>3. measure[p] # 0 => g[next[p]] = h[next[p]]
    <3>1. measure[p] # 0 => measure[next[p]] <= j /\ next[p] \in D
      OBVIOUS
    <3>2. j <= n /\ j <= k
      OBVIOUS
    <3> QED
      BY <1>5, <3>1, <3>2, ZenonT(30)
  <2> QED
    BY <2>2, <2>3
<1>6. Nat \subseteq Same
  <2> HIDE DEF Same
  <2> QED
    BY <1>4, <1>5, NumberInduction
<1> DEFINE Choice(n) == CHOOSE g : g \in Partial(n)
           f == [p \in D |-> Choice(measure[p])[p]]
<1>7. \A n \in Nat : Choice(n) \in Partial(n)
  <2> HIDE DEF Partial
  <2> QED
    BY <1>3, Zenon
<1> HIDE DEF Choice
<1>8. \A p \in D : p \in To(measure[p]) /\ Choice(measure[p])[p] \in V
                   /\ Choice(measure[p])[p] = Value(p, Choice(measure[p]))
  <2> SUFFICES ASSUME NEW p \in D
               PROVE  p \in To(measure[p]) /\ Choice(measure[p])[p] \in V
                      /\ Choice(measure[p])[p] = Value(p, Choice(measure[p]))
    OBVIOUS
  <2>1. measure[p] \in Nat /\ p \in To(measure[p])
    OBVIOUS
  <2>2. Choice(measure[p]) \in Partial(measure[p])
    BY <1>7, <2>1
  <2> QED
    BY <2>1, <2>2
<1>9. ASSUME NEW p \in D, measure[p] # 0
      PROVE  Choice(measure[p])[next[p]] = Choice(measure[next[p]])[next[p]]
  <2>1. /\ measure[next[p]] \in Nat /\ measure[p] \in Nat /\ next[p] \in D
        /\ measure[next[p]] <= measure[p]
    BY <1>9
  <2>2. /\ Choice(measure[p]) \in Partial(measure[p])
        /\ Choice(measure[next[p]]) \in Partial(measure[next[p]])
    BY <1>7, <2>1
  <2>3. measure[next[p]] \in Same
    BY <1>6, <2>1
  <2>4. ASSUME NEW j \in Nat, j \in Same, NEW n \in Nat, NEW k \in Nat, NEW g \in Partial(n), NEW h \in Partial(k),
               NEW q \in D, measure[q] <= j, j <= n, j <= k
        PROVE  g[q] = h[q]
    <3> HIDE DEF Partial
    <3> QED
      BY <2>4
  <2> HIDE DEF Partial, Same
  <2> QED
    BY <2>1, <2>2, <2>3, <2>4
<1>10. f \in [D -> V] /\ \A p \in D : f[p] = Value(p, f)
  BY <1>8, <1>9
<1> QED
  BY <1>10 DEF Recursive

-----------------------------------------------------------------------------
(* Sums                                                                      *)

\* A fold over the subsets of a finite set, whichever member it takes next.
FoldsTo(g, S, b, step, c) ==
    \A T \in SUBSET S : g[T] = IF T = {} THEN b ELSE step[c[T]][g[T \ {c[T]}]]

\* Every such fold has a value at every subset.
LEMMA FoldRecursion ==
  ASSUME NEW S, IsFiniteSet(S), NEW V, NEW b \in V, NEW step \in [S -> [V -> V]],
         NEW c, \A T \in SUBSET S : T # {} => c[T] \in T
  PROVE  \E g \in [SUBSET S -> V] : FoldsTo(g, S, b, step, c)
<1> DEFINE D == SUBSET S
           measure == [T \in D |-> Cardinality(T)]
           next == [T \in D |-> IF T = {} THEN {} ELSE T \ {c[T]}]
           base == [T \in D |-> b]
           take == [T \in D |-> IF T = {} THEN [v \in V |-> v] ELSE step[c[T]]]
<1>1. \A T \in D : IsFiniteSet(T) /\ Cardinality(T) \in Nat /\ (Cardinality(T) = 0 <=> T = {})
  BY FS_Subset, FS_CardinalityType, FS_EmptySet
<1>2. measure \in [D -> Nat] /\ next \in [D -> D] /\ base \in [D -> V]
  BY <1>1
<1>3. take \in [D -> [V -> V]]
  OBVIOUS
<1>4. ASSUME NEW T \in D, measure[T] # 0 PROVE measure[next[T]] < measure[T]
  <2>1. T # {} /\ c[T] \in T /\ next[T] = T \ {c[T]} /\ IsFiniteSet(T) /\ next[T] \in D
    BY <1>1, <1>4
  <2>2. Cardinality(T \ {c[T]}) = Cardinality(T) - 1
    BY <2>1, FS_RemoveElement, Zenon
  <2> QED
    BY <1>1, <2>1, <2>2
<1>5. PICK g \in [D -> V] : Recursive(g, D, measure, next, base, take)
  <2> HIDE DEF D, measure, next, base, take
  <2> QED
    BY <1>2, <1>3, <1>4, Recursion
<1>6. ASSUME NEW T \in D PROVE g[T] = IF T = {} THEN b ELSE step[c[T]][g[T \ {c[T]}]]
  <2>1. g[T] = IF measure[T] = 0 THEN base[T] ELSE take[T][g[next[T]]]
    BY <1>5 DEF Recursive
  <2>2. measure[T] = 0 <=> T = {}
    BY <1>1
  <2> QED
    BY <2>1, <2>2
<1> QED
  BY <1>6 DEF FoldsTo

\* Whatever obeys the recursion as far as it has values of that kind, has them.
LEMMA FoldValues ==
  ASSUME NEW S, IsFiniteSet(S), NEW V, NEW c, \A T \in SUBSET S : T # {} => c[T] \in T,
         NEW h, h[{}] \in V,
         \A T \in SUBSET S : T # {} /\ h[T \ {c[T]}] \in V => h[T] \in V
  PROVE  \A T \in SUBSET S : h[T] \in V
<1> DEFINE N == {n \in Nat : \A T \in SUBSET S : Cardinality(T) = n => h[T] \in V}
<1>1. \A T \in SUBSET S : IsFiniteSet(T) /\ Cardinality(T) \in Nat /\ (Cardinality(T) = 0 <=> T = {})
  BY FS_Subset, FS_CardinalityType, FS_EmptySet
<1>2. 0 \in N
  BY <1>1
<1>3. ASSUME NEW n \in Nat, n \in N PROVE n + 1 \in N
  <2> SUFFICES ASSUME NEW T \in SUBSET S, Cardinality(T) = n + 1 PROVE h[T] \in V
    OBVIOUS
  <2>1. T # {}
    BY <1>1
  <2>2. c[T] \in T /\ IsFiniteSet(T)
    BY <1>1, <2>1
  <2>3. Cardinality(T \ {c[T]}) = Cardinality(T) - 1
    BY <2>2, FS_RemoveElement, Zenon
  <2>4. h[T \ {c[T]}] \in V
    BY <1>3, <2>3
  <2> QED
    BY <2>1, <2>4
<1>4. Nat \subseteq N
  <2> HIDE DEF N
  <2> QED
    BY <1>2, <1>3, NumberInduction
<1> QED
  BY <1>1, <1>4

\* g gives the sum of f over every subset of D.
Sums(f, D, g) ==
    /\ IsFiniteSet(D) /\ f \in [D -> Int]
    /\ g \in [SUBSET D -> Int]
    /\ g[{}] = 0
    /\ \A T \in SUBSET D : T # {} => \E x \in T : g[T] = f[x] + g[T \ {x}]

\* It is the same whichever member comes first.
LEMMA SumsAnyOrder ==
  ASSUME NEW D, NEW f, NEW g, Sums(f, D, g), NEW T \in SUBSET D, NEW x \in T
  PROVE  g[T] = f[x] + g[T \ {x}]
<1> DEFINE N == {n \in Nat : \A U \in SUBSET D : Cardinality(U) = n =>
                                \A y \in U : g[U] = f[y] + g[U \ {y}]}
<1>1. IsFiniteSet(D) /\ f \in [D -> Int]
  BY DEF Sums
<1>2. \A U \in SUBSET D : IsFiniteSet(U) /\ Cardinality(U) \in Nat /\ (Cardinality(U) = 0 <=> U = {})
  BY <1>1, FS_Subset, FS_CardinalityType, FS_EmptySet
<1>3. 0 \in N
  BY <1>2
<1>4. ASSUME NEW n \in Nat, n \in N PROVE n + 1 \in N
  <2> SUFFICES ASSUME NEW U \in SUBSET D, Cardinality(U) = n + 1, NEW y \in U
               PROVE  g[U] = f[y] + g[U \ {y}]
    OBVIOUS
  <2>1. PICK z \in U : g[U] = f[z] + g[U \ {z}]
    BY DEF Sums
  <2>2. CASE z = y
    BY <2>1, <2>2
  <2>3. CASE z # y
    <3>1. IsFiniteSet(U) /\ Cardinality(U \ {y}) = Cardinality(U) - 1 /\ Cardinality(U \ {z}) = Cardinality(U) - 1
      BY <1>2, FS_RemoveElement, Zenon
    <3>2. /\ Cardinality(U \ {y}) = n /\ Cardinality(U \ {z}) = n
          /\ U \ {y} \in SUBSET D /\ U \ {z} \in SUBSET D /\ y \in U \ {z} /\ z \in U \ {y}
      BY <2>3, <3>1
    <3>3. g[U \ {y}] = f[z] + g[(U \ {y}) \ {z}] /\ g[U \ {z}] = f[y] + g[(U \ {z}) \ {y}]
      BY <1>4, <3>2
    <3>4. (U \ {y}) \ {z} = (U \ {z}) \ {y} /\ (U \ {y}) \ {z} \in SUBSET D
      OBVIOUS
    <3>5. g[(U \ {y}) \ {z}] \in Int /\ f[y] \in Int /\ f[z] \in Int
      BY <1>1, <3>4 DEF Sums
    <3>6. g[U] = f[z] + (f[y] + g[(U \ {z}) \ {y}]) /\ g[U \ {y}] = f[z] + g[(U \ {y}) \ {z}]
      BY <2>1, <3>3, Zenon
    <3>7. g[(U \ {z}) \ {y}] = g[(U \ {y}) \ {z}]
      BY <3>4, Zenon
    <3> HIDE DEF N
    <3> QED
      BY <3>5, <3>6, <3>7
  <2> QED
    BY <2>2, <2>3
<1>5. Nat \subseteq N
  <2> HIDE DEF N
  <2> QED
    BY <1>3, <1>4, NumberInduction
<1> QED
  BY <1>2, <1>5

\* One member more adds its number.
LEMMA SumsAdd ==
  ASSUME NEW D, NEW f, NEW g, Sums(f, D, g), NEW T \in SUBSET D, NEW x \in D \ T
  PROVE  g[T \cup {x}] = f[x] + g[T]
<1>1. T \cup {x} \in SUBSET D /\ x \in T \cup {x} /\ (T \cup {x}) \ {x} = T
  OBVIOUS
<1>2. g[T \cup {x}] = f[x] + g[(T \cup {x}) \ {x}]
  BY <1>1, SumsAnyOrder
<1> QED
  BY <1>1, <1>2

\* There is one sum.
LEMMA SumsUnique ==
  ASSUME NEW D, NEW f, NEW g, Sums(f, D, g), NEW h, Sums(f, D, h)
  PROVE  g[D] = h[D]
<1> DEFINE C == {T \in SUBSET D : g[T] = h[T]}
<1>1. {} \in C
  BY DEF Sums
<1>2. ASSUME NEW T \in SUBSET D, NEW x \in D \ T, T \in C PROVE T \cup {x} \in C
  BY <1>2, SumsAdd
<1>3. SUBSET D \subseteq C
  <2>1. IsFiniteSet(D)
    BY DEF Sums
  <2> HIDE DEF C
  <2> QED
    BY <1>1, <1>2, <2>1, SubsetInduction
<1> QED
  BY <1>3

\* There is a sum.
LEMMA SumsExist ==
  ASSUME NEW S, IsFiniteSet(S), NEW f \in [S -> Int]
  PROVE  \E g : Sums(f, S, g)
<1> DEFINE V == Int
           b == 0
           c == [T \in SUBSET S |-> CHOOSE x \in T : TRUE]
           take == [x \in S |-> [v \in V |-> f[x] + v]]
<1>1. \A T \in SUBSET S : T # {} => c[T] \in T
  <2> SUFFICES ASSUME NEW T \in SUBSET S, T # {} PROVE c[T] \in T
    OBVIOUS
  <2>1. (CHOOSE x \in T : TRUE) \in T
    BY Zenon
  <2> QED
    BY <2>1
<1>2. b \in V /\ take \in [S -> [V -> V]]
  OBVIOUS
<1>3. PICK g \in [SUBSET S -> V] : FoldsTo(g, S, b, take, c)
  <2> HIDE DEF V, b, c, take
  <2> QED
    BY <1>1, <1>2, FoldRecursion
<1>4. g[{}] = 0
  BY <1>3 DEF FoldsTo
<1>5. ASSUME NEW T \in SUBSET S, T # {} PROVE \E x \in T : g[T] = f[x] + g[T \ {x}]
  <2>1. c[T] \in T /\ c[T] \in S /\ T \ {c[T]} \in SUBSET S
    BY <1>1, <1>5
  <2>2. g[T] = take[c[T]][g[T \ {c[T]}]]
    <3> HIDE DEF c, take
    <3> QED
      BY <1>3, <1>5, Zenon DEF FoldsTo
  <2>3. g[T \ {c[T]}] \in Int
    BY <2>1
  <2> HIDE DEF c
  <2>4. take[c[T]][g[T \ {c[T]}]] = f[c[T]] + g[T \ {c[T]}]
    BY <2>1, <2>3
  <2> QED
    BY <2>1, <2>2, <2>4, Zenon
<1> QED
  BY <1>4, <1>5 DEF Sums

\* How many members a set has is a sum of ones.
LEMMA CountSums ==
  ASSUME NEW D, IsFiniteSet(D)
  PROVE  Sums([x \in D |-> 1], D, [T \in SUBSET D |-> Cardinality(T)])
<1>1. \A T \in SUBSET D : IsFiniteSet(T) /\ Cardinality(T) \in Nat
  BY FS_Subset, FS_CardinalityType
<1>2. Cardinality({}) = 0
  BY FS_EmptySet
<1>3. ASSUME NEW T \in SUBSET D, NEW x \in T
      PROVE  Cardinality(T) = 1 + Cardinality(T \ {x})
  <2>1. Cardinality(T \ {x}) = Cardinality(T) - 1
    BY <1>1, FS_RemoveElement, Zenon
  <2> QED
    BY <1>1, <2>1
<1> DEFINE g == [T \in SUBSET D |-> Cardinality(T)]
           f == [x \in D |-> 1]
<1>4. f \in [D -> Int] /\ g \in [SUBSET D -> Int] /\ g[{}] = 0
  BY <1>1, <1>2
<1>5. ASSUME NEW T \in SUBSET D, T # {} PROVE \E x \in T : g[T] = f[x] + g[T \ {x}]
  <2>1. PICK x \in T : TRUE
    BY <1>5
  <2>2. f[x] = 1 /\ g[T] = Cardinality(T) /\ g[T \ {x}] = Cardinality(T \ {x})
    OBVIOUS
  <2>3. g[T] = f[x] + g[T \ {x}]
    BY <1>3, <2>2
  <2> QED
    BY <2>3
<1> HIDE DEF f, g
<1>6. Sums(f, D, g)
  BY <1>4, <1>5 DEF Sums
<1> QED
  BY <1>6 DEF f, g

\* Pairs by their first members.
Pairs(W, I) == UNION {{w} \X I[w] : w \in W}

\* Finitely many of each are finitely many pairs.
LEMMA PairsFinite ==
  ASSUME NEW W, IsFiniteSet(W), NEW I, \A w \in W : IsFiniteSet(I[w])
  PROVE  IsFiniteSet(Pairs(W, I))
<1> DEFINE F == [w \in W |-> {w} \X I[w]]
           R == {{w} \X I[w] : w \in W}
<1>1. F \in Surjection(W, R)
  BY Fun_IsSurj
<1>2. IsFiniteSet(R)
  BY <1>1, FS_Surjection
<1>3. \A r \in R : IsFiniteSet(r)
  <2> SUFFICES ASSUME NEW w \in W PROVE IsFiniteSet({w} \X I[w])
    OBVIOUS
  <2>1. IsFiniteSet({w})
    BY FS_Singleton
  <2> QED
    BY <2>1, FS_Product
<1> HIDE DEF R
<1>4. IsFiniteSet(UNION R)
  BY <1>2, <1>3, FS_UNION
<1> QED
  BY <1>4 DEF Pairs, R

\* e[w] is f at the pairs that begin with w, t[w] its sums, r[w] all of it.
Columns(f, W, I, e, t, r) ==
    \A w \in W : /\ Sums(e[w], I[w], t[w]) /\ r[w] = t[w][I[w]]
                 /\ \A i \in I[w] : e[w][i] = f[<<w, i>>]

\* A sum over pairs, summed first over those with one first member.
LEMMA SumOfSums ==
  ASSUME NEW W, NEW I, NEW f, NEW g, Sums(f, Pairs(W, I), g),
         NEW e, NEW t, NEW r, Columns(f, W, I, e, t, r), NEW h, Sums(r, W, h)
  PROVE  g[Pairs(W, I)] = h[W]
<1>1. \A w \in W : /\ Sums(e[w], I[w], t[w]) /\ r[w] = t[w][I[w]]
                     /\ \A i \in I[w] : e[w][i] = f[<<w, i>>]
  BY DEF Columns
<1> DEFINE A == Pairs(W, I)
           C == {V \in SUBSET W : g[Pairs(V, I)] = h[V]}
<1>2. /\ IsFiniteSet(A) /\ IsFiniteSet(W) /\ \A w \in W : IsFiniteSet(I[w])
      /\ r \in [W -> Int] /\ f \in [A -> Int]
  BY <1>1 DEF Sums
<1>3. {} \in C
  <2>1. Pairs({}, I) = {}
    BY DEF Pairs
  <2> QED
    BY <2>1 DEF Sums
<1>4. ASSUME NEW V \in SUBSET W, NEW w \in W \ V, V \in C PROVE V \cup {w} \in C
  <2> DEFINE B == Pairs(V, I)
             J == {K \in SUBSET I[w] : g[B \cup ({w} \X K)] = g[B] + t[w][K]}
  <2>1. /\ B \subseteq A /\ {w} \X I[w] \subseteq A
        /\ \A i : <<w, i>> \notin B
        /\ \A i \in I[w] : <<w, i>> \in A
    BY DEF Pairs
  <2>2. {} \in J
    <3>1. B \cup ({w} \X {}) = B
      OBVIOUS
    <3>2. g[B] \in Int /\ t[w][{}] = 0
      BY <1>1, <2>1 DEF Sums
    <3>3. g[B] = g[B] + t[w][{}]
      BY <3>2
    <3>4. g[B \cup ({w} \X {})] = g[B] + t[w][{}]
      BY <3>1, <3>3, Zenon
    <3> QED
      BY <3>4
  <2>3. ASSUME NEW K \in SUBSET I[w], NEW i \in I[w] \ K, K \in J PROVE K \cup {i} \in J
    <3>1. /\ B \cup ({w} \X (K \cup {i})) = (B \cup ({w} \X K)) \cup {<<w, i>>}
          /\ B \cup ({w} \X K) \in SUBSET A
          /\ <<w, i>> \in A \ (B \cup ({w} \X K))
      BY <2>1
    <3>2. g[B \cup ({w} \X (K \cup {i}))] = f[<<w, i>>] + g[B \cup ({w} \X K)]
      <4>1. Sums(f, A, g)
        OBVIOUS
      <4> DEFINE H == B \cup ({w} \X K)
                 x == <<w, i>>
      <4>2. H \in SUBSET A /\ x \in A \ H
        BY <3>1
      <4> HIDE DEF A, B, H, x
      <4>3. g[H \cup {x}] = f[x] + g[H]
        BY <4>1, <4>2, SumsAdd
      <4> QED
        BY <3>1, <4>3 DEF H, x
    <3>3. t[w][K \cup {i}] = f[<<w, i>>] + t[w][K]
      <4>1. e[w][i] = f[<<w, i>>] /\ Sums(e[w], I[w], t[w])
        BY <1>1
      <4> DEFINE Q == I[w]
                 E == e[w]
                 R == t[w]
      <4>2. Sums(E, Q, R) /\ K \in SUBSET Q /\ i \in Q \ K
        BY <4>1
      <4> HIDE DEF Q, E, R
      <4>3. R[K \cup {i}] = E[i] + R[K]
        BY <4>2, SumsAdd
      <4> QED
        BY <4>1, <4>3 DEF E, R
    <3>4. g[B] \in Int /\ t[w][K] \in Int /\ f[<<w, i>>] \in Int
      <4>1. g \in [SUBSET A -> Int] /\ t[w] \in [SUBSET I[w] -> Int]
        BY <1>1 DEF Sums
      <4>2. B \in SUBSET A /\ K \in SUBSET I[w] /\ <<w, i>> \in A
        BY <2>1
      <4> HIDE DEF A, B
      <4> QED
        BY <1>2, <4>1, <4>2
    <3> QED
      BY <2>3, <3>2, <3>3, <3>4
  <2>4. SUBSET I[w] \subseteq J
    <3> DEFINE Q == I[w]
    <3>1. IsFiniteSet(Q)
      BY <1>2
    <3>2. \A K \in SUBSET Q : \A i \in Q \ K : K \in J => K \cup {i} \in J
      BY <2>3
    <3> HIDE DEF J, Q
    <3>3. SUBSET Q \subseteq J
      BY <2>2, <3>1, <3>2, SubsetInduction
    <3> QED
      BY <3>3 DEF Q
  <2>5. g[B \cup ({w} \X I[w])] = g[B] + t[w][I[w]]
    BY <2>4
  <2>6. Pairs(V \cup {w}, I) = B \cup ({w} \X I[w])
    BY DEF Pairs
  <2>7. h[V \cup {w}] = r[w] + h[V]
    <3>1. V \in SUBSET W /\ w \in W \ V
      OBVIOUS
    <3> QED
      BY <3>1, SumsAdd
  <2>8. h[V] \in Int /\ r[w] \in Int /\ r[w] = t[w][I[w]] /\ g[B] = h[V]
    BY <1>1, <1>2, <1>4 DEF Sums
  <2>9. g[Pairs(V \cup {w}, I)] = h[V \cup {w}]
    <3> HIDE DEF B
    <3>1. g[Pairs(V \cup {w}, I)] = g[B] + t[w][I[w]]
      BY <2>5, <2>6, Zenon
    <3>2. g[B] + t[w][I[w]] = h[V] + r[w]
      BY <2>8, Zenon
    <3>3. h[V] + r[w] = r[w] + h[V]
      BY <2>8
    <3> QED
      BY <2>7, <3>1, <3>2, <3>3, Zenon
  <2> QED
    BY <2>9
<1>5. SUBSET W \subseteq C
  <2> HIDE DEF C
  <2> QED
    BY <1>2, <1>3, <1>4, SubsetInduction
<1> QED
  BY <1>5

-----------------------------------------------------------------------------
(* Sums over sequences and functions                                         *)

\* The last place of a sequence that a set holds is in the set.
LEMMA LastPlace ==
  ASSUME NEW n \in Nat, NEW S \in SUBSET (1 .. n), S # {}
  PROVE  Max(S) \in S
<1> DEFINE T == {n - i : i \in S}
<1>1. T \subseteq Nat /\ T # {}
  <2>1. \A i \in 1 .. n : n - i \in Nat
    OBVIOUS
  <2>2. \A i \in S : n - i \in Nat
    BY <2>1
  <2> QED
    BY <2>2
<1>2. PICK t \in T : \A m \in T : t <= m
  <2> HIDE DEF T
  <2> QED
    BY <1>1, LeastNumber
<1>3. PICK i \in S : t = n - i
  OBVIOUS
<1>4. \A j \in S : i >= j
  <2> SUFFICES ASSUME NEW j \in S PROVE i >= j
    OBVIOUS
  <2>1. t <= n - j
    BY <1>2
  <2> QED
    BY <1>3, <2>1
<1> QED
  BY <1>4, Zenon DEF Max

\* A number that sum transforms is a number.
LEMMA TransformInt == ASSUME NEW x \in Int PROVE Transform(x) \in Int
BY DEF Transform

\* FoldLeft, as the community modules define it: a recursion over sets of places.
TotalBy(s, g) ==
    g = [S \in SUBSET DOMAIN s |-> IF S = {} THEN 0 ELSE g[S \ {Max(S)}] + Transform(s[Max(S)])]

\* Total folds over the places of a list, from the last.
LEMMA TotalFold == ASSUME NEW s PROVE Total(s) = (CHOOSE g : TotalBy(s, g))[DOMAIN s]
BY Zenon DEF Total, FoldLeft, MapThenFoldSet, TotalBy

\* Total is the sum of a list's transformed numbers.
LEMMA TotalSums ==
  ASSUME NEW s \in Seq(Int)
  PROVE  \E g : Sums([i \in DOMAIN s |-> Transform(s[i])], DOMAIN s, g) /\ Total(s) = g[DOMAIN s]
<1> DEFINE I == DOMAIN s
           f == [i \in I |-> Transform(s[i])]
           take == [i \in I |-> [v \in Int |-> v + f[i]]]
           c == [T \in SUBSET I |-> Max(T)]
<1>1. I = 1 .. Len(s) /\ Len(s) \in Nat
  OBVIOUS
<1>2. IsFiniteSet(I)
  BY <1>1, FS_Interval
<1>3. f \in [I -> Int]
  BY TransformInt
<1>4. \A T \in SUBSET I : T # {} => c[T] \in T
  BY <1>1, LastPlace
<1>5. take \in [I -> [Int -> Int]]
  BY <1>3
<1>6. PICK g \in [SUBSET I -> Int] :
          \A T \in SUBSET I : g[T] = IF T = {} THEN 0 ELSE take[c[T]][g[T \ {c[T]}]]
  <2> DEFINE V == Int
             b == 0
  <2>1. b \in V /\ take \in [I -> [V -> V]]
    BY <1>5
  <2> HIDE DEF I, f, take, c, V, b
  <2>2. \E g \in [SUBSET I -> V] : FoldsTo(g, I, b, take, c)
    BY <1>2, <1>4, <2>1, FoldRecursion
  <2> QED
    BY <2>2 DEF V, b, FoldsTo
<1>7. \A T \in SUBSET I : T # {} => /\ c[T] = Max(T) /\ Max(T) \in T
                                     /\ f[Max(T)] = Transform(s[Max(T)]) /\ f[Max(T)] \in Int
  BY <1>3, <1>4
<1>8. ASSUME NEW T \in SUBSET I, T # {}
      PROVE  g[T] = g[T \ {Max(T)}] + Transform(s[Max(T)])
  <2>1. take[Max(T)] = [v \in Int |-> v + f[Max(T)]]
    BY <1>7, <1>8
  <2>2. g[T] = take[Max(T)][g[T \ {Max(T)}]] /\ g[T \ {Max(T)}] \in Int
    BY <1>6, <1>7, <1>8
  <2> QED
    BY <1>7, <1>8, <2>1, <2>2
<1>9. TotalBy(s, g)
  <2>1. \A T \in SUBSET DOMAIN s :
            g[T] = IF T = {} THEN 0 ELSE g[T \ {Max(T)}] + Transform(s[Max(T)])
    BY <1>6, <1>8, Zenon
  <2> QED
    BY <1>6, <2>1, Zenon DEF TotalBy
<1> DEFINE h == CHOOSE h : TotalBy(s, h)
<1>10. TotalBy(s, h)
  BY <1>9, Zenon
<1> HIDE DEF h
<1>11. /\ h = [S \in SUBSET I |-> h[S]] /\ h[{}] = 0
       /\ \A T \in SUBSET I : T # {} => h[T] = h[T \ {Max(T)}] + Transform(s[Max(T)])
  BY <1>10, Zenon DEF TotalBy
<1>12. \A T \in SUBSET I : T # {} /\ h[T \ {c[T]}] \in Int => h[T] \in Int
  <2> SUFFICES ASSUME NEW T \in SUBSET I, T # {}, h[T \ {c[T]}] \in Int PROVE h[T] \in Int
    OBVIOUS
  <2> HIDE DEF I, f, take, c
  <2>1. c[T] = Max(T) /\ f[Max(T)] \in Int
    BY <1>7
  <2>2. h[T] = h[T \ {c[T]}] + f[Max(T)]
    BY <1>7, <1>11, <2>1, Zenon
  <2> QED
    BY <2>1, <2>2
<1>13. \A T \in SUBSET I : h[T] \in Int
  <2>1. h[{}] \in Int
    BY <1>11
  <2> HIDE DEF I, c
  <2> QED
    BY <1>2, <1>4, <1>12, <2>1, FoldValues
<1>14. \A T \in SUBSET I : T # {} => h[T] = f[Max(T)] + h[T \ {Max(T)}]
  <2> SUFFICES ASSUME NEW T \in SUBSET I, T # {} PROVE h[T] = f[Max(T)] + h[T \ {Max(T)}]
    OBVIOUS
  <2>1. h[T \ {Max(T)}] \in Int
    BY <1>13
  <2> HIDE DEF I, f
  <2>2. h[T] = h[T \ {Max(T)}] + f[Max(T)] /\ f[Max(T)] \in Int
    BY <1>7, <1>11, Zenon
  <2> QED
    BY <2>1, <2>2
<1>15. Sums(f, I, h)
  <2>1. \A T \in SUBSET I : T # {} => \E x \in T : h[T] = f[x] + h[T \ {x}]
    BY <1>7, <1>14, Zenon
  <2>2. h \in [SUBSET I -> Int]
    BY <1>11, <1>13
  <2> HIDE DEF f
  <2> QED
    BY <1>2, <1>3, <1>11, <2>1, <2>2 DEF Sums
<1> QED
  BY <1>15, TotalFold, Zenon DEF h

PairPick(S) == CHOOSE x \in S : TRUE
PairsBy(f, S, g) ==
    g = [T \in SUBSET S |->
            IF T = {} THEN <<0, 0>>
            ELSE <<g[T \ {PairPick(T)}][1] + f[PairPick(T)][1],
                   g[T \ {PairPick(T)}][2] + f[PairPick(T)][2]>>]

PairFold(f, S) == (CHOOSE g : PairsBy(f, S, g))[S]

\* Aggregate folds pairs in the order in which CHOOSE takes the workers.
LEMMA AggregateFold == Aggregate = PairFold([w \in Workers |-> Stored(w)], Gathered)
BY Zenon DEF Aggregate, PairFold, FoldFunctionOnSet, MapThenFoldSet, PairsBy, PairPick

\* f1 and f2 are the two numbers of the pairs f.
Halves(f, S, f1, f2) == \A x \in S : f1[x] = f[x][1] /\ f2[x] = f[x][2]

\* A sum of pairs is the pair of the sums.
LEMMA PairSums ==
  ASSUME NEW S, NEW f, NEW f1, NEW f2, Halves(f, S, f1, f2),
         NEW g1, Sums(f1, S, g1), NEW g2, Sums(f2, S, g2)
  PROVE  PairFold(f, S) = <<g1[S], g2[S]>>
<1> DEFINE g == [T \in SUBSET S |-> <<g1[T], g2[T]>>]
           h == CHOOSE h : PairsBy(f, S, h)
<1>1. \A T \in SUBSET S : T # {} => PairPick(T) \in T
  BY Zenon DEF PairPick
<1>2. f1 \in [S -> Int] /\ f2 \in [S -> Int] /\ IsFiniteSet(S)
  BY DEF Sums
<1>3. /\ g1 \in [SUBSET S -> Int] /\ g1[{}] = 0
      /\ g2 \in [SUBSET S -> Int] /\ g2[{}] = 0
  BY DEF Sums
<1>4. ASSUME NEW T \in SUBSET S, NEW x \in T
      PROVE  /\ g1[T] = g1[T \ {x}] + f[x][1]
             /\ g2[T] = g2[T \ {x}] + f[x][2]
  <2>1. f1[x] = f[x][1] /\ f2[x] = f[x][2] /\ f1[x] \in Int /\ f2[x] \in Int
    BY <1>2 DEF Halves
  <2>2. T \ {x} \in SUBSET S
    OBVIOUS
  <2>3. g1[T \ {x}] \in Int /\ g2[T \ {x}] \in Int
    BY <1>3, <2>2
  <2>4. g1[T] = f1[x] + g1[T \ {x}]
    BY SumsAnyOrder
  <2>5. g2[T] = f2[x] + g2[T \ {x}]
    BY SumsAnyOrder
  <2> QED
    BY <2>1, <2>3, <2>4, <2>5
<1>5. PairsBy(f, S, g)
  <2>1. g[{}] = <<0, 0>>
    BY <1>3
  <2>2. ASSUME NEW T \in SUBSET S, T # {}
        PROVE  g[T] = <<g[T \ {PairPick(T)}][1] + f[PairPick(T)][1],
                        g[T \ {PairPick(T)}][2] + f[PairPick(T)][2]>>
    <3>1. PairPick(T) \in T
      BY <1>1, <2>2
    <3>2. T \ {PairPick(T)} \in SUBSET S
      OBVIOUS
    <3>3. /\ g[T] = <<g1[T], g2[T]>>
          /\ g[T \ {PairPick(T)}][1] = g1[T \ {PairPick(T)}]
          /\ g[T \ {PairPick(T)}][2] = g2[T \ {PairPick(T)}]
      BY <3>2
    <3> HIDE DEF g
    <3> QED
      BY <1>4, <3>1, <3>3
  <2>3. g = [T \in SUBSET S |-> g[T]]
    OBVIOUS
  <2> HIDE DEF g
  <2> QED
    BY <2>1, <2>2, <2>3, Zenon DEF PairsBy
<1>6. PairsBy(f, S, h)
  <2> HIDE DEF g
  <2> QED
    BY <1>5, Zenon
<1> HIDE DEF h
<1>7. h[{}] = <<0, 0>>
  BY <1>6, Zenon DEF PairsBy
<1>8. \A T \in SUBSET S : T # {} => h[T] = <<h[T \ {PairPick(T)}][1] + f[PairPick(T)][1],
                                            h[T \ {PairPick(T)}][2] + f[PairPick(T)][2]>>
  BY <1>6, Zenon DEF PairsBy
<1>9. \A T \in SUBSET S : g[T] = <<g1[T], g2[T]>> /\ g[T][1] = g1[T] /\ g[T][2] = g2[T]
  OBVIOUS
<1> HIDE DEF g
<1> DEFINE C == {n \in Nat : \A T \in SUBSET S : Cardinality(T) = n => h[T] = g[T]}
<1>10. \A T \in SUBSET S : IsFiniteSet(T) /\ Cardinality(T) \in Nat /\ (Cardinality(T) = 0 <=> T = {})
  BY <1>2, FS_Subset, FS_CardinalityType, FS_EmptySet
<1>11. 0 \in C
  BY <1>3, <1>7, <1>10, <1>9
<1>12. ASSUME NEW n \in Nat, n \in C PROVE n + 1 \in C
  <2> SUFFICES ASSUME NEW T \in SUBSET S, Cardinality(T) = n + 1 PROVE h[T] = g[T]
    OBVIOUS
  <2>1. T # {} /\ PairPick(T) \in T /\ T \ {PairPick(T)} \in SUBSET S
    BY <1>1, <1>10
  <2>2. IsFiniteSet(T) /\ Cardinality(T \ {PairPick(T)}) = Cardinality(T) - 1
    BY <1>10, <2>1, FS_RemoveElement, Zenon
  <2>3. h[T \ {PairPick(T)}] = g[T \ {PairPick(T)}]
    BY <1>12, <2>1, <2>2
  <2>4. g[T \ {PairPick(T)}][1] = g1[T \ {PairPick(T)}] /\ g[T \ {PairPick(T)}][2] = g2[T \ {PairPick(T)}]
    BY <1>9, <2>1
  <2>5. g[T] = <<g1[T], g2[T]>>
    BY <1>9
  <2>6. /\ h[T \ {PairPick(T)}][1] = g1[T \ {PairPick(T)}]
        /\ h[T \ {PairPick(T)}][2] = g2[T \ {PairPick(T)}]
    BY <2>3, <2>4, Zenon
  <2>7. h[T] = <<g1[T \ {PairPick(T)}] + f[PairPick(T)][1], g2[T \ {PairPick(T)}] + f[PairPick(T)][2]>>
    BY <1>8, <2>1, <2>6, Zenon
  <2>8. /\ g1[T] = g1[T \ {PairPick(T)}] + f[PairPick(T)][1]
        /\ g2[T] = g2[T \ {PairPick(T)}] + f[PairPick(T)][2]
    BY <1>4, <2>1
  <2> QED
    BY <2>5, <2>7, <2>8, Zenon
<1>13. Nat \subseteq C
  <2> HIDE DEF C
  <2> QED
    BY <1>11, <1>12, NumberInduction
<1>14. h[S] = g[S]
  BY <1>10, <1>13
<1> QED
  BY <1>14, <1>9 DEF h, PairFold

\* FoldFunction of additions is the sum.
SumBy(f, g) ==
    g = [T \in SUBSET DOMAIN f |-> IF T = {} THEN 0 ELSE f[PairPick(T)] + g[T \ {PairPick(T)}]]

SumOver(f) == FoldFunction(LAMBDA x, acc : x + acc, 0, f)

\* The reference is a fold over the pairs, too.
LEMMA SumFold == ASSUME NEW f PROVE SumOver(f) = (CHOOSE g : SumBy(f, g))[DOMAIN f]
BY Zenon DEF SumOver, FoldFunction, FoldFunctionOnSet, MapThenFoldSet, SumBy, PairPick

\* It is the sum of f.
LEMMA SumIs ==
  ASSUME NEW S, NEW f, NEW g, Sums(f, S, g)
  PROVE  SumOver(f) = g[S]
<1> DEFINE h == CHOOSE h : SumBy(f, h)
<1>0. IsFiniteSet(S) /\ f \in [S -> Int]
  BY DEF Sums
<1>1. \A T \in SUBSET S : T # {} => PairPick(T) \in T
  BY Zenon DEF PairPick
<1>2. \A T \in SUBSET S : T # {} => g[T] = f[PairPick(T)] + g[T \ {PairPick(T)}]
  BY <1>1, SumsAnyOrder
<1>3. SumBy(f, g)
  <2>1. DOMAIN f = S /\ g \in [SUBSET S -> Int] /\ g[{}] = 0
    BY DEF Sums
  <2>2. \A T \in SUBSET S : g[T] = IF T = {} THEN 0 ELSE f[PairPick(T)] + g[T \ {PairPick(T)}]
    BY <1>2, <2>1, Zenon
  <2> QED
    BY <2>1, <2>2, Zenon DEF SumBy
<1>4. SumBy(f, h)
  BY <1>3, Zenon
<1> HIDE DEF h
<1>5. /\ h = [T \in SUBSET S |-> h[T]] /\ h[{}] = 0
      /\ \A T \in SUBSET S : T # {} => h[T] = f[PairPick(T)] + h[T \ {PairPick(T)}]
  <2>1. DOMAIN f = S
    BY <1>0
  <2> QED
    BY <1>4, <2>1, Zenon DEF SumBy
<1> DEFINE c == [T \in SUBSET S |-> PairPick(T)]
<1>6. \A T \in SUBSET S : T # {} => c[T] = PairPick(T) /\ c[T] \in T
  BY <1>1
<1>7. \A T \in SUBSET S : h[T] \in Int
  <2>1. h[{}] \in Int
    BY <1>5
  <2>2. \A T \in SUBSET S : T # {} => c[T] \in T
    BY <1>6
  <2>3. ASSUME NEW T \in SUBSET S, T # {}, h[T \ {c[T]}] \in Int PROVE h[T] \in Int
    <3>1. h[T] = f[c[T]] + h[T \ {c[T]}] /\ c[T] \in S
      BY <1>5, <1>6, <2>3, Zenon
    <3>2. f[c[T]] \in Int
      BY <1>0, <3>1
    <3> HIDE DEF c
    <3> QED
      BY <2>3, <3>1, <3>2
  <2>4. \A T \in SUBSET S : T # {} /\ h[T \ {c[T]}] \in Int => h[T] \in Int
    BY <2>3, Zenon
  <2> HIDE DEF c
  <2> QED
    BY <1>0, <2>1, <2>2, <2>4, FoldValues
<1>8. Sums(f, S, h)
  <2>1. \A T \in SUBSET S : T # {} => \E x \in T : h[T] = f[x] + h[T \ {x}]
    BY <1>1, <1>5, Zenon
  <2>2. h \in [SUBSET S -> Int]
    BY <1>5, <1>7
  <2> QED
    BY <1>0, <1>5, <2>1, <2>2 DEF Sums
<1>9. h[S] = g[S]
  BY <1>8, SumsUnique
<1>10. DOMAIN f = S
  BY <1>0
<1> QED
  BY <1>9, <1>10, SumFold, Zenon DEF h

-----------------------------------------------------------------------------
(* Federator.Aggregate                                                       *)

\* Federator.Aggregate: what every worker's contribute made of its numbers adds up
\* to the sum over all numbers of all workers, and to how many there are.
LEMMA AggregateIs ==
  ASSUME IsFiniteSet(Workers), local \in [Workers -> Seq(Int)], skill # "median", Gathered = Workers
  PROVE  Aggregate = <<SumOver([p \in AllNumbers |-> Transform(At(p))]), Count>>
<1> DEFINE I == [w \in Workers |-> DOMAIN local[w]]
           f == [p \in Pairs(Workers, I) |-> Transform(At(p))]
           one == [p \in Pairs(Workers, I) |-> 1]
           tf == [w \in Workers |-> CHOOSE g :
                     /\ Sums([i \in DOMAIN local[w] |-> Transform(local[w][i])], DOMAIN local[w], g)
                     /\ Total(local[w]) = g[DOMAIN local[w]]]
           tone == [w \in Workers |-> [T \in SUBSET I[w] |-> Cardinality(T)]]
           e == [w \in Workers |-> Stored(w)]
<1>1. AllNumbers = Pairs(Workers, I)
  BY DEF AllNumbers, Pairs
<1>2. \A w \in Workers : /\ local[w] \in Seq(Int) /\ I[w] = DOMAIN local[w]
                         /\ I[w] = 1 .. Len(local[w]) /\ Len(local[w]) \in Nat
                         /\ \A i \in I[w] : local[w][i] \in Int
  OBVIOUS
<1>3. \A w \in Workers : IsFiniteSet(I[w]) /\ Cardinality(I[w]) = Len(local[w])
  <2> SUFFICES ASSUME NEW w \in Workers PROVE IsFiniteSet(I[w]) /\ Cardinality(I[w]) = Len(local[w])
    OBVIOUS
  <2>1. IsFiniteSet(1 .. Len(local[w])) /\ Cardinality(1 .. Len(local[w])) = Len(local[w])
    BY <1>2, FS_Interval, SMTT(30)
  <2> QED
    BY <1>2, <2>1
<1>4. IsFiniteSet(Pairs(Workers, I))
  <2> HIDE DEF I
  <2> QED
    BY <1>3, PairsFinite
<1>5. \A w \in Workers : \A i \in I[w] : /\ <<w, i>> \in Pairs(Workers, I)
                                       /\ At(<<w, i>>) = local[w][i]
                                       /\ f[<<w, i>>] = Transform(local[w][i])
  <2> HIDE DEF I
  <2> QED
    BY DEF Pairs, At
<1>6. f \in [Pairs(Workers, I) -> Int]
  <2>1. ASSUME NEW p \in Pairs(Workers, I) PROVE Transform(At(p)) \in Int
    <3>1. PICK w \in Workers : p \in {w} \X I[w]
      BY DEF Pairs
    <3>2. p[1] = w /\ p[2] \in I[w]
      BY <3>1
    <3>3. At(p) \in Int
      BY <1>2, <3>2 DEF At
    <3> QED
      BY <3>3, TransformInt
  <2> QED
    BY <2>1
<1>7. \A w \in Workers : /\ Sums([i \in I[w] |-> f[<<w, i>>]], I[w], tf[w])
                         /\ Total(local[w]) = tf[w][I[w]]
  <2> SUFFICES ASSUME NEW w \in Workers
               PROVE  /\ Sums([i \in I[w] |-> f[<<w, i>>]], I[w], tf[w])
                      /\ Total(local[w]) = tf[w][I[w]]
    OBVIOUS
  <2> DEFINE g == CHOOSE g : /\ Sums([i \in DOMAIN local[w] |-> Transform(local[w][i])], DOMAIN local[w], g)
                             /\ Total(local[w]) = g[DOMAIN local[w]]
  <2>1. \E g_1 : /\ Sums([i \in DOMAIN local[w] |-> Transform(local[w][i])], DOMAIN local[w], g_1)
                /\ Total(local[w]) = g_1[DOMAIN local[w]]
    BY <1>2, TotalSums
  <2>2. /\ Sums([i \in DOMAIN local[w] |-> Transform(local[w][i])], DOMAIN local[w], g)
        /\ Total(local[w]) = g[DOMAIN local[w]]
    BY <2>1, Zenon
  <2>3. tf[w] = g
    OBVIOUS
  <2>4. [i \in I[w] |-> f[<<w, i>>]] = [i \in DOMAIN local[w] |-> Transform(local[w][i])]
    <3> HIDE DEF f
    <3> QED
      BY <1>2, <1>5
  <2>5. I[w] = DOMAIN local[w]
    BY <1>2
  <2> HIDE DEF tf, g, f, I
  <2> QED
    BY <2>2, <2>3, <2>4, <2>5
<1>8. \A w \in Workers : /\ Sums([i \in I[w] |-> one[<<w, i>>]], I[w], tone[w])
                         /\ tone[w][I[w]] = Len(local[w])
  <2> SUFFICES ASSUME NEW w \in Workers
               PROVE  /\ Sums([i \in I[w] |-> one[<<w, i>>]], I[w], tone[w])
                      /\ tone[w][I[w]] = Len(local[w])
    OBVIOUS
  <2>1. [i \in I[w] |-> one[<<w, i>>]] = [i \in I[w] |-> 1]
    BY <1>5
  <2>2. tone[w] = [T \in SUBSET I[w] |-> Cardinality(T)]
    OBVIOUS
  <2>3. tone[w][I[w]] = Cardinality(I[w])
    BY <2>2
  <2> HIDE DEF I, one, tone
  <2> QED
    BY <1>3, <2>1, <2>2, <2>3, CountSums
<1>9. \A w \in Workers : Total(local[w]) \in Int
  <2> SUFFICES ASSUME NEW w \in Workers PROVE Total(local[w]) \in Int
    OBVIOUS
  <2> HIDE DEF tf, f, I
  <2>1. tf[w] \in [SUBSET I[w] -> Int]
    BY <1>7 DEF Sums
  <2> QED
    BY <1>7, <2>1
<1> DEFINE e1 == [w \in Workers |-> Total(local[w])]
           e2 == [w \in Workers |-> Len(local[w])]
<1>10. /\ e \in [Workers -> Int \X Int] /\ e1 \in [Workers -> Int] /\ e2 \in [Workers -> Int]
       /\ \A w \in Workers : e1[w] = e[w][1] /\ e2[w] = e[w][2]
  <2>1. \A w \in Workers : Stored(w) = <<Total(local[w]), Len(local[w])>>
    BY DEF Stored
  <2> QED
    BY <1>2, <1>9, <2>1
<1>100. \A w \in Workers : e1[w] = tf[w][I[w]] /\ e2[w] = tone[w][I[w]]
  <2>1. \A w \in Workers : e1[w] = Total(local[w]) /\ e2[w] = Len(local[w])
    OBVIOUS
  <2> HIDE DEF e1, e2, tf, tone, I
  <2> QED
    BY <1>7, <1>8, <2>1, Zenon
<1>11. PICK gf : Sums(f, Pairs(Workers, I), gf)
  <2> HIDE DEF f, I
  <2> QED
    BY <1>4, <1>6, SumsExist
<1>12. PICK gone : Sums(one, Pairs(Workers, I), gone)
  <2>1. one \in [Pairs(Workers, I) -> Int]
    OBVIOUS
  <2> HIDE DEF one, I
  <2> QED
    BY <1>4, <2>1, SumsExist
<1>14. PICK g1 : Sums(e1, Workers, g1)
  <2> HIDE DEF e1, e2
  <2> QED
    BY <1>10, SumsExist
<1>15. PICK g2 : Sums(e2, Workers, g2)
  <2> HIDE DEF e1, e2
  <2> QED
    BY <1>10, SumsExist
<1>16. Aggregate = <<g1[Workers], g2[Workers]>>
  <2>1. Aggregate = PairFold(e, Workers)
    BY AggregateFold, Zenon
  <2> HIDE DEF e, e1, e2
  <2>2. PairFold(e, Workers) = <<g1[Workers], g2[Workers]>>
    <3>1. Halves(e, Workers, e1, e2)
      BY <1>10 DEF Halves
    <3> QED
      BY <1>14, <1>15, <3>1, PairSums
  <2> QED
    BY <2>1, <2>2, Zenon
<1>17. gf[Pairs(Workers, I)] = g1[Workers]
  <2> DEFINE d == [w \in Workers |-> [i \in I[w] |-> f[<<w, i>>]]]
  <2>1. \A w \in Workers : d[w] = [i \in I[w] |-> f[<<w, i>>]]
    <3> HIDE DEF f, I
    <3> QED
      OBVIOUS
  <2>2. \A w \in Workers : Sums(d[w], I[w], tf[w])
    <3> HIDE DEF f, I, tf, d
    <3> QED
      BY <1>7, <2>1, Zenon
  <2>3. \A w \in Workers : \A i \in I[w] : d[w][i] = f[<<w, i>>]
    <3> HIDE DEF f, I, d
    <3> QED
      BY <2>1, ZenonT(30)
  <2> HIDE DEF f, tf, I, e1, e2, d
  <2> QED
    <3>1. Columns(f, Workers, I, d, tf, e1)
      BY <1>100, <2>2, <2>3 DEF Columns
    <3> QED
      BY <1>11, <1>14, <3>1, SumOfSums
<1>18. gone[Pairs(Workers, I)] = g2[Workers]
  <2> DEFINE d == [w \in Workers |-> [i \in I[w] |-> one[<<w, i>>]]]
  <2>1. \A w \in Workers : d[w] = [i \in I[w] |-> one[<<w, i>>]]
    <3> HIDE DEF one, I
    <3> QED
      OBVIOUS
  <2>2. \A w \in Workers : Sums(d[w], I[w], tone[w])
    <3> HIDE DEF one, I, tone, d
    <3> QED
      BY <1>8, <2>1, Zenon
  <2>3. \A w \in Workers : \A i \in I[w] : d[w][i] = one[<<w, i>>]
    <3> HIDE DEF one, I, d
    <3> QED
      BY <2>1, ZenonT(30)
  <2> HIDE DEF one, tone, I, e1, e2, d
  <2> QED
    <3>1. Columns(one, Workers, I, d, tone, e2)
      BY <1>100, <2>2, <2>3 DEF Columns
    <3> QED
      BY <1>12, <1>15, <3>1, SumOfSums
<1>19. gone[Pairs(Workers, I)] = Count
  <2> DEFINE A == Pairs(Workers, I)
  <2>1. Sums([x \in A |-> 1], A, [T \in SUBSET A |-> Cardinality(T)])
    <3> HIDE DEF A
    <3> QED
      BY <1>4, CountSums DEF A
  <2>2. one = [x \in A |-> 1] /\ one \in [A -> Int] /\ Sums(one, A, gone)
    BY <1>12
  <2> DEFINE g == [T \in SUBSET A |-> Cardinality(T)]
  <2>3. g[A] = Cardinality(A)
    OBVIOUS
  <2>4. Sums(one, A, g) /\ IsFiniteSet(A)
    BY <1>4, <2>1, <2>2
  <2> HIDE DEF g, A, one
  <2>5. gone[A] = g[A]
    BY <2>2, <2>4, SumsUnique
  <2>6. A = AllNumbers
    BY <1>1 DEF A
  <2> QED
    BY <2>3, <2>5, <2>6 DEF Count, A
<1>20. SumOver(f) = gf[Pairs(Workers, I)]
  <2> HIDE DEF f, I
  <2> QED
    BY <1>4, <1>6, <1>11, SumIs
<1>21. f = [p \in AllNumbers |-> Transform(At(p))]
  BY <1>1
<1> HIDE DEF f, I
<1> QED
  BY <1>16, <1>17, <1>18, <1>19, <1>20, <1>21, Zenon

-----------------------------------------------------------------------------
(* Sorting and merging                                                       *)

Ascending(s) == \A i, j \in DOMAIN s : i <= j => s[i] <= s[j]

\* c numbers the members of A from 1 to n.
Enumerates(c, n, A) ==
    /\ c \in [1 .. n -> A]
    /\ \A i, j \in 1 .. n : c[i] = c[j] => i = j
    /\ \A a \in A : \E i \in 1 .. n : c[i] = a

\* An interval from 1 has as many members as its end says.
LEMMA UpTo == ASSUME NEW n \in Nat PROVE IsFiniteSet(1 .. n) /\ Cardinality(1 .. n) = n
<1>1. 1 \in Int /\ n \in Int
  OBVIOUS
<1>2. IsFiniteSet(1 .. n) /\ Cardinality(1 .. n) = IF 1 > n THEN 0 ELSE n - 1 + 1
  BY <1>1, FS_Interval
<1> QED
  BY <1>2

\* One member after the other cannot leave one out.
LEMMA OneToOne ==
  ASSUME NEW n \in Nat, NEW f \in [1 .. n -> 1 .. n], \A i, j \in 1 .. n : f[i] = f[j] => i = j
  PROVE  \A k \in 1 .. n : \E i \in 1 .. n : f[i] = k
<1> DEFINE S == 1 .. n
<1>1. IsFiniteSet(S)
  BY FS_Interval
<1>2. f \in Injection(S, S)
  BY Fun_IsInj
<1> HIDE DEF S
<1>3. f \in Surjection(S, S)
  BY <1>1, <1>2, FS_Injection
<1> QED
  BY <1>3 DEF S, Surjection

\* What stands before a number in order.
Before(s, i) == {j \in DOMAIN s : s[j] < s[i] \/ (s[j] = s[i] /\ j <= i)}

\* Places are those of a sequence, and no two numbers have the same.
LEMMA PlaceGrows ==
  ASSUME NEW s \in Seq(Int), NEW i \in DOMAIN s, NEW j \in DOMAIN s
  PROVE  /\ IsFiniteSet(Before(s, i)) /\ Place(s, i) = Cardinality(Before(s, i))
         /\ Place(s, i) \in 1 .. Len(s)
         /\ i # j /\ j \in Before(s, i) => Place(s, j) < Place(s, i)
<1>1. DOMAIN s = 1 .. Len(s) /\ Len(s) \in Nat /\ \A k \in DOMAIN s : s[k] \in Int /\ k \in Int
  OBVIOUS
<1>2. IsFiniteSet(1 .. Len(s)) /\ Cardinality(1 .. Len(s)) = Len(s)
  BY <1>1, UpTo
<1>3. \A k \in DOMAIN s : /\ IsFiniteSet(Before(s, k)) /\ Cardinality(Before(s, k)) <= Len(s)
                        /\ Cardinality(Before(s, k)) \in Nat
  <2> SUFFICES ASSUME NEW k \in DOMAIN s
               PROVE  /\ IsFiniteSet(Before(s, k)) /\ Cardinality(Before(s, k)) <= Len(s)
                      /\ Cardinality(Before(s, k)) \in Nat
    OBVIOUS
  <2>1. Before(s, k) \in SUBSET (1 .. Len(s))
    BY <1>1 DEF Before
  <2>2. IsFiniteSet(Before(s, k)) /\ Cardinality(Before(s, k)) <= Cardinality(1 .. Len(s))
    BY <1>2, <2>1, FS_Subset
  <2> QED
    BY <1>2, <2>2, FS_CardinalityType
<1>4. Cardinality(Before(s, i)) > 0
  <2>1. i \in Before(s, i)
    BY <1>1 DEF Before
  <2>2. Cardinality(Before(s, i)) # 0
    BY <1>3, <2>1, FS_EmptySet
  <2> QED
    BY <1>3, <2>2
<1>5. Place(s, i) = Cardinality(Before(s, i)) /\ Place(s, j) = Cardinality(Before(s, j))
  BY DEF Place, Before
<1>6. ASSUME i # j, j \in Before(s, i) PROVE Place(s, j) < Place(s, i)
  <2>1. Before(s, j) \subseteq Before(s, i)
    BY <1>1, <1>6 DEF Before
  <2>2. i \in Before(s, i) /\ i \notin Before(s, j)
    BY <1>1, <1>6 DEF Before
  <2>3. Before(s, j) \in SUBSET Before(s, i) /\ Before(s, i) # Before(s, j)
    BY <2>1, <2>2
  <2>4. Cardinality(Before(s, j)) <= Cardinality(Before(s, i)) /\ Cardinality(Before(s, i)) # Cardinality(Before(s, j))
    BY <1>3, <2>3, FS_Subset
  <2> QED
    BY <1>3, <1>5, <2>4
<1> QED
  BY <1>1, <1>3, <1>4, <1>5, <1>6

\* sorted orders its numbers and keeps every one of them.
LEMMA SortedIs ==
  ASSUME NEW s \in Seq(Int)
  PROVE  /\ Sorted(s) \in Seq(Int) /\ Len(Sorted(s)) = Len(s) /\ Ascending(Sorted(s))
         /\ \E b : Enumerates(b, Len(s), 1 .. Len(s)) /\ \A k \in 1 .. Len(s) : Sorted(s)[k] = s[b[k]]
<1> DEFINE n == Len(s)
           I == 1 .. n
           place == [i \in I |-> Place(s, i)]
           b == [k \in I |-> CHOOSE i \in I : Place(s, i) = k]
<1>1. DOMAIN s = I /\ n \in Nat /\ \A k \in I : s[k] \in Int /\ k \in Int
  OBVIOUS
<1> HIDE DEF n
<1>2. \A i \in I : Place(s, i) \in I
  BY <1>1, PlaceGrows DEF n
<1>3. \A i, j \in I : i # j => Place(s, j) < Place(s, i) \/ Place(s, i) < Place(s, j)
  <2> SUFFICES ASSUME NEW i \in I, NEW j \in I, i # j
               PROVE  Place(s, j) < Place(s, i) \/ Place(s, i) < Place(s, j)
    OBVIOUS
  <2>1. j \in Before(s, i) \/ i \in Before(s, j)
    BY <1>1 DEF Before
  <2> QED
    BY <1>1, <2>1, PlaceGrows
<1>4. \A k \in I : \E i \in I : Place(s, i) = k
  <2>1. place \in [1 .. n -> 1 .. n] /\ \A i, j \in 1 .. n : place[i] = place[j] => i = j
    BY <1>2, <1>3
  <2>2. \A i \in I : place[i] = Place(s, i)
    OBVIOUS
  <2> HIDE DEF place
  <2>3. \A k \in 1 .. n : \E i \in 1 .. n : place[i] = k
    BY <1>1, <2>1, OneToOne
  <2> QED
    BY <2>2, <2>3
<1>5. \A k \in I : b[k] \in I /\ Place(s, b[k]) = k
  <2> SUFFICES ASSUME NEW k \in I PROVE b[k] \in I /\ Place(s, b[k]) = k
    OBVIOUS
  <2>1. (CHOOSE i \in I : Place(s, i) = k) \in I /\ Place(s, CHOOSE i \in I : Place(s, i) = k) = k
    <3> HIDE DEF I
    <3> QED
      BY <1>4, Zenon
  <2> QED
    BY <2>1
<1>6. Sorted(s) = [k \in I |-> s[b[k]]]
  <2>1. Sorted(s) = [k \in I |-> s[CHOOSE i \in I : Place(s, i) = k]]
    <3> HIDE DEF I
    <3> QED
      BY <1>1 DEF Sorted
  <2>2. \A k \in I : s[b[k]] = s[CHOOSE i \in I : Place(s, i) = k]
    OBVIOUS
  <2> HIDE DEF I, b
  <2> QED
    BY <2>1, <2>2
<1>7. Enumerates(b, n, I)
  <2>1. b \in [I -> I]
    <3>1. b = [k \in I |-> b[k]]
      OBVIOUS
    <3> HIDE DEF b
    <3> QED
      BY <1>5, <3>1
  <2>2. \A i, j \in I : b[i] = b[j] => i = j
    <3> HIDE DEF b, I
    <3> QED
      BY <1>5, Zenon
  <2>3. \A a \in I : \E k \in I : b[k] = a
    <3> SUFFICES ASSUME NEW a \in I PROVE b[Place(s, a)] = a
      BY <1>2
    <3>1. Place(s, a) \in I
      BY <1>2
    <3>2. b[Place(s, a)] \in I /\ Place(s, b[Place(s, a)]) = Place(s, a)
      BY <1>5, <3>1
    <3> HIDE DEF b
    <3>3. \A k \in I : Place(s, k) \in Int
      BY <1>2
    <3> QED
      BY <1>3, <3>2, <3>3
  <2> HIDE DEF b
  <2> QED
    BY <2>1, <2>2, <2>3 DEF Enumerates
<1> HIDE DEF b
<1>8. /\ Sorted(s) \in Seq(Int) /\ Len(Sorted(s)) = n /\ DOMAIN Sorted(s) = I
      /\ \A k \in I : Sorted(s)[k] = s[b[k]]
  <2>1. \A k \in I : s[b[k]] \in Int
    BY <1>1, <1>5
  <2> QED
    BY <1>1, <1>6, <2>1
<1>9. Ascending(Sorted(s))
  <2> SUFFICES ASSUME NEW i \in I, NEW j \in I, i <= j, ~(s[b[i]] <= s[b[j]]) PROVE FALSE
    BY <1>8 DEF Ascending
  <2>1. b[i] \in I /\ b[j] \in I /\ b[i] # b[j] /\ s[b[j]] < s[b[i]]
    BY <1>1, <1>5
  <2>2. b[j] \in Before(s, b[i])
    BY <1>1, <2>1 DEF Before
  <2>3. Place(s, b[j]) < Place(s, b[i])
    BY <1>1, <2>1, <2>2, PlaceGrows
  <2> QED
    BY <1>5, <2>3
<1> QED
  BY <1>7, <1>8, <1>9 DEF n

-----------------------------------------------------------------------------
(* heapq.merge                                                               *)

Left(p) == {w \in Workers : p[w] # <<>>}
FirstOf(p) == CHOOSE w \in Left(p) : \A v \in Left(p) : Head(p[w]) <= Head(p[v])
Behind(p) == [p EXCEPT ![FirstOf(p)] = Tail(@)]
Partitions == [Workers -> Seq(Int)]
\* The places of all partitions.
Slots(p) == UNION {{w} \X DOMAIN p[w] : w \in Workers}

MergeBy(m) ==
    m = [p \in Partitions |-> IF Left(p) = {} THEN <<>> ELSE <<Head(p[FirstOf(p)])>> \o m[Behind(p)]]

\* KWayMerge, as a recursion over all partitions.
LEMMA MergeFold == ASSUME NEW q PROVE KWayMerge(q) = (CHOOSE m : MergeBy(m))[q]
BY Zenon DEF KWayMerge, MergeBy, Left, FirstOf, Behind, Partitions

\* Among finitely many numbers one is the least.
LEMMA LeastOne ==
  ASSUME NEW W, IsFiniteSet(W), NEW h \in [W -> Int], NEW T \in SUBSET W, T # {}
  PROVE  \E w \in T : \A v \in T : h[w] <= h[v]
<1> DEFINE C == {U \in SUBSET W : U # {} => \E w \in U : \A v \in U : h[w] <= h[v]}
<1>1. {} \in C
  OBVIOUS
<1>2. ASSUME NEW U \in SUBSET W, NEW x \in W \ U, U \in C PROVE U \cup {x} \in C
  <2>1. CASE U = {}
    BY <2>1
  <2>2. CASE U # {}
    <3>1. PICK w \in U : \A v \in U : h[w] <= h[v]
      BY <1>2, <2>2
    <3>2. CASE h[w] <= h[x]
      BY <3>1, <3>2
    <3>3. CASE ~(h[w] <= h[x])
      <4>1. \A v \in U \cup {x} : h[x] <= h[v]
        BY <3>1, <3>3
      <4> QED
        BY <4>1
    <3> QED
      BY <3>2, <3>3
  <2> QED
    BY <2>1, <2>2
<1>3. SUBSET W \subseteq C
  <2> HIDE DEF C
  <2> QED
    BY <1>1, <1>2, SubsetInduction
<1> QED
  BY <1>3

\* One of the partitions that are left begins with the least number.
LEMMA FirstIs ==
  ASSUME IsFiniteSet(Workers), NEW p \in Partitions, Left(p) # {}
  PROVE  /\ FirstOf(p) \in Left(p) /\ \A v \in Left(p) : Head(p[FirstOf(p)]) <= Head(p[v])
         /\ FirstOf(p) \in Workers /\ p[FirstOf(p)] \in Seq(Int) /\ p[FirstOf(p)] # <<>>
<1> DEFINE h == [w \in Workers |-> IF p[w] = <<>> THEN 0 ELSE Head(p[w])]
<1>1. \A w \in Workers : p[w] \in Seq(Int)
  BY DEF Partitions
<1>2. h \in [Workers -> Int] /\ Left(p) \in SUBSET Workers
  BY <1>1 DEF Left
<1>3. \A w \in Left(p) : h[w] = Head(p[w])
  BY DEF Left
<1> HIDE DEF h
<1>4. \E w \in Left(p) : \A v \in Left(p) : h[w] <= h[v]
  BY <1>2, LeastOne
<1>5. \E w \in Left(p) : \A v \in Left(p) : Head(p[w]) <= Head(p[v])
  BY <1>3, <1>4
<1>6. FirstOf(p) \in Left(p) /\ \A v \in Left(p) : Head(p[FirstOf(p)]) <= Head(p[v])
  BY <1>5, Zenon DEF FirstOf
<1> QED
  BY <1>1, <1>6 DEF Left

\* A sequence is empty if it has no place.
LEMMA EmptySequence == ASSUME NEW s \in Seq(Int) PROVE (s = <<>> <=> Len(s) = 0) /\ (s = <<>> <=> DOMAIN s = {})
<1>1. Len(s) \in Nat /\ DOMAIN s = 1 .. Len(s)
  OBVIOUS
<1>2. ASSUME Len(s) = 0 PROVE s = <<>>
  BY <1>2
<1>3. ASSUME DOMAIN s = {} PROVE Len(s) = 0
  <2>1. Len(s) # 0 => 1 \in 1 .. Len(s)
    BY <1>1
  <2> QED
    BY <1>1, <1>3, <2>1
<1> QED
  BY <1>1, <1>2, <1>3

\* A slot is a worker and a place in its partition.
LEMMA SlotIs == ASSUME NEW p, NEW q PROVE q \in Slots(p) <=> \E w \in Workers : \E i \in DOMAIN p[w] : q = <<w, i>>
BY DEF Slots

\* There are finitely many, and none only if nothing is left.
LEMMA SlotsFinite ==
  ASSUME IsFiniteSet(Workers), NEW p \in Partitions
  PROVE  IsFiniteSet(Slots(p)) /\ Cardinality(Slots(p)) \in Nat /\ (Cardinality(Slots(p)) = 0 <=> Left(p) = {})
<1> DEFINE I == [w \in Workers |-> DOMAIN p[w]]
<1>1. \A w \in Workers : /\ p[w] \in Seq(Int) /\ DOMAIN p[w] = 1 .. Len(p[w]) /\ Len(p[w]) \in Nat
                         /\ (DOMAIN p[w] = {} <=> p[w] = <<>>)
  <2> SUFFICES ASSUME NEW w \in Workers
               PROVE  /\ p[w] \in Seq(Int) /\ DOMAIN p[w] = 1 .. Len(p[w]) /\ Len(p[w]) \in Nat
                      /\ (DOMAIN p[w] = {} <=> p[w] = <<>>)
    OBVIOUS
  <2>1. p[w] \in Seq(Int)
    BY DEF Partitions
  <2>2. DOMAIN p[w] = 1 .. Len(p[w]) /\ Len(p[w]) \in Nat
    BY <2>1
  <2>3. p[w] = <<>> <=> DOMAIN p[w] = {}
    BY <2>1, EmptySequence, Zenon
  <2> QED
    BY <2>1, <2>2, <2>3
<1>2. Slots(p) = Pairs(Workers, I)
  BY DEF Slots, Pairs
<1>3. \A w \in Workers : IsFiniteSet(I[w])
  BY <1>1, UpTo
<1>4. IsFiniteSet(Slots(p))
  <2> HIDE DEF I
  <2> QED
    BY <1>2, <1>3, PairsFinite
<1>5. Slots(p) = {} <=> Left(p) = {}
  <2>1. Slots(p) = {} <=> \A w \in Workers : DOMAIN p[w] = {}
    BY SlotIs, ZenonT(30)
  <2>2. Left(p) = {} <=> \A w \in Workers : p[w] = <<>>
    BY DEF Left
  <2> QED
    BY <1>1, <2>1, <2>2
<1> QED
  BY <1>4, <1>5, FS_CardinalityType, FS_EmptySet

\* What is left behind the first number has one place less, and its places are
\* those of before.
LEMMA BehindIs ==
  ASSUME IsFiniteSet(Workers), NEW p \in Partitions, Left(p) # {}
  PROVE  /\ Behind(p) \in Partitions
         /\ \A w \in Workers : Behind(p)[w] = IF w = FirstOf(p) THEN Tail(p[w]) ELSE p[w]
         /\ Slots(Behind(p)) = Slots(p) \ {<<FirstOf(p), Len(p[FirstOf(p)])>>}
         /\ Cardinality(Slots(Behind(p))) = Cardinality(Slots(p)) - 1
<1> DEFINE f == FirstOf(p)
<1>1. f \in Workers /\ p[f] \in Seq(Int) /\ p[f] # <<>> /\ p \in [Workers -> Seq(Int)]
  BY FirstIs DEF Partitions
<1>2. /\ Tail(p[f]) \in Seq(Int) /\ Len(Tail(p[f])) = Len(p[f]) - 1 /\ Len(p[f]) \in Nat \ {0}
      /\ DOMAIN p[f] = 1 .. Len(p[f]) /\ DOMAIN Tail(p[f]) = 1 .. Len(p[f]) - 1
  BY <1>1
<1> HIDE DEF f
<1>3. Behind(p) = [p EXCEPT ![f] = Tail(p[f])]
  BY DEF Behind, f
<1>4. \A w \in Workers : Behind(p)[w] = IF w = f THEN Tail(p[w]) ELSE p[w]
  BY <1>1, <1>3
<1>5. Behind(p) \in Partitions
  BY <1>1, <1>2, <1>3 DEF Partitions
<1>6. DOMAIN Tail(p[f]) = DOMAIN p[f] \ {Len(p[f])}
  BY <1>2
<1>7. Slots(Behind(p)) = Slots(p) \ {<<f, Len(p[f])>>}
  <2>1. \A q : q \in Slots(Behind(p)) <=> q \in Slots(p) /\ q # <<f, Len(p[f])>>
    <3> TAKE q
    <3>1. ASSUME q \in Slots(Behind(p)) PROVE q \in Slots(p) /\ q # <<f, Len(p[f])>>
      <4>1. PICK w \in Workers : \E i \in DOMAIN Behind(p)[w] : q = <<w, i>>
        BY <3>1, SlotIs
      <4>2. PICK i \in DOMAIN Behind(p)[w] : q = <<w, i>>
        BY <4>1
      <4>3. i \in DOMAIN p[w] /\ (w = f => i # Len(p[f]))
        BY <1>4, <1>6, <4>2
      <4> QED
        BY <4>2, <4>3, SlotIs
    <3>2. ASSUME q \in Slots(p), q # <<f, Len(p[f])>> PROVE q \in Slots(Behind(p))
      <4>1. PICK w \in Workers : \E i \in DOMAIN p[w] : q = <<w, i>>
        BY <3>2, SlotIs
      <4>2. PICK i \in DOMAIN p[w] : q = <<w, i>>
        BY <4>1
      <4>3. i \in DOMAIN Behind(p)[w]
        BY <1>4, <1>6, <3>2, <4>2
      <4> QED
        BY <4>2, <4>3, SlotIs
    <3> QED
      BY <3>1, <3>2
  <2> QED
    BY <2>1
<1>8. <<f, Len(p[f])>> \in Slots(p)
  BY <1>1, <1>2, SlotIs
<1>9. Cardinality(Slots(p) \ {<<f, Len(p[f])>>}) = Cardinality(Slots(p)) - 1
  BY <1>8, SlotsFinite, FS_RemoveElement, Zenon
<1> QED
  BY <1>4, <1>5, <1>7, <1>9 DEF f

\* The merge ends for all partitions: every step takes one number away.
LEMMA MergeExists == ASSUME IsFiniteSet(Workers) PROVE \E m \in [Partitions -> Seq(Int)] : MergeBy(m)
<1> DEFINE P == Partitions
           V == Seq(Int)
           measure == [p \in P |-> Cardinality(Slots(p))]
           next == [p \in P |-> IF Left(p) = {} THEN p ELSE Behind(p)]
           base == [p \in P |-> <<>>]
           head == [p \in P |-> IF Left(p) = {} THEN 0 ELSE Head(p[FirstOf(p)])]
           step == [p \in P |-> [v \in V |-> <<head[p]>> \o v]]
<1>1. \A p \in P : Cardinality(Slots(p)) \in Nat /\ (Cardinality(Slots(p)) = 0 <=> Left(p) = {})
  BY SlotsFinite
<1>2. \A p \in P : Left(p) # {} => Behind(p) \in P /\ Cardinality(Slots(Behind(p))) = Cardinality(Slots(p)) - 1
  BY BehindIs
<1>3. head \in [P -> Int]
  <2>1. ASSUME NEW p \in P, Left(p) # {} PROVE Head(p[FirstOf(p)]) \in Int
    <3>1. p[FirstOf(p)] \in Seq(Int) /\ p[FirstOf(p)] # <<>>
      BY <2>1, FirstIs
    <3> QED
      BY <3>1
  <2> QED
    BY <2>1
<1>4. measure \in [P -> Nat] /\ next \in [P -> P]
  BY <1>1, <1>2
<1>5. base \in [P -> V]
  OBVIOUS
<1>6. step \in [P -> [V -> V]]
  <2>1. \A p \in P : \A v \in V : <<head[p]>> \o v \in V
    <3> HIDE DEF head, P
    <3> QED
      BY <1>3
  <2> HIDE DEF V, head
  <2> QED
    BY <2>1
<1>7. \A p \in P : measure[p] # 0 => measure[next[p]] < measure[p]
  <2> SUFFICES ASSUME NEW p \in P, measure[p] # 0 PROVE measure[next[p]] < measure[p]
    OBVIOUS
  <2>1. Left(p) # {} /\ Behind(p) \in P /\ next[p] = Behind(p)
    BY <1>1, <1>2
  <2>2. measure[Behind(p)] = Cardinality(Slots(Behind(p))) /\ measure[p] = Cardinality(Slots(p))
    BY <2>1
  <2> HIDE DEF measure, next
  <2> QED
    BY <1>1, <1>2, <2>1, <2>2
<1>8. PICK m \in [P -> V] : Recursive(m, P, measure, next, base, step)
  <2> HIDE DEF P, V, measure, next, base, step
  <2> QED
    BY <1>4, <1>5, <1>6, <1>7, Recursion
<1>9. ASSUME NEW p \in P
      PROVE  m[p] = IF Left(p) = {} THEN <<>> ELSE <<Head(p[FirstOf(p)])>> \o m[Behind(p)]
  <2>1. m[p] = IF measure[p] = 0 THEN base[p] ELSE step[p][m[next[p]]]
    <3> HIDE DEF measure, base, step, next
    <3> QED
      BY <1>8, Zenon DEF Recursive
  <2>2. measure[p] = 0 <=> Left(p) = {}
    BY <1>1
  <2>3. CASE Left(p) = {}
    BY <2>1, <2>2, <2>3
  <2>4. CASE Left(p) # {}
    <3>1. m[p] = step[p][m[next[p]]]
      <4> HIDE DEF measure, base, step, next
      <4> QED
        BY <2>1, <2>2, <2>4, Zenon
    <3>2. next[p] = Behind(p) /\ Behind(p) \in P /\ m[Behind(p)] \in V /\ head[p] = Head(p[FirstOf(p)])
      BY <1>2, <2>4
    <3>3. step[p][m[Behind(p)]] = <<head[p]>> \o m[Behind(p)]
      <4> HIDE DEF head, V
      <4> QED
        BY <3>2
    <3> HIDE DEF measure, base, step, next, head
    <3> QED
      BY <2>4, <3>1, <3>2, <3>3, Zenon
  <2> QED
    BY <2>3, <2>4
<1>10. MergeBy(m)
  <2>1. m = [p \in P |-> m[p]]
    OBVIOUS
  <2>2. m = [p \in P |-> IF Left(p) = {} THEN <<>> ELSE <<Head(p[FirstOf(p)])>> \o m[Behind(p)]]
    BY <1>9, <2>1, Zenon
  <2> QED
    BY <2>2, Zenon DEF MergeBy
<1> QED
  BY <1>10

\* M is what p holds, in order.
Merges(M, p) ==
    /\ M \in Seq(Int) /\ Ascending(M)
    /\ \E c : Enumerates(c, Len(M), Slots(p)) /\ \A k \in 1 .. Len(M) : M[k] = p[c[k][1]][c[k][2]]

\* The least of the first numbers of ordered partitions, and what is behind it.
LEMMA MergeStep ==
  ASSUME IsFiniteSet(Workers), NEW p \in Partitions, \A w \in Workers : Ascending(p[w]), Left(p) # {},
         NEW N, Merges(N, Behind(p))
  PROVE  Merges(<<Head(p[FirstOf(p)])>> \o N, p)
<1> DEFINE f == FirstOf(p)
           q == Behind(p)
           M == <<Head(p[f])>> \o N
           n == Len(N)
<1>1. /\ f \in Workers /\ p[f] \in Seq(Int) /\ p[f] # <<>>
      /\ \A v \in Left(p) : Head(p[f]) <= Head(p[v])
      /\ \A w \in Workers : p[w] \in Seq(Int)
  BY FirstIs DEF Partitions
<1>2. \A w \in Workers : q[w] = IF w = f THEN Tail(p[w]) ELSE p[w]
  BY BehindIs
<1> HIDE DEF f, q
<1>3. N \in Seq(Int) /\ n \in Nat /\ Ascending(N)
  BY DEF Merges, q
<1>4. PICK c : Enumerates(c, n, Slots(q)) /\ \A k \in 1 .. n : N[k] = q[c[k][1]][c[k][2]]
  BY DEF Merges, q
<1>5. Head(p[f]) = p[f][1] /\ p[f][1] \in Int /\ 1 \in DOMAIN p[f] /\ Len(p[f]) \in Nat \ {0}
  BY <1>1
<1>6. /\ M \in Seq(Int) /\ Len(M) = n + 1 /\ M[1] = p[f][1] /\ DOMAIN M = 1 .. n + 1
      /\ \A k \in 1 .. n : M[k + 1] = N[k]
  BY <1>3, <1>5
<1> DEFINE Shift(a) == IF a[1] = f THEN <<f, a[2] + 1>> ELSE a
           d == [k \in 1 .. n + 1 |-> IF k = 1 THEN <<f, 1>> ELSE Shift(c[k - 1])]
<1>7. DOMAIN p[f] = 1 .. Len(p[f]) /\ DOMAIN Tail(p[f]) = 1 .. Len(p[f]) - 1
      /\ \A i \in DOMAIN Tail(p[f]) : Tail(p[f])[i] = p[f][i + 1]
  BY <1>1, <1>5
\* A place behind the first number, and the same place among all.
<1>8. ASSUME NEW a \in Slots(q)
      PROVE  /\ a = <<a[1], a[2]>> /\ a[1] \in Workers /\ a[2] \in DOMAIN q[a[1]] /\ a[2] \in Nat \ {0}
             /\ Shift(a) \in Slots(p) /\ Shift(a) # <<f, 1>>
             /\ Shift(a)[1] = a[1] /\ Shift(a)[2] = IF a[1] = f THEN a[2] + 1 ELSE a[2]
             /\ q[a[1]][a[2]] = p[Shift(a)[1]][Shift(a)[2]]
  <2>1. PICK w \in Workers : \E i \in DOMAIN q[w] : a = <<w, i>>
    BY SlotIs
  <2>2. PICK i \in DOMAIN q[w] : a = <<w, i>>
    BY <2>1
  <2>3. a[1] = w /\ a[2] = i
    BY <2>2
  <2>4. CASE w = f
    <3>1. q[f] = Tail(p[f]) /\ i \in 1 .. Len(p[f]) - 1 /\ q[f][i] = p[f][i + 1]
      BY <1>1, <1>2, <1>7, <2>2, <2>4
    <3>2. i \in Nat \ {0} /\ i + 1 \in DOMAIN p[f] /\ i + 1 # 1
      BY <1>5, <1>7, <3>1
    <3>3. Shift(a) = <<f, i + 1>>
      BY <2>3, <2>4
    <3>4. Shift(a) \in Slots(p)
      BY <1>1, <3>2, <3>3, SlotIs
    <3> QED
      BY <1>1, <2>2, <2>3, <2>4, <3>1, <3>2, <3>3, <3>4
  <2>5. CASE w # f
    <3>1. q[w] = p[w] /\ Shift(a) = a /\ p[w] \in Seq(Int)
      BY <1>1, <1>2, <2>3, <2>5
    <3>2. i \in DOMAIN p[w] /\ i \in Nat \ {0}
      BY <2>2, <3>1
    <3>3. a \in Slots(p)
      BY <2>2, <3>2, SlotIs
    <3> QED
      BY <2>2, <2>3, <2>5, <3>1, <3>2, <3>3
  <2> QED
    BY <2>4, <2>5
<1>9. <<f, 1>> \in Slots(p)
  BY <1>1, <1>5, SlotIs
<1>10. /\ d = [k \in 1 .. n + 1 |-> d[k]] /\ d[1] = <<f, 1>>
       /\ \A k \in 2 .. n + 1 : /\ k - 1 \in 1 .. n /\ c[k - 1] \in Slots(q)
                                /\ d[k] = Shift(c[k - 1])
  <2>1. d[1] = <<f, 1>>
    BY <1>3
  <2>2. \A k \in 2 .. n + 1 : k - 1 \in 1 .. n /\ c[k - 1] \in Slots(q)
    BY <1>3, <1>4 DEF Enumerates
  <2>3. \A k \in 2 .. n + 1 : k \in 1 .. n + 1 /\ k # 1
    BY <1>3
  <2>4. \A k \in 2 .. n + 1 : d[k] = Shift(c[k - 1])
    BY <2>3
  <2>5. d = [k \in 1 .. n + 1 |-> d[k]]
    OBVIOUS
  <2> HIDE DEF d, Shift
  <2> QED
    BY <2>1, <2>2, <2>4, <2>5
<1> HIDE DEF d, Shift, M, n
<1>11. ASSUME NEW k \in 2 .. n + 1 PROVE d[k] \in Slots(p) /\ d[k] # <<f, 1>>
  <2>1. c[k - 1] \in Slots(q) /\ d[k] = Shift(c[k - 1])
    BY <1>10
  <2>2. Shift(c[k - 1]) \in Slots(p) /\ Shift(c[k - 1]) # <<f, 1>>
    BY <1>8, <2>1
  <2> QED
    BY <2>1, <2>2
<1>12. d \in [1 .. n + 1 -> Slots(p)]
  <2>1. \A k \in 1 .. n + 1 : k = 1 \/ k \in 2 .. n + 1
    BY <1>3
  <2>2. \A k \in 2 .. n + 1 : d[k] \in Slots(p)
    BY <1>11
  <2>3. d[1] \in Slots(p)
    BY <1>9, <1>10, Zenon
  <2>4. \A k \in 1 .. n + 1 : d[k] \in Slots(p)
    BY <2>1, <2>2, <2>3, Zenon
  <2>5. d = [k \in 1 .. n + 1 |-> d[k]]
    BY <1>10, Zenon
  <2> QED
    BY <2>4, <2>5
<1>13. ASSUME NEW i \in 1 .. n + 1, NEW j \in 1 .. n + 1, d[i] = d[j] PROVE i = j
  <2>1. (i = 1 \/ i \in 2 .. n + 1) /\ (j = 1 \/ j \in 2 .. n + 1)
    BY <1>3
  <2>2. CASE i = 1 \/ j = 1
    <3>1. \A k \in 2 .. n + 1 : d[k] # d[1]
      BY <1>10, <1>11
    <3> QED
      BY <1>13, <2>1, <2>2, <3>1, Zenon
  <2>3. CASE i \in 2 .. n + 1 /\ j \in 2 .. n + 1
    <3>1. /\ c[i - 1] \in Slots(q) /\ c[j - 1] \in Slots(q) /\ i - 1 \in 1 .. n /\ j - 1 \in 1 .. n
          /\ Shift(c[i - 1]) = Shift(c[j - 1])
      BY <1>13, <1>10, <2>3
    <3>2. c[i - 1][1] = c[j - 1][1] /\ c[i - 1][2] \in Nat /\ c[j - 1][2] \in Nat
      BY <1>8, <3>1
    <3>3. /\ Shift(c[i - 1])[2] = IF c[i - 1][1] = f THEN c[i - 1][2] + 1 ELSE c[i - 1][2]
          /\ Shift(c[j - 1])[2] = IF c[j - 1][1] = f THEN c[j - 1][2] + 1 ELSE c[j - 1][2]
      BY <1>8, <3>1
    <3>4. c[i - 1][2] = c[j - 1][2]
      BY <3>1, <3>2, <3>3
    <3>5. c[i - 1] = <<c[i - 1][1], c[i - 1][2]>> /\ c[j - 1] = <<c[j - 1][1], c[j - 1][2]>>
      BY <1>8, <3>1
    <3>6. c[i - 1] = c[j - 1]
      BY <3>2, <3>4, <3>5, Zenon
    <3>7. i - 1 = j - 1
      BY <1>4, <3>1, <3>6 DEF Enumerates
    <3> QED
      BY <3>7
  <2> QED
    BY <2>1, <2>2, <2>3
<1>14. ASSUME NEW a \in Slots(p) PROVE \E k \in 1 .. n + 1 : d[k] = a
  <2>1. PICK w \in Workers : \E i \in DOMAIN p[w] : a = <<w, i>>
    BY SlotIs
  <2>2. PICK i \in DOMAIN p[w] : a = <<w, i>>
    BY <2>1
  <2>3. CASE w = f /\ i = 1
    <3>1. 1 \in 1 .. n + 1
      BY <1>3
    <3>2. d[1] = a
      BY <1>10, <2>2, <2>3, Zenon
    <3> QED
      BY <3>1, <3>2
  <2>4. ASSUME NEW b \in Slots(q), Shift(b) = a PROVE \E k \in 1 .. n + 1 : d[k] = a
    <3>1. PICK k \in 1 .. n : c[k] = b
      BY <1>4 DEF Enumerates
    <3>2. k + 1 \in 2 .. n + 1 /\ (k + 1) - 1 = k /\ k + 1 \in 1 .. n + 1
      BY <1>3
    <3>3. d[k + 1] = Shift(c[(k + 1) - 1])
      BY <1>10, <3>2
    <3>4. d[k + 1] = a
      BY <2>4, <3>1, <3>2, <3>3
    <3> QED
      BY <3>2, <3>4
  <2>5. CASE w = f /\ i # 1
    <3>0. q[f] = Tail(p[f]) /\ i \in DOMAIN p[f]
      BY <1>1, <1>2, <2>2, <2>5, Zenon
    <3>1. i \in 1 .. Len(p[f]) /\ i - 1 \in DOMAIN q[f] /\ (i - 1) + 1 = i
      BY <1>5, <1>7, <2>5, <3>0
    <3>2. <<f, i - 1>> \in Slots(q)
      BY <1>1, <3>1, SlotIs
    <3>3. Shift(<<f, i - 1>>) = a
      BY <2>2, <2>5, <3>1 DEF Shift
    <3> QED
      BY <2>4, <3>2, <3>3
  <2>6. CASE w # f
    <3>1. a \in Slots(q)
      BY <1>2, <2>2, <2>6, SlotIs
    <3>2. Shift(a) = a
      BY <2>2, <2>6 DEF Shift
    <3> QED
      BY <2>4, <3>1, <3>2
  <2> QED
    BY <2>3, <2>5, <2>6
<1>15. \A k \in 1 .. n + 1 : M[k] = p[d[k][1]][d[k][2]]
  <2> SUFFICES ASSUME NEW k \in 1 .. n + 1 PROVE M[k] = p[d[k][1]][d[k][2]]
    OBVIOUS
  <2>1. CASE k = 1
    BY <1>6, <1>10, <2>1
  <2>2. CASE k # 1
    <3>1. k \in 2 .. n + 1 /\ k - 1 \in 1 .. n /\ (k - 1) + 1 = k
      BY <1>3, <2>2
    <3>2. M[k] = N[k - 1] /\ N[k - 1] = q[c[k - 1][1]][c[k - 1][2]]
      BY <1>4, <1>6, <3>1
    <3>3. c[k - 1] \in Slots(q) /\ d[k] = Shift(c[k - 1])
      BY <1>10, <3>1
    <3>4. q[c[k - 1][1]][c[k - 1][2]] = p[Shift(c[k - 1])[1]][Shift(c[k - 1])[2]]
      BY <1>8, <3>3
    <3> QED
      BY <3>2, <3>3, <3>4, Zenon
  <2> QED
    BY <2>1, <2>2
<1>16. Ascending(M)
  <2> SUFFICES ASSUME NEW i \in 1 .. n + 1, NEW j \in 1 .. n + 1, i <= j PROVE M[i] <= M[j]
    BY <1>6 DEF Ascending
  <2>1. CASE i = 1
    <3>1. d[j] \in Slots(p) /\ M[j] = p[d[j][1]][d[j][2]]
      BY <1>12, <1>15
    <3>2. PICK w \in Workers : \E x \in DOMAIN p[w] : d[j] = <<w, x>>
      BY <3>1, SlotIs
    <3>3. PICK x \in DOMAIN p[w] : d[j] = <<w, x>>
      BY <3>2
    <3>4. M[j] = p[w][x]
      BY <3>1, <3>3
    <3>5. p[w] \in Seq(Int) /\ p[w] # <<>> /\ Ascending(p[w])
      BY <1>1
    <3>6. 1 \in DOMAIN p[w] /\ 1 <= x /\ Head(p[w]) = p[w][1] /\ p[w][1] \in Int /\ p[w][x] \in Int
      BY <3>5
    <3>7. p[w][1] <= p[w][x]
      BY <3>5, <3>6 DEF Ascending
    <3>8. p[f][1] <= p[w][1]
      BY <1>1, <1>5, <3>5, <3>6 DEF Left
    <3> QED
      BY <1>5, <1>6, <2>1, <3>4, <3>6, <3>7, <3>8
  <2>2. CASE i # 1
    <3>1. /\ i - 1 \in 1 .. n /\ j - 1 \in 1 .. n /\ i - 1 <= j - 1
          /\ (i - 1) + 1 = i /\ (j - 1) + 1 = j
      BY <1>3, <2>2
    <3>2. DOMAIN N = 1 .. n
      BY <1>3 DEF n
    <3>3. N[i - 1] <= N[j - 1]
      BY <1>3, <3>1, <3>2 DEF Ascending
    <3>4. M[(i - 1) + 1] = N[i - 1] /\ M[(j - 1) + 1] = N[j - 1]
      BY <1>6, <3>1
    <3> QED
      BY <3>1, <3>3, <3>4
  <2> QED
    BY <2>1, <2>2
<1>17. Enumerates(d, Len(M), Slots(p)) /\ \A k \in 1 .. Len(M) : M[k] = p[d[k][1]][d[k][2]]
  BY <1>6, <1>12, <1>13, <1>14, <1>15 DEF Enumerates
<1>18. Merges(M, p)
  BY <1>6, <1>16, <1>17 DEF Merges
<1> QED
  BY <1>18 DEF M, f

\* heapq.merge gives every number of every partition, in order.
LEMMA MergeIs ==
  ASSUME IsFiniteSet(Workers), NEW p \in Partitions, \A w \in Workers : Ascending(p[w])
  PROVE  Merges(KWayMerge(p), p)
<1> DEFINE m == CHOOSE m : MergeBy(m)
<1>1. MergeBy(m)
  BY MergeExists, Zenon
<1> HIDE DEF m
<1>2. \A r \in Partitions : m[r] = IF Left(r) = {} THEN <<>> ELSE <<Head(r[FirstOf(r)])>> \o m[Behind(r)]
  BY <1>1, Zenon DEF MergeBy
<1> DEFINE Ordered(r) == \A w \in Workers : Ascending(r[w])
           T == {n \in Nat : \A r \in Partitions : Cardinality(Slots(r)) = n /\ Ordered(r) => Merges(m[r], r)}
<1>3. 0 \in T
  <2> SUFFICES ASSUME NEW r \in Partitions, Cardinality(Slots(r)) = 0 PROVE Merges(m[r], r)
    OBVIOUS
  <2>1. Left(r) = {} /\ Slots(r) = {}
    BY SlotsFinite, FS_EmptySet
  <2>2. m[r] = <<>>
    BY <1>2, <2>1
  <2>3. Enumerates(<<>>, 0, {})
    BY DEF Enumerates
  <2>4. Merges(<<>>, r)
    <3>1. <<>> \in Seq(Int) /\ Len(<<>>) = 0 /\ Ascending(<<>>) /\ \A k \in 1 .. 0 : FALSE
      BY DEF Ascending
    <3> QED
      BY <2>1, <2>3, <3>1 DEF Merges
  <2> QED
    BY <2>2, <2>4
<1>4. ASSUME NEW n \in Nat, n \in T PROVE n + 1 \in T
  <2> SUFFICES ASSUME NEW r \in Partitions, Cardinality(Slots(r)) = n + 1, Ordered(r) PROVE Merges(m[r], r)
    OBVIOUS
  <2>1. Left(r) # {}
    BY SlotsFinite
  <2>2. Behind(r) \in Partitions /\ Cardinality(Slots(Behind(r))) = n
    BY <2>1, BehindIs
  <2>3. Ordered(Behind(r))
    <3> SUFFICES ASSUME NEW w \in Workers PROVE Ascending(Behind(r)[w])
      OBVIOUS
    <3>1. CASE w = FirstOf(r)
      <4> DEFINE s == r[w]
      <4>1. s \in Seq(Int) /\ s # <<>> /\ Behind(r)[w] = Tail(s) /\ Ascending(s)
        BY <2>1, <3>1, FirstIs, BehindIs
      <4> HIDE DEF s
      <4>2. /\ DOMAIN Tail(s) = 1 .. Len(s) - 1 /\ DOMAIN s = 1 .. Len(s) /\ Len(s) \in Nat
            /\ \A i \in 1 .. Len(s) - 1 : Tail(s)[i] = s[i + 1]
        BY <4>1
      <4>3. Ascending(Tail(s))
        BY <4>1, <4>2, SMTT(30) DEF Ascending
      <4> QED
        BY <4>1, <4>3
    <3>2. CASE w # FirstOf(r)
      <4>1. Behind(r)[w] = r[w]
        BY <2>1, <3>2, BehindIs
      <4> QED
        BY <4>1
    <3> QED
      BY <3>1, <3>2
  <2>4. Merges(m[Behind(r)], Behind(r))
    BY <1>4, <2>2, <2>3
  <2>5. Merges(<<Head(r[FirstOf(r)])>> \o m[Behind(r)], r)
    BY <2>1, <2>4, MergeStep
  <2>6. m[r] = <<Head(r[FirstOf(r)])>> \o m[Behind(r)]
    BY <1>2, <2>1
  <2> QED
    BY <2>5, <2>6
<1>5. Nat \subseteq T
  <2> HIDE DEF T
  <2> QED
    BY <1>3, <1>4, NumberInduction
<1>6. Merges(m[p], p)
  <2>1. Cardinality(Slots(p)) \in Nat
    BY SlotsFinite
  <2> QED
    BY <1>5, <2>1
<1> QED
  BY <1>6, MergeFold, Zenon DEF m

-----------------------------------------------------------------------------
(* The reference of the median                                               *)

\* A part of what is numbered has as many members as numbers.
LEMMA Numbered ==
  ASSUME NEW n \in Nat, NEW A, NEW c, Enumerates(c, n, A), NEW S \in SUBSET A, NEW k \in 1 .. n
  PROVE  /\ IsFiniteSet(S) /\ Cardinality(S) \in Nat
         /\ (\A i \in 1 .. n : c[i] \in S => i < k) => Cardinality(S) < k
         /\ (\A i \in 1 .. k : c[i] \in S) => Cardinality(S) >= k
<1> DEFINE J == {i \in 1 .. n : c[i] \in S}
           h == [i \in J |-> c[i]]
<1>1. J \in SUBSET (1 .. n) /\ IsFiniteSet(1 .. n)
  BY UpTo
<1>2. IsFiniteSet(J)
  <2> HIDE DEF J
  <2> QED
    BY <1>1, FS_Subset
<1>3. h \in [J -> S] /\ \A i, j \in J : h[i] = h[j] => i = j
  BY DEF Enumerates
<1>4. \A a \in S : \E i \in J : h[i] = a
  <2> SUFFICES ASSUME NEW a \in S PROVE \E i \in J : h[i] = a
    OBVIOUS
  <2>1. PICK i \in 1 .. n : c[i] = a
    BY DEF Enumerates
  <2>2. i \in J /\ h[i] = a
    BY <2>1
  <2> QED
    BY <2>2
<1>5. h \in Bijection(J, S)
  <2> HIDE DEF h, J
  <2>1. h \in Injection(J, S)
    BY <1>3, Fun_IsInj
  <2>2. h \in Surjection(J, S)
    BY <1>3, <1>4, Fun_IsSurj
  <2> QED
    BY <2>1, <2>2 DEF Bijection
<1>6. ExistsBijection(J, S)
  <2> HIDE DEF h, J
  <2> QED
    BY <1>5 DEF ExistsBijection
<1>7. IsFiniteSet(S) /\ Cardinality(S) = Cardinality(J)
  <2> HIDE DEF J
  <2> QED
    BY <1>2, <1>6, FS_Bijection
<1>8. Cardinality(S) \in Nat
  BY <1>7, FS_CardinalityType
<1>9. ASSUME \A i \in 1 .. n : c[i] \in S => i < k PROVE Cardinality(S) < k
  <2>1. J \in SUBSET (1 .. k - 1) /\ k - 1 \in Nat
    BY <1>9
  <2>2. IsFiniteSet(1 .. k - 1) /\ Cardinality(1 .. k - 1) = k - 1
    BY <2>1, UpTo
  <2> HIDE DEF J
  <2>3. Cardinality(J) <= Cardinality(1 .. k - 1)
    BY <2>1, <2>2, FS_Subset
  <2> QED
    BY <1>7, <1>8, <2>2, <2>3
<1>10. ASSUME \A i \in 1 .. k : c[i] \in S PROVE Cardinality(S) >= k
  <2>1. 1 .. k \in SUBSET J /\ k \in Nat
    BY <1>10
  <2>2. Cardinality(1 .. k) = k
    BY <2>1, UpTo
  <2> HIDE DEF J
  <2>3. Cardinality(1 .. k) <= Cardinality(J)
    BY <1>2, <2>1, FS_Subset
  <2> QED
    BY <1>7, <1>8, <2>2, <2>3
<1> QED
  BY <1>7, <1>8, <1>9, <1>10

\* What is numbered up to n has n members.
LEMMA HowMany ==
  ASSUME NEW n \in Nat, NEW A, NEW c, Enumerates(c, n, A)
  PROVE  Cardinality(A) = n
<1>1. c \in Bijection(1 .. n, A)
  <2> DEFINE I == 1 .. n
  <2>1. c \in [I -> A] /\ (\A i, j \in I : c[i] = c[j] => i = j) /\ \A a \in A : \E i \in I : c[i] = a
    BY DEF Enumerates
  <2> HIDE DEF I
  <2>2. c \in Injection(I, A)
    BY <2>1, Fun_IsInj
  <2>3. c \in Surjection(I, A)
    BY <2>1, Fun_IsSurj
  <2>4. c \in Bijection(I, A)
    BY <2>2, <2>3 DEF Bijection
  <2> QED
    BY <2>4 DEF I
<1>2. ExistsBijection(1 .. n, A)
  BY <1>1 DEF ExistsBijection
<1> QED
  BY <1>2, FS_CountingElements

\* In an ascending enumeration of all numbers the k-th is the k-th smallest.
LEMMA KthIs ==
  ASSUME NEW M \in Seq(Int), Ascending(M), NEW c, Enumerates(c, Len(M), AllNumbers),
         \A i \in 1 .. Len(M) : M[i] = At(c[i]), NEW k \in 1 .. Len(M)
  PROVE  KthSmallest(k) = M[k]
<1> DEFINE n == Len(M)
           Below(u) == {p \in AllNumbers : At(p) < u}
           UpTo_(u) == {p \in AllNumbers : At(p) <= u}
           Kth(v) == Cardinality(Below(v)) < k /\ Cardinality(UpTo_(v)) >= k
<1>1. n \in Nat /\ DOMAIN M = 1 .. n /\ \A i \in 1 .. n : M[i] \in Int /\ i \in Int
  OBVIOUS
<1>2. \A i \in 1 .. n : c[i] \in AllNumbers /\ M[i] = At(c[i])
  BY DEF Enumerates
<1>3. \A i, j \in 1 .. n : i <= j => M[i] <= M[j]
  BY <1>1 DEF Ascending
<1>4. Enumerates(c, n, AllNumbers) /\ k \in 1 .. n
  OBVIOUS
<1> HIDE DEF n
<1>5. Kth(M[k])
  <2>1. \A i \in 1 .. n : c[i] \in Below(M[k]) => i < k
    <3> SUFFICES ASSUME NEW i \in 1 .. n, c[i] \in Below(M[k]), ~(i < k) PROVE FALSE
      OBVIOUS
    <3>1. M[i] < M[k] /\ k <= i
      BY <1>1, <1>2, <1>4
    <3> QED
      BY <1>1, <1>3, <1>4, <3>1
  <2>2. \A i \in 1 .. k : c[i] \in UpTo_(M[k])
    <3> SUFFICES ASSUME NEW i \in 1 .. k PROVE c[i] \in UpTo_(M[k])
      OBVIOUS
    <3>1. i \in 1 .. n /\ i <= k
      BY <1>1, <1>4
    <3> QED
      BY <1>2, <1>3, <1>4, <3>1
  <2>3. Below(M[k]) \in SUBSET AllNumbers /\ UpTo_(M[k]) \in SUBSET AllNumbers
    OBVIOUS
  <2> HIDE DEF Below, UpTo_
  <2>4. Cardinality(Below(M[k])) < k
    BY <1>1, <1>4, <2>1, <2>3, Numbered
  <2>5. Cardinality(UpTo_(M[k])) >= k
    BY <1>1, <1>4, <2>2, <2>3, Numbered
  <2> QED
    BY <2>4, <2>5
<1>6. ASSUME NEW u \in {At(p) : p \in AllNumbers}, Kth(u) PROVE u = M[k]
  <2>1. PICK p \in AllNumbers : u = At(p)
    BY <1>6
  <2>2. PICK j \in 1 .. n : c[j] = p
    BY <1>4 DEF Enumerates
  <2>3. u \in Int /\ M[k] \in Int
    BY <1>1, <1>2, <1>4, <2>1, <2>2
  <2>4. CASE u < M[k]
    <3>1. \A i \in 1 .. n : c[i] \in UpTo_(u) => i < k
      <4> SUFFICES ASSUME NEW i \in 1 .. n, c[i] \in UpTo_(u), ~(i < k) PROVE FALSE
        OBVIOUS
      <4>1. M[i] <= u /\ k <= i
        BY <1>1, <1>2, <1>4
      <4>2. M[k] <= M[i]
        BY <1>3, <1>4, <4>1
      <4> QED
        BY <1>1, <2>3, <2>4, <4>1, <4>2
    <3>2. UpTo_(u) \in SUBSET AllNumbers
      OBVIOUS
    <3> HIDE DEF UpTo_
    <3>3. Cardinality(UpTo_(u)) < k /\ Cardinality(UpTo_(u)) \in Nat
      BY <1>1, <1>4, <3>1, <3>2, Numbered
    <3> QED
      BY <1>1, <1>4, <1>6, <3>3
  <2>5. CASE M[k] < u
    <3>1. \A i \in 1 .. k : c[i] \in Below(u)
      <4> SUFFICES ASSUME NEW i \in 1 .. k PROVE c[i] \in Below(u)
        OBVIOUS
      <4>1. i \in 1 .. n /\ i <= k
        BY <1>1, <1>4
      <4>2. M[i] <= M[k] /\ M[i] \in Int
        BY <1>1, <1>3, <1>4, <4>1
      <4>3. M[i] < u
        BY <2>3, <2>5, <4>2
      <4> QED
        BY <1>2, <4>1, <4>3
    <3>2. Below(u) \in SUBSET AllNumbers
      OBVIOUS
    <3> HIDE DEF Below
    <3>3. Cardinality(Below(u)) >= k /\ Cardinality(Below(u)) \in Nat
      BY <1>1, <1>4, <3>1, <3>2, Numbered
    <3> QED
      BY <1>1, <1>4, <1>6, <3>3
  <2> QED
    BY <2>3, <2>4, <2>5
<1>7. M[k] \in {At(p) : p \in AllNumbers}
  BY <1>2, <1>4
<1>8. KthSmallest(k) = CHOOSE v \in {At(p) : p \in AllNumbers} : Kth(v)
  BY Zenon DEF KthSmallest
<1> HIDE DEF Kth
<1> QED
  BY <1>5, <1>6, <1>7, <1>8, Zenon

\* median.coordinate: the merge is empty only if nobody holds a number, and else its
\* middle is the middle of all numbers of all workers.
LEMMA MedianIs ==
  ASSUME IsFiniteSet(Workers), local \in Partitions, skill = "median", Gathered = Workers
  PROVE  /\ Merged = <<>> => Count = 0
         /\ Merged # <<>> => /\ Count > 0
                             /\ DoubledMedian(Merged) = KthSmallest((Count + 1) \div 2) + KthSmallest((Count + 2) \div 2)
<1> DEFINE P == [w \in Workers |-> Sorted(local[w])]
           Place_(w, b) == /\ Enumerates(b, Len(local[w]), 1 .. Len(local[w]))
                           /\ \A k \in 1 .. Len(local[w]) : Sorted(local[w])[k] = local[w][b[k]]
           B == [w \in Workers |-> CHOOSE b : Place_(w, b)]
           M == Merged
           n == Len(M)
<1>1. \A w \in Workers : local[w] \in Seq(Int) /\ DOMAIN local[w] = 1 .. Len(local[w]) /\ Len(local[w]) \in Nat
  BY DEF Partitions
<1>2. \A w \in Workers : /\ P[w] = Sorted(local[w]) /\ P[w] \in Seq(Int) /\ Ascending(P[w])
                         /\ DOMAIN P[w] = 1 .. Len(local[w]) /\ Place_(w, B[w])
  <2> SUFFICES ASSUME NEW w \in Workers
               PROVE  /\ P[w] = Sorted(local[w]) /\ P[w] \in Seq(Int) /\ Ascending(P[w])
                      /\ DOMAIN P[w] = 1 .. Len(local[w]) /\ Place_(w, B[w])
    OBVIOUS
  <2>1. P[w] = Sorted(local[w]) /\ B[w] = CHOOSE b : Place_(w, b)
    OBVIOUS
  <2>2. /\ Sorted(local[w]) \in Seq(Int) /\ Len(Sorted(local[w])) = Len(local[w]) /\ Ascending(Sorted(local[w]))
        /\ \E b : Place_(w, b)
    BY <1>1, SortedIs
  <2>3. Place_(w, CHOOSE b : Place_(w, b))
    <3> HIDE DEF Place_
    <3> QED
      BY <2>2, Zenon
  <2> HIDE DEF P, B, Place_
  <2> QED
    BY <2>1, <2>2, <2>3
<1>3. P \in Partitions
  BY <1>2 DEF Partitions
<1>4. M = KWayMerge(P)
  <2>1. \A w \in Workers : (IF w \in Gathered THEN Stored(w) ELSE <<>>) = Sorted(local[w])
    BY DEF Stored
  <2>2. [w \in Workers |-> IF w \in Gathered THEN Stored(w) ELSE <<>>] = P
    BY <2>1
  <2> QED
    BY <2>2, Zenon DEF Merged
<1>5. Merges(M, P)
  <2> HIDE DEF P, M
  <2> QED
    BY <1>2, <1>3, <1>4, MergeIs
<1>6. M \in Seq(Int) /\ Ascending(M) /\ n \in Nat
  BY <1>5 DEF Merges
<1>7. PICK c : Enumerates(c, n, Slots(P)) /\ \A k \in 1 .. n : M[k] = P[c[k][1]][c[k][2]]
  BY <1>5 DEF Merges
<1> DEFINE e == [k \in 1 .. n |-> <<c[k][1], B[c[k][1]][c[k][2]]>>]
<1> HIDE DEF P, B, M, n
<1>8. \A p : p \in AllNumbers <=> \E w \in Workers : \E i \in DOMAIN local[w] : p = <<w, i>>
  BY DEF AllNumbers
<1>9. ASSUME NEW w \in Workers
      PROVE  /\ \A i \in DOMAIN P[w] : B[w][i] \in DOMAIN local[w] /\ P[w][i] = local[w][B[w][i]]
             /\ \A i, j \in DOMAIN P[w] : B[w][i] = B[w][j] => i = j
             /\ \A a \in DOMAIN local[w] : \E i \in DOMAIN P[w] : B[w][i] = a
  <2>1. Place_(w, B[w]) /\ DOMAIN P[w] = 1 .. Len(local[w]) /\ P[w] = Sorted(local[w])
    BY <1>2
  <2>2. DOMAIN local[w] = 1 .. Len(local[w])
    BY <1>1
  <2> QED
    BY <2>1, <2>2 DEF Enumerates
<1>10. ASSUME NEW k \in 1 .. n
       PROVE  /\ c[k] = <<c[k][1], c[k][2]>> /\ c[k][1] \in Workers /\ c[k][2] \in DOMAIN P[c[k][1]]
              /\ e[k] \in AllNumbers /\ e[k][1] = c[k][1] /\ e[k][2] = B[c[k][1]][c[k][2]]
              /\ M[k] = At(e[k])
  <2>1. c[k] \in Slots(P)
    BY <1>7 DEF Enumerates
  <2>2. PICK w \in Workers : \E i \in DOMAIN P[w] : c[k] = <<w, i>>
    BY <2>1, SlotIs
  <2>3. PICK i \in DOMAIN P[w] : c[k] = <<w, i>>
    BY <2>2
  <2>4. c[k][1] = w /\ c[k][2] = i
    BY <2>3
  <2>5. e[k] = <<w, B[w][i]>>
    BY <2>4
  <2>6. e[k] \in AllNumbers
    BY <1>8, <1>9, <2>5
  <2>7. M[k] = P[w][i]
    BY <1>7, <2>4
  <2>8. M[k] = At(e[k])
    BY <1>9, <2>5, <2>7 DEF At
  <2> HIDE DEF e
  <2> QED
    BY <2>3, <2>4, <2>5, <2>6, <2>8
<1>11. Enumerates(e, n, AllNumbers)
  <2>0. e = [k \in 1 .. n |-> e[k]]
    OBVIOUS
  <2> HIDE DEF e
  <2>1. e \in [1 .. n -> AllNumbers]
    BY <1>10, <2>0
  <2>2. ASSUME NEW i \in 1 .. n, NEW j \in 1 .. n, e[i] = e[j] PROVE i = j
    <3>1. c[i][1] = c[j][1] /\ B[c[i][1]][c[i][2]] = B[c[i][1]][c[j][2]]
      BY <1>10, <2>2
    <3>2. c[i][1] \in Workers /\ c[i][2] \in DOMAIN P[c[i][1]] /\ c[j][2] \in DOMAIN P[c[i][1]]
      BY <1>10, <3>1
    <3>3. c[i][2] = c[j][2]
      BY <1>9, <3>1, <3>2
    <3>4. c[i] = <<c[i][1], c[i][2]>> /\ c[j] = <<c[j][1], c[j][2]>>
      BY <1>10
    <3>5. c[i] = c[j]
      BY <3>1, <3>3, <3>4, Zenon
    <3> QED
      BY <1>7, <3>5 DEF Enumerates
  <2>3. ASSUME NEW a \in AllNumbers PROVE \E k \in 1 .. n : e[k] = a
    <3>1. PICK w \in Workers : \E i \in DOMAIN local[w] : a = <<w, i>>
      BY <1>8
    <3>2. PICK i \in DOMAIN local[w] : a = <<w, i>>
      BY <3>1
    <3>3. PICK j \in DOMAIN P[w] : B[w][j] = i
      BY <1>9
    <3>4. <<w, j>> \in Slots(P)
      BY SlotIs
    <3>5. PICK k \in 1 .. n : c[k] = <<w, j>>
      BY <1>7, <3>4 DEF Enumerates
    <3>6. e[k] = <<c[k][1], B[c[k][1]][c[k][2]]>> /\ c[k][1] = w /\ c[k][2] = j
      BY <3>5 DEF e
    <3>7. e[k] = a
      BY <3>2, <3>3, <3>6
    <3> QED
      BY <3>7
  <2> QED
    BY <2>1, <2>2, <2>3 DEF Enumerates
<1> HIDE DEF e
<1>12. Count = n
  BY <1>6, <1>11, HowMany DEF Count
<1>13. \A k \in 1 .. n : KthSmallest(k) = M[k]
  <2>1. \A i \in 1 .. Len(M) : M[i] = At(e[i])
    BY <1>10 DEF n
  <2>2. Enumerates(e, Len(M), AllNumbers)
    BY <1>11 DEF n
  <2>3. \A k \in 1 .. Len(M) : KthSmallest(k) = M[k]
    BY <1>6, <2>1, <2>2, KthIs
  <2> QED
    BY <2>3 DEF n
<1>14. M = <<>> <=> n = 0
  BY <1>6, EmptySequence DEF n
<1>15. ASSUME n > 0
       PROVE  DoubledMedian(M) = KthSmallest((n + 1) \div 2) + KthSmallest((n + 2) \div 2)
  <2>1. DOMAIN M = 1 .. n /\ \A k \in 1 .. n : M[k] \in Int
    BY <1>6 DEF n
  <2>2. CASE n % 2 = 1
    <3>1. (n + 1) \div 2 = n \div 2 + 1 /\ (n + 2) \div 2 = n \div 2 + 1 /\ n \div 2 + 1 \in 1 .. n
      BY <1>6, <1>15, <2>2
    <3>2. DoubledMedian(M) = 2 * M[n \div 2 + 1]
      BY <2>2 DEF DoubledMedian, n
    <3>3. KthSmallest(n \div 2 + 1) = M[n \div 2 + 1] /\ M[n \div 2 + 1] \in Int
      BY <1>13, <2>1, <3>1
    <3> QED
      BY <3>1, <3>2, <3>3
  <2>3. CASE n % 2 # 1
    <3>1. (n + 1) \div 2 = n \div 2 /\ (n + 2) \div 2 = n \div 2 + 1 /\ n \div 2 \in 1 .. n /\ n \div 2 + 1 \in 1 .. n
      BY <1>6, <1>15, <2>3
    <3>2. DoubledMedian(M) = M[n \div 2] + M[n \div 2 + 1]
      BY <2>3 DEF DoubledMedian, n
    <3> QED
      BY <1>13, <3>1, <3>2
  <2> QED
    BY <2>2, <2>3
<1> QED
  BY <1>6, <1>12, <1>14, <1>15 DEF M

-----------------------------------------------------------------------------
(* safe_eval                                                                 *)

\* The value of a node is that of its operands: where two assignments agree on
\* them, it is the same.
LEMMA OperandsDecide ==
  ASSUME NEW node, NEW g, NEW h, \A k \in Operands(node) : g[k] = h[k]
  PROVE  ValueOf(node, g) = ValueOf(node, h)
<1>1. CASE node.kind = "bin"
  <2>1. g[node.left] = h[node.left] /\ g[node.right] = h[node.right]
    BY <1>1 DEF Operands
  <2> QED
    BY <1>1, <2>1 DEF ValueOf
<1>2. CASE node.kind = "unary"
  <2>1. g[node.operand] = h[node.operand]
    BY <1>2 DEF Operands
  <2> QED
    BY <1>2, <2>1 DEF ValueOf
<1>3. CASE node.kind \notin {"bin", "unary"}
  BY <1>3 DEF ValueOf
<1> QED
  BY <1>1, <1>2, <1>3

\* The values of a tree's nodes, each from those of its operands; and Eval is the
\* root's.
EvalBy(tree, g) == g = [i \in DOMAIN tree |-> ValueOf(tree[i], g)]

\* Eval takes the value of the root.
LEMMA EvalIsRoot == \A tree : Eval(tree) = (CHOOSE g : EvalBy(tree, g))[Len(tree)]
  BY Zenon DEF Eval, EvalBy

\* Every tree has such values: from left to right, node by node.
LEMMA EveryTreeHasValues ==
  ASSUME NEW tree, IsTree(tree)
  PROVE  \E g : EvalBy(tree, g)
<1> DEFINE n == Len(tree)
           Good(g, k) == \A i \in 1 .. n : i <= k => g[i] = ValueOf(tree[i], g)
           T == {k \in Nat : \E g : g = [i \in 1 .. n |-> g[i]] /\ Good(g, k)}
<1>1. n \in Nat \ {0} /\ DOMAIN tree = 1 .. n /\ \A i \in 1 .. n : Operands(tree[i]) \subseteq 1 .. i - 1
  BY DEF IsTree
<1>2. 0 \in T
  <2> DEFINE z == [i \in 1 .. n |-> 0]
  <2>1. z = [i \in 1 .. n |-> z[i]] /\ Good(z, 0)
    BY <1>1
  <2> HIDE DEF z, Good
  <2> QED
    BY <2>1
<1>3. ASSUME NEW k \in Nat, k \in T PROVE k + 1 \in T
  <2>1. PICK g : g = [i \in 1 .. n |-> g[i]] /\ Good(g, k)
    BY <1>3
  <2> DEFINE h == [i \in 1 .. n |-> IF i = k + 1 THEN ValueOf(tree[i], g) ELSE g[i]]
  <2>2. \A i \in 1 .. n : h[i] = IF i = k + 1 THEN ValueOf(tree[i], g) ELSE g[i]
    OBVIOUS
  <2>3. h = [i \in 1 .. n |-> h[i]]
    OBVIOUS
  <2> HIDE DEF h
  <2>4. ASSUME NEW i \in 1 .. n, i <= k + 1 PROVE h[i] = ValueOf(tree[i], h)
    <3>1. \A j \in Operands(tree[i]) : g[j] = h[j]
      BY <1>1, <2>2, <2>4
    <3>2. ValueOf(tree[i], g) = ValueOf(tree[i], h)
      BY <3>1, OperandsDecide
    <3>3. h[i] = ValueOf(tree[i], g)
      <4>1. CASE i = k + 1
        BY <4>1, <2>2
      <4>2. CASE i # k + 1
        <5>1. i <= k
          BY <1>1, <2>4, <4>2
        <5> QED
          BY <5>1, <4>2, <2>1, <2>2
      <4> QED
        BY <4>1, <4>2
    <3> QED
      BY <3>2, <3>3
  <2>5. Good(h, k + 1)
    BY <2>4
  <2> HIDE DEF Good
  <2> QED
    BY <2>3, <2>5
<1>4. n \in T
  <2> HIDE DEF T
  <2> QED
    BY <1>1, <1>2, <1>3, NumberInduction
<1>5. PICK g : g = [i \in 1 .. n |-> g[i]] /\ Good(g, n)
  BY <1>4
<1>6. \A i \in 1 .. n : g[i] = ValueOf(tree[i], g)
  BY <1>1, <1>5
<1>7. [i \in 1 .. n |-> g[i]] = [i \in 1 .. n |-> ValueOf(tree[i], g)]
  BY <1>6
<1>8. g = [i \in DOMAIN tree |-> ValueOf(tree[i], g)]
  BY <1>1, <1>5, <1>7, Zenon
<1> QED
  BY <1>8 DEF EvalBy

\* What one node of the grammar is, InGrammar's condition.
NodeInGrammar(node) ==
    \/ node.kind = "number"
    \/ node.kind = "name" /\ node.id \in DOMAIN Bindings /\ Bindings[node.id] # <<>>
    \/ node.kind = "bin" /\ node.op \in BinOps
    \/ node.kind = "unary" /\ node.op \in UnaryOps

\* A number comes of numbers, and from a node of the grammar ...
LEMMA NumbersOfNumbers ==
  ASSUME NEW node, NEW g, ValueOf(node, g).is = "number"
  PROVE  NodeInGrammar(node) /\ \A k \in Operands(node) : g[k].is = "number"
<1>1. CASE node.kind = "number"
  BY <1>1 DEF NodeInGrammar, Operands
<1>2. CASE node.kind = "name"
  <2>1. ValueOf(node, g) = LookUp(node.id)
    BY <1>2 DEF ValueOf
  <2>2. node.id \in DOMAIN Bindings /\ Bindings[node.id] # <<>>
    BY <2>1 DEF LookUp, Refused
  <2> QED
    BY <1>2, <2>2 DEF NodeInGrammar, Operands
<1>3. CASE node.kind = "bin"
  <2>1. node.op \in BinOps
    BY <1>3 DEF ValueOf, Refused
  <2>2. ValueOf(node, g) = Apply(node.op, g[node.left], g[node.right])
    BY <1>3, <2>1 DEF ValueOf
  <2>3. g[node.left].is = "number" /\ g[node.right].is = "number"
    BY <2>2 DEF Apply
  <2> QED
    BY <1>3, <2>1, <2>3 DEF NodeInGrammar, Operands
<1>4. CASE node.kind = "unary"
  <2>1. node.op \in UnaryOps
    BY <1>4 DEF ValueOf, Refused
  <2>2. \E op : ValueOf(node, g) = Apply(op, Number(0, 1), g[node.operand])
    BY <1>4, <2>1 DEF ValueOf
  <2>3. g[node.operand].is = "number"
    BY <2>2 DEF Apply
  <2> QED
    BY <1>4, <2>1, <2>3 DEF NodeInGrammar, Operands
<1>5. CASE node.kind \notin {"number", "name", "bin", "unary"}
  BY <1>5 DEF ValueOf, Refused
<1> QED
  BY <1>1, <1>2, <1>3, <1>4, <1>5

Unrefused == {"number", "raised"}

\* An operator of the grammar refuses nothing.
LEMMA ApplyUnrefused ==
  ASSUME NEW op \in BinOps, NEW l, NEW r, l.is \in Unrefused, r.is \in Unrefused
  PROVE  Apply(op, l, r).is \in Unrefused
<1>1. CASE l.is # "number"
  BY <1>1 DEF Apply
<1>2. CASE l.is = "number" /\ r.is # "number"
  BY <1>2 DEF Apply
<1>3. CASE l.is = "number" /\ r.is = "number"
  <2>1. (\E p, q : Apply(op, l, r) = Number(p, q)) \/ Apply(op, l, r) = Raised
    BY <1>3 DEF Apply, BinOps
  <2>2. \A p, q : Number(p, q).is = "number"
    BY DEF Number
  <2>3. Raised.is = "raised"
    BY DEF Raised
  <2> QED
    BY <2>1, <2>2, <2>3 DEF Unrefused
<1> QED
  BY <1>1, <1>2, <1>3

\* ... and a node of the grammar is refused only for an operand that is.
LEMMA GrammarUnrefused ==
  ASSUME NEW node, NEW g, NodeInGrammar(node), \A k \in Operands(node) : g[k].is \in Unrefused
  PROVE  ValueOf(node, g).is \in Unrefused
<1>0. \A p, q : Number(p, q).is = "number"
  BY DEF Number
<1>1. CASE node.kind = "number"
  <2>1. ValueOf(node, g) = Number(node.value, 1)
    BY <1>1 DEF ValueOf
  <2> QED
    BY <1>0, <2>1 DEF Unrefused
<1>2. CASE node.kind = "name"
  <2>1. ValueOf(node, g) = LookUp(node.id)
    BY <1>2 DEF ValueOf
  <2>2. node.id \in DOMAIN Bindings /\ Bindings[node.id] # <<>>
    BY <1>2 DEF NodeInGrammar
  <2>3. LookUp(node.id) = Number(Bindings[node.id][1], Bindings[node.id][2])
    BY <2>2 DEF LookUp
  <2> QED
    BY <1>0, <2>1, <2>3 DEF Unrefused
<1>3. CASE node.kind = "bin"
  <2>1. node.op \in BinOps
    BY <1>3 DEF NodeInGrammar
  <2>2. ValueOf(node, g) = Apply(node.op, g[node.left], g[node.right])
    BY <1>3, <2>1 DEF ValueOf
  <2>3. g[node.left].is \in Unrefused /\ g[node.right].is \in Unrefused
    BY <1>3 DEF Operands
  <2> QED
    BY <2>1, <2>2, <2>3, ApplyUnrefused
<1>4. CASE node.kind = "unary"
  <2>1. node.op \in UnaryOps
    BY <1>4 DEF NodeInGrammar
  <2>2. \E op \in BinOps : ValueOf(node, g) = Apply(op, Number(0, 1), g[node.operand])
    BY <1>4, <2>1 DEF ValueOf, BinOps
  <2>3. g[node.operand].is \in Unrefused /\ Number(0, 1).is \in Unrefused
    BY <1>0, <1>4 DEF Operands, Unrefused
  <2> QED
    BY <2>2, <2>3, ApplyUnrefused
<1> QED
  BY <1>1, <1>2, <1>3, <1>4 DEF NodeInGrammar

\* combine's evaluation: a number only for a tree of the grammar, a refusal only
\* for another.
LEMMA EvalIs ==
  ASSUME NEW tree, IsTree(tree)
  PROVE  /\ Eval(tree).is = "number" => InGrammar(tree)
         /\ Eval(tree).is = "refused" => ~InGrammar(tree)
<1> DEFINE n == Len(tree)
           g == CHOOSE g : EvalBy(tree, g)
<1>1. /\ n \in Nat \ {0} /\ DOMAIN tree = 1 .. n
      /\ \A i \in 1 .. n : Operands(tree[i]) \subseteq 1 .. i - 1
      /\ \A i \in 1 .. n - 1 : \E j \in 1 .. n : i \in Operands(tree[j])
  BY DEF IsTree
<1>2. EvalBy(tree, g)
  BY EveryTreeHasValues, Zenon
<1>3. Eval(tree) = g[n]
  BY EvalIsRoot
<1> HIDE DEF g
<1>4. \A i \in 1 .. n : g[i] = ValueOf(tree[i], g)
  <2>1. g = [i \in 1 .. n |-> ValueOf(tree[i], g)]
    BY <1>1, <1>2 DEF EvalBy
  <2> QED
    BY <2>1
<1> HIDE DEF n
<1>5. ASSUME g[n].is = "number" PROVE InGrammar(tree)
  <2> DEFINE U == {k \in Nat : k < n /\ g[n - k].is # "number"}
  <2>1. U = {}
    <3> SUFFICES ASSUME U # {} PROVE FALSE
      OBVIOUS
    <3>1. PICK k \in U : \A m \in U : k <= m
      <4>1. U \subseteq Nat
        OBVIOUS
      <4> HIDE DEF U
      <4> QED
        BY <4>1, LeastNumber
    <3>2. k # 0
      BY <1>1, <1>5, <3>1
    <3>3. n - k \in 1 .. n - 1
      BY <1>1, <3>1, <3>2
    <3>4. PICK j \in 1 .. n : n - k \in Operands(tree[j])
      BY <1>1, <3>3
    <3>5. n - k < j
      BY <1>1, <3>3, <3>4
    <3>6. n - j \in Nat /\ n - j < k /\ n - j < n /\ n - (n - j) = j
      BY <1>1, <3>1, <3>3, <3>5
    <3>7. n - j \notin U
      BY <3>1, <3>6
    <3>8. g[j].is = "number"
      BY <3>6, <3>7
    <3>9. g[n - k].is = "number"
      BY <1>4, <3>4, <3>8, NumbersOfNumbers
    <3> QED
      BY <3>1, <3>9
  <2>2. ASSUME NEW i \in 1 .. n PROVE NodeInGrammar(tree[i])
    <3>1. n - i \in Nat /\ n - i < n /\ n - (n - i) = i
      BY <1>1
    <3>2. g[i].is = "number"
      BY <2>1, <3>1
    <3> QED
      BY <1>4, <3>2, NumbersOfNumbers
  <2> QED
    BY <1>1, <2>2 DEF InGrammar, NodeInGrammar
<1>6. ASSUME InGrammar(tree) PROVE g[n].is \in Unrefused
  <2> DEFINE U == {i \in 1 .. n : g[i].is \notin Unrefused}
  <2>1. U = {}
    <3> SUFFICES ASSUME U # {} PROVE FALSE
      OBVIOUS
    <3>1. PICK i \in U : \A m \in U : i <= m
      <4>1. U \subseteq Nat
        BY <1>1
      <4> HIDE DEF U
      <4> QED
        BY <4>1, LeastNumber
    <3>2. NodeInGrammar(tree[i])
      BY <1>1, <1>6, <3>1 DEF InGrammar, NodeInGrammar
    <3>3. \A k \in Operands(tree[i]) : g[k].is \in Unrefused
      <4> SUFFICES ASSUME NEW k \in Operands(tree[i]) PROVE g[k].is \in Unrefused
        OBVIOUS
      <4>1. i \in 1 .. n /\ k \in 1 .. i - 1
        BY <1>1, <3>1
      <4>2. k \in 1 .. n /\ k < i
        BY <1>1, <4>1
      <4> QED
        BY <3>1, <4>2
    <3>4. g[i].is \in Unrefused
      BY <1>4, <3>1, <3>2, <3>3, GrammarUnrefused
    <3> QED
      BY <3>1, <3>4
  <2> QED
    BY <1>1, <2>1
<1> QED
  BY <1>3, <1>5, <1>6 DEF Unrefused, n

-----------------------------------------------------------------------------
(* The answers                                                               *)

\* The reference values, of any numbers of the workers, l, and any transform, t.
NumbersOf(l) == UNION {{w} \X DOMAIN l[w] : w \in Workers}
ValueAt(l, t, p) == IF t = "square" THEN l[p[1]][p[2]] * l[p[1]][p[2]] ELSE l[p[1]][p[2]]
SumFor(l, t) == <<SumOver([p \in NumbersOf(l) |-> ValueAt(l, t, p)]), Cardinality(NumbersOf(l))>>
KthOf(l, k) ==
    CHOOSE v \in {l[p[1]][p[2]] : p \in NumbersOf(l)} :
        /\ Cardinality({p \in NumbersOf(l) : l[p[1]][p[2]] < v}) < k
        /\ Cardinality({p \in NumbersOf(l) : l[p[1]][p[2]] <= v}) >= k
CountOf(l) == Cardinality(NumbersOf(l))
MedianFor(l) == <<KthOf(l, (CountOf(l) + 1) \div 2) + KthOf(l, (CountOf(l) + 2) \div 2)>>

\* AggregateRight, said of them.
Statistics ==
    /\ result = "ok" /\ skill = "sum" => answer = SumFor(local, params)
    /\ result = "ok" /\ skill = "median" => CountOf(local) > 0 /\ answer = MedianFor(local)
    /\ result = "aggregate_failed" /\ clear # "off" => CountOf(local) = 0

\* They are AggregateRight's.
LEMMA StatisticsAre == Statistics <=> AggregateRight
BY Zenon DEF Statistics, AggregateRight, SumFor, SumOver, MedianFor, CountOf, KthOf, NumbersOf, ValueAt,
             Count, KthSmallest, AllNumbers, At, Transform

\* What a fold of everybody's numbers comes to.
LEMMA FoldsAre ==
    ASSUME local \in [Workers -> Seq(Int)], Gathered = Workers
    PROVE  /\ skill = "sum" => Aggregate = SumFor(local, params)
           /\ skill = "median" => /\ Merged = <<>> => CountOf(local) = 0
                                  /\ Merged # <<>> => /\ CountOf(local) > 0
                                                      /\ <<DoubledMedian(Merged)>> = MedianFor(local)
<1>1. IsFiniteSet(Workers)
  BY SkillsAssumption DEF Workers
<1>2. ASSUME skill = "sum" PROVE Aggregate = SumFor(local, params)
  <2>1. Aggregate = <<SumOver([p \in AllNumbers |-> Transform(At(p))]), Count>>
    BY <1>1, <1>2, AggregateIs
  <2> QED
    BY <2>1, Zenon DEF SumFor, NumbersOf, ValueAt, Count, AllNumbers, At, Transform
<1>3. ASSUME skill = "median"
      PROVE  /\ Merged = <<>> => CountOf(local) = 0
             /\ Merged # <<>> => /\ CountOf(local) > 0
                                 /\ <<DoubledMedian(Merged)>> = MedianFor(local)
  <2>1. local \in Partitions
    BY DEF Partitions
  <2>2. /\ Merged = <<>> => Count = 0
        /\ Merged # <<>> => /\ Count > 0
                            /\ DoubledMedian(Merged) = KthSmallest((Count + 1) \div 2) + KthSmallest((Count + 2) \div 2)
    BY <1>1, <1>3, <2>1, MedianIs
  <2>3. Count = CountOf(local)
    BY Zenon DEF Count, CountOf, NumbersOf, AllNumbers
  <2>4. \A k : KthSmallest(k) = KthOf(local, k)
    BY Zenon DEF KthSmallest, KthOf, NumbersOf, AllNumbers, At
  <2>5. Merged # <<>> => <<DoubledMedian(Merged)>> = MedianFor(local)
    BY <2>2, <2>3, <2>4, Zenon DEF MedianFor
  <2> QED
    BY <2>2, <2>3, <2>5, Zenon
<1> QED
  BY <1>2, <1>3

\* What the numbers and the request are while an invocation lasts.
Asked ==
    /\ local \in [Workers -> Seq(Int)]
    /\ skill = "combine" => params \in DOMAIN Expressions

AnswersInv == Asked /\ Statistics /\ GrammarOnly

\* A step that neither answers nor reads numbers.
LEMMA NoAnswer ==
    ASSUME AnswersInv, UNCHANGED <<skill, params, local, answer>>,
           result' = "ok" => result = "ok",
           result' = "aggregate_failed" /\ clear' # "off" => result = "aggregate_failed" /\ clear # "off"
    PROVE  AnswersInv'
<1>1. Asked' /\ GrammarOnly'
  BY DEF AnswersInv, Asked, GrammarOnly
<1>2. SumFor(local', params') = SumFor(local, params) /\ MedianFor(local') = MedianFor(local)
      /\ CountOf(local') = CountOf(local)
  BY Zenon
<1>3. Statistics'
  BY <1>2 DEF AnswersInv, Statistics
<1> QED
  BY <1>1, <1>3 DEF AnswersInv

\* A step that changes nothing of the numbers, where the results belong to no sum
\* and no median, and no expression's value is given.
LEMMA OtherAnswer ==
    ASSUME AnswersInv, UNCHANGED <<skill, params, local>>,
           skill \notin {"sum", "combine"}, skill = "median" => result' \notin {"ok", "aggregate_failed"},
           clear' # "off" => skill = "median"
    PROVE  AnswersInv'
<1>1. Asked' /\ GrammarOnly'
  BY DEF AnswersInv, Asked, GrammarOnly
<1>2. Statistics'
  BY DEF Statistics
<1> QED
  BY <1>1, <1>2 DEF AnswersInv

\* Nothing is asked yet of an invocation that begins.
LEMMA AnswersStart == SkillsInit => AnswersInv
<1> SUFFICES ASSUME SkillsInit PROVE AnswersInv
  OBVIOUS
<1>1. result = "none" /\ answer = <<>> /\ local = [w \in Workers |-> <<>>]
      /\ (skill = "combine" => params \in DOMAIN Expressions)
  BY DEF SkillsInit, Init
<1>2. Asked
  BY <1>1 DEF Asked
<1>3. Statistics /\ GrammarOnly
  BY <1>1 DEF Statistics, GrammarOnly
<1> QED
  BY <1>2, <1>3 DEF AnswersInv

\* Numbers are read before a worker Maps: nobody has answered ok.
LEMMA ReadingKeepsAnswers ==
    ASSUME SkillsInv, AnswersInv, NEW w \in Workers, SkillContribute(w)
    PROVE  AnswersInv'
<1>1. /\ Aggregating /\ contributor[w] = "idle"
      /\ UNCHANGED <<skill, params, answer, clear, result>>
  BY DEF SkillContribute, Contribute, requestVars, ownVars, coordVars
<1>2. clear = "off"
  BY <1>1 DEF SkillsInv, WhileClearing
<1>3. BarrierInv /\ ~Sent(w)
  BY <1>1, <1>2 DEF SkillsInv, Sent
<1>4. result' # "ok"
  BY <1>1, <1>3, NotAllSent
<1>5. PICK numbers \in Lists : local' = [local EXCEPT ![w] = numbers]
  BY DEF SkillContribute
<1>6. numbers \in Seq(Int)
  BY SkillsAssumption
<1>7. Asked'
  BY <1>1, <1>5, <1>6 DEF AnswersInv, Asked
<1>8. GrammarOnly'
  BY <1>1 DEF GrammarOnly, Aggregating
<1>9. Statistics'
  BY <1>1, <1>2, <1>4 DEF Statistics
<1> QED
  BY <1>7, <1>8, <1>9 DEF AnswersInv

\* An ok of sum: the fold is over what every worker has stored.
LEMMA SumReturnKeepsAnswers ==
    ASSUME SkillsInv, AnswersInv, SumReturn
    PROVE  AnswersInv'
<1>1. /\ skill = "sum" /\ coordinator = "gather" /\ reader[Coordinator] = "idle"
      /\ UNCHANGED <<skill, params, local, clear>>
      /\ answer' = IF result' = "ok" THEN Aggregate ELSE <<>>
      /\ result' = "ok" => gatherStatus[Coordinator] = "ok"
  BY DEF SumReturn, AggregateReturn, ReturnResult, requestVars
<1>2. clear = "off" /\ Aggregating
  BY <1>1 DEF SkillsInv, SkillsTypeOK, Aggregating
<1>3. BarrierInv
  BY <1>2 DEF SkillsInv
<1>4. ASSUME result' = "ok" PROVE answer' = SumFor(local', params')
  <2>1. Gathered = Workers
    <3>1. \A k \in Keys : Sent(k) /\ maps[k] > 0
      BY <1>1, <1>3 DEF BarrierInv, Phases, Heard, Sent, Contributions, Workers
    <3>2. \A k \in Keys : gathered[Coordinator][k] = maps[k]
      BY <1>1, <1>3, <1>4 DEF BarrierInv, Gatherings, AllGathered
    <3> QED
      BY <3>1, <3>2 DEF Gathered, Workers, Absent
  <2>2. Aggregate = SumFor(local, params)
    BY <1>1, <2>1, FoldsAre DEF AnswersInv, Asked
  <2> QED
    BY <1>1, <1>4, <2>2, Zenon
<1>5. Asked' /\ GrammarOnly' /\ Statistics'
  BY <1>1, <1>2, <1>4 DEF AnswersInv, Asked, GrammarOnly, Statistics
<1> QED
  BY <1>5 DEF AnswersInv

\* The median is taken after clearing, of what was gathered before.
LEMMA MedianReturnKeepsAnswers ==
    ASSUME SkillsInv, AnswersInv, MedianReturn
    PROVE  AnswersInv'
<1>1. /\ clear # "off" /\ UNCHANGED <<skill, params, local, clear>>
      /\ \/ Merged = <<>> /\ result' = "aggregate_failed"
         \/ Merged # <<>> /\ result' = "ok" /\ answer' = <<DoubledMedian(Merged)>>
  BY DEF MedianReturn, ReturnResult, requestVars
<1>2. skill = "median" /\ Gathered = Workers
  <2>1. WhileClearing
    BY <1>1 DEF SkillsInv
  <2> QED
    BY <2>1 DEF WhileClearing, AllGathered, Gathered, Workers, Absent
<1>3. /\ Merged = <<>> => CountOf(local) = 0
      /\ Merged # <<>> => CountOf(local) > 0 /\ <<DoubledMedian(Merged)>> = MedianFor(local)
  BY <1>2, FoldsAre DEF AnswersInv, Asked
<1>4. /\ CountOf(local') = CountOf(local) /\ MedianFor(local') = MedianFor(local)
  BY <1>1, Zenon
<1>5. Asked' /\ GrammarOnly'
  BY <1>1, <1>2 DEF AnswersInv, Asked, GrammarOnly
<1>6. Statistics'
  BY <1>1, <1>2, <1>3, <1>4 DEF Statistics
<1> QED
  BY <1>5, <1>6 DEF AnswersInv

\* combine evaluates a tree.
LEMMA CombineKeepsAnswers ==
    ASSUME AnswersInv, Combine
    PROVE  AnswersInv'
<1>1. /\ skill = "combine" /\ answer' = <<Eval(Expressions[params])>>
      /\ UNCHANGED <<skill, params, local, clear, result>>
  BY DEF Combine, requestVars, vars, coordVars
<1>2. params \in DOMAIN Expressions
  BY <1>1 DEF AnswersInv, Asked
<1>3. IsTree(Expressions[params])
  BY <1>2, SkillsAssumption
<1>4. /\ answer'[1] = Eval(Expressions[params])
      /\ Eval(Expressions[params]).is = "number" => InGrammar(Expressions[params])
      /\ Eval(Expressions[params]).is = "refused" => ~InGrammar(Expressions[params])
  BY <1>1, <1>3, EvalIs
<1>5. GrammarOnly'
  BY <1>1, <1>4 DEF GrammarOnly
<1>6. Asked' /\ Statistics'
  BY <1>1 DEF AnswersInv, Asked, Statistics
<1> QED
  BY <1>5, <1>6 DEF AnswersInv

\* No step of the skills gives a wrong answer.
LEMMA AnswersStep ==
    ASSUME SkillsInv, AnswersInv, [SkillsNext]_skillVars
    PROVE  AnswersInv'
<1> USE DEF requestVars, ownVars, coordVars
<1>1. CASE \E w \in Workers : SkillContribute(w)
  BY <1>1, ReadingKeepsAnswers
<1>2. CASE SumReturn
  BY <1>2, SumReturnKeepsAnswers
<1>3. CASE MedianReturn
  BY <1>3, MedianReturnKeepsAnswers
<1>4. CASE Combine
  BY <1>4, CombineKeepsAnswers
<1>5. ASSUME NEW w \in Workers, ContributeReady(w)
      PROVE  AnswersInv'
  <2>1. UNCHANGED <<skill, params, local, answer, result, clear>>
    BY <1>5 DEF ContributeReady
  <2> QED
    BY <2>1, NoAnswer
<1>6. CASE BarrierStep
  <2>1. UNCHANGED <<skill, params, local, answer, clear>>
    BY <1>6 DEF BarrierStep
  <2>2. result' = result \/ result' \in {"cancelled", "map_failed", "missing"}
    BY <1>6 DEF BarrierStep, ContributeRaises, Mapping, SendReady, CoordinateBegin, DeadlinePasses, ReceiveReady, Receive,
                SeeCancelled, StopWaiting, AggregateBegin, Gathering, Cancel, ReturnResult
  <2> QED
    BY <2>1, <2>2, NoAnswer
<1>7. CASE MedianFails
  <2>1. UNCHANGED <<skill, params, local, answer, clear>> /\ result' = "aggregate_failed"
        /\ gatherStatus[Coordinator] = "failed"
    BY <1>7 DEF MedianFails, ReturnResult
  <2>2. clear = "off"
    BY <2>1 DEF SkillsInv, WhileClearing
  <2> QED
    BY <2>1, <2>2, NoAnswer
<1>8. CASE ClearBegin \/ ClearList \/ ClearKey \/ Sweep
  <2>1. UNCHANGED <<skill, params, local, answer, result>>
    BY <1>8 DEF ClearBegin, ClearList, ClearKey, Sweep, ClearTo
  <2>2. ClearBegin => result # "aggregate_failed"
    BY DEF ClearBegin, GatherOver, SkillsInv, SkillsTypeOK
  <2>3. ~ClearBegin => clear # "off"
    BY <1>8 DEF ClearList, ClearKey, Sweep
  <2> QED
    BY <2>1, <2>2, <2>3, NoAnswer
<1>9. CASE MintFails \/ MintChat \/ MintRegister
  <2>1. skill = "create_scarlet" /\ UNCHANGED <<skill, params, local, clear>>
    BY <1>9 DEF MintFails, MintChat, MintRegister, ReadyToMint, SkillsInv, Minting
  <2>2. clear' # "off" => skill = "median"
    BY <2>1 DEF SkillsInv, SkillsTypeOK
  <2> QED
    BY <2>1, <2>2, OtherAnswer
<1>10. CASE UNCHANGED skillVars
  <2>1. UNCHANGED <<skill, params, local, answer, result, clear>>
    BY <1>10 DEF skillVars, vars
  <2> QED
    BY <2>1, NoAnswer
<1> QED
  BY <1>1, <1>2, <1>3, <1>4, <1>5, <1>6, <1>7, <1>8, <1>9, <1>10 DEF SkillsNext

\* Every answer that says ok is right, for every number of workers with any lists
\* of integers, and for every tree: sum's and median's are the statistic over all
\* numbers of all workers, and a median that finds none had none; create_scarlet's
\* name has its coordinator's description; combine gives a number for expressions
\* of the grammar only, and refuses only the others (skills/).
THEOREM SkillsAnswerRight == "unreachable" \notin Faults => (SkillsSpec => []AnswerRight)
<1> SUFFICES ASSUME "unreachable" \notin Faults PROVE SkillsSpec => []AnswerRight
  OBVIOUS
<1>1. AnswersInv /\ SkillsInv /\ [SkillsNext]_skillVars => AnswersInv'
  BY AnswersStep
<1>2. AnswersInv => AggregateRight /\ GrammarOnly
  BY StatisticsAre DEF AnswersInv
<1>3. SkillsSpec => []SkillsInv
  BY SkillsHold
<1>4. SkillsSpec => [](SkillsTypeOK /\ MintedStands)
  BY MintedNamesStand
<1>5. SkillsTypeOK /\ MintedStands /\ AggregateRight /\ GrammarOnly => AnswerRight
  BY DEF AnswerRight
<1> QED BY <1>1, <1>2, <1>3, <1>4, <1>5, AnswersStart, PTL DEF SkillsSpec
=============================================================================
