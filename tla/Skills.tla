------------------------------- MODULE Skills -------------------------------
(****************************************************************************)
(* The skills that compute, over the barrier: skills/sum.py (Federator),      *)
(* skills/median.py (Mapper, and its clearAll), skills/create_scarlet.py      *)
(* (the barrier without the Mapper, then an LLM call that names a scarlet)    *)
(* and skills/combine.py (no barrier: safe_eval of an expression).            *)
(*                                                                           *)
(* SkillBarrier says who is folded; this module says what comes out of it.    *)
(* Its number of a Map stands for the value Stored(w).  A median is kept      *)
(* doubled, and a number of combine is a fraction, so that both are exact.    *)
(****************************************************************************)
EXTENDS SkillBarrier, Integers, SequencesExt

CONSTANTS
    Transforms,  \* params.transform of the sums to check
    Lists,       \* what local_numbers() may return
    Names,       \* the names an LLM may give a scarlet
    Expressions, \* a sequence of parsed expressions to combine, see Eval
    Bindings     \* params.variables: a function to fractions, <<>> if not a number

\* An operator stands behind its operands, and under the root there is nothing
\* that is no operand.
Operands(node) ==
    CASE node.kind = "bin" -> {node.left, node.right}
      [] node.kind = "unary" -> {node.operand}
      [] OTHER -> {}

IsTree(tree) ==
    /\ Len(tree) \in Nat \ {0} /\ DOMAIN tree = 1 .. Len(tree)
    /\ \A i \in DOMAIN tree : Operands(tree[i]) \subseteq 1 .. i - 1
    /\ \A i \in 1 .. Len(tree) - 1 : \E j \in DOMAIN tree : i \in Operands(tree[j])

ASSUME SkillsAssumption ==
    /\ IsFiniteSet(Keys)
    /\ Lists \subseteq Seq(Int)
    /\ \A e \in DOMAIN Expressions : IsTree(Expressions[e])

VARIABLES
    skill,       \* sum, median, create_scarlet, combine
    params,      \* the transform of sum, the index of combine's expression
    local,       \* worker -> the numbers its contribute has read
    clear,       \* median's clearAll: off, list, keys, swept, left
    clearing,    \* the keys it has still to clear
    minting,     \* create_scarlet: off, chosen, registered, lost
    definitions, \* name -> whose description it has: nobody, other, coordinator
    answer       \* what coordinate returns besides its status

requestVars == <<skill, params>>
ownVars == <<clear, clearing, minting, definitions, answer>>
skillVars == <<vars, requestVars, local, ownVars>>

Aggregating == skill \in {"sum", "median"}

SkillsInit ==
    /\ Init
    /\ \/ skill = "sum" /\ params \in Transforms
       \/ skill \in {"median", "create_scarlet"} /\ params = "none"
       \/ skill = "combine" /\ params \in DOMAIN Expressions
    /\ local = [w \in Workers |-> <<>>]
    /\ clear = "off"
    /\ clearing = {}
    /\ minting = "off"
    /\ definitions \in IF skill = "create_scarlet" THEN [Names -> {"nobody", "other"}]
                                                   ELSE [Names -> {"nobody"}]
    /\ answer = <<>>

-----------------------------------------------------------------------------
(* What is stored, and what is made of it                                    *)

\* An unknown transform is the identity.
Transform(x) == IF params = "square" THEN x * x ELSE x

Total(numbers) == FoldLeft(LAMBDA acc, x : acc + Transform(x), 0, numbers)

\* sorted: how many stand before a number is its place; of equals, the earlier.
Place(s, i) == Cardinality({j \in DOMAIN s : s[j] < s[i] \/ (s[j] = s[i] /\ j <= i)})
Sorted(s) == [k \in DOMAIN s |-> s[CHOOSE i \in DOMAIN s : Place(s, i) = k]]

\* A worker's partition goes out as it was read.
Stored_Unsorted(w) ==
    IF skill = "median" THEN local[w] ELSE <<Total(local[w]), Len(local[w])>>

\* contribute: a sorted partition, or [total, count].
Stored(w) ==
    IF skill = "median"
    THEN Sorted(local[w])
    ELSE <<Total(local[w]), Len(local[w])>>

Gathered == {w \in Workers : gathered[Coordinator][w] # Absent}

\* Reduce: performOperation adds each gathered value to the identity [0, 0].
Aggregate ==
    FoldFunctionOnSet(LAMBDA value, acc : <<acc[1] + value[1], acc[2] + value[2]>>,
                      <<0, 0>>, [w \in Workers |-> Stored(w)], Gathered)

\* heapq.merge: whichever partition begins with the least goes next.
KWayMerge(partitions) ==
    LET merge[p \in [Workers -> Seq(Int)]] ==
            LET left == {w \in Workers : p[w] # <<>>} IN
            IF left = {} THEN <<>>
            ELSE LET w == CHOOSE w \in left : \A v \in left : Head(p[w]) <= Head(p[v])
                 IN  <<Head(p[w])>> \o merge[[p EXCEPT ![w] = Tail(@)]]
    IN  merge[partitions]

Merged == KWayMerge([w \in Workers |-> IF w \in Gathered THEN Stored(w) ELSE <<>>])

\* Twice merged[n // 2], or merged[n // 2 - 1] + merged[n // 2].
DoubledMedian(merged) ==
    LET n == Len(merged) IN
    IF n % 2 = 1 THEN 2 * merged[n \div 2 + 1]
                 ELSE merged[n \div 2] + merged[n \div 2 + 1]

-----------------------------------------------------------------------------
(* contribute                                                                *)

\* sum and median read their numbers and Map what they make of them.
SkillContribute(w) ==
    /\ Aggregating
    /\ Contribute(w)
    /\ \E numbers \in Lists : local' = [local EXCEPT ![w] = numbers]
    /\ UNCHANGED <<requestVars, ownVars>>

\* create_scarlet has nothing to compute and sends its ready message at once;
\* without a map_status, which is not False.
ContributeReady(w) ==
    /\ skill = "create_scarlet"
    /\ contributor[w] = "idle"
    /\ contributor' = [contributor EXCEPT ![w] = "over"]
    /\ \/ queue' = Append(queue, [from |-> w, map_status |-> TRUE])
       \/ SendFails /\ UNCHANGED queue
    /\ UNCHANGED <<mapperVars, coordVars, cancelled, requestVars, local, ownVars>>

BarrierStep ==
    /\ \/ \E w \in Workers :
             \/ Aggregating /\ ContributeRaises(w)
             \/ Mapping(w) \/ SendReady(w)
       \/ CoordinateBegin \/ DeadlinePasses \/ ReceiveReady \/ SeeCancelled \/ StopWaiting
       \/ Aggregating /\ (AggregateBegin \/ Gathering)
       \/ skill # "combine" /\ Cancel
    /\ UNCHANGED <<requestVars, local, ownVars>>

-----------------------------------------------------------------------------
(* sum: Federator.Aggregate                                                  *)

SumReturn ==
    /\ skill = "sum"
    /\ AggregateReturn
    /\ answer' = IF result' = "ok" THEN Aggregate ELSE <<>>
    /\ UNCHANGED <<requestVars, local, clear, clearing, minting, definitions>>

-----------------------------------------------------------------------------
(* median: merge, clearAll, answer                                           *)

GatherOver == skill = "median" /\ coordinator = "gather" /\ reader[Coordinator] = "idle"

MedianFails ==
    /\ GatherOver
    /\ gatherStatus[Coordinator] = "failed"
    /\ ReturnResult("aggregate_failed")
    /\ UNCHANGED <<mapperVars, contributor, readyFrom, deadline, cancelled, requestVars, local, ownVars>>

ClearTo(at, left) ==
    /\ clear' = at
    /\ clearing' = left
    /\ UNCHANGED <<writerVars, readerVars, undisturbed, contributor, queue, coordVars, cancelled>>
    /\ UNCHANGED <<requestVars, local, minting, definitions, answer>>

\* The status of AllGather is not looked at.
ClearBegin_Unchecked ==
    /\ GatherOver /\ clear = "off"
    /\ ClearTo("list", {})
    /\ UNCHANGED storeVars

\* Mapper.clearAll.  The barrier keeps everybody else out of this store
\* (GathersAlone), so the commands of one call are one step here, with the
\* effects it may have had when one of them raises.
ClearBegin ==
    /\ GatherOver /\ clear = "off"
    /\ gatherStatus[Coordinator] = "ok"
    /\ ClearTo("list", {})
    /\ UNCHANGED storeVars

\* getMapperLength, with its cleanup; what it raises ends clearAll.
ClearList ==
    /\ clear = "list"
    /\ \/ LET valid == {k \in keyList : chunks[k] # Absent} IN
          keyList' = valid /\ ClearTo("keys", valid)
       \/ "error" \in Faults /\ ClearTo("left", {}) /\ UNCHANGED keyList
    /\ UNCHANGED chunks

\* contract.clearKey: SREM, EXISTS, DELETE.
KeyCleared(k) ==
    \/ keyList' = keyList \ {k} /\ chunks' = [chunks EXCEPT ![k] = Absent]
    \/ "error" \in Faults /\ keyList' \in {keyList, keyList \ {k}} /\ UNCHANGED chunks

\* Clear: an exception has become a status, which is only logged.
ClearKey ==
    /\ clear = "keys"
    /\ \E k \in clearing : KeyCleared(k) /\ ClearTo("keys", clearing \ {k})

\* The sweep deletes the chunks and leaves the key list.
AllCleared_KeepsList ==
    /\ chunks' = [k \in Keys |-> Absent]
    /\ UNCHANGED keyList

\* contract.clearAll: SCAN and DELETE, batch by batch, then the key list.
AllCleared ==
    /\ chunks' = [k \in Keys |-> Absent]
    /\ keyList' = {}

PartlyCleared ==
    /\ "error" \in Faults
    /\ \E gone \in SUBSET Keys :
          chunks' = [k \in Keys |-> IF k \in gone THEN Absent ELSE chunks[k]]
    /\ UNCHANGED keyList

\* ClearAll, whatever became of the single keys.
Sweep ==
    /\ clear = "keys" /\ clearing = {}
    /\ \/ AllCleared /\ ClearTo("swept", {})
       \/ PartlyCleared /\ ClearTo("left", {})

\* clearAll's own result is not looked at.
MedianReturn ==
    /\ clear \in {"swept", "left"} /\ coordinator = "gather"
    /\ IF Merged = <<>> THEN ReturnResult("aggregate_failed") /\ answer' = <<>>
                        ELSE ReturnResult("ok") /\ answer' = <<DoubledMedian(Merged)>>
    /\ UNCHANGED <<mapperVars, contributor, readyFrom, deadline, cancelled>>
    /\ UNCHANGED <<requestVars, local, clear, clearing, minting, definitions>>

-----------------------------------------------------------------------------
(* create_scarlet: mint_scarlet_with_reasoning                               *)

ReadyToMint == skill = "create_scarlet" /\ coordinator = "aggregate" /\ minting = "off"

\* The coordinator has no LLM client, the call raises, or the model calls no
\* tool or gives no name: the attempt fails, retryable.
MintFails ==
    /\ ReadyToMint
    /\ ReturnResult("mint_failed")
    /\ UNCHANGED <<mapperVars, contributor, readyFrom, deadline, cancelled, requestVars, local, ownVars>>

\* The model calls mint_scarlet with a name.
MintChat ==
    /\ ReadyToMint
    /\ minting' = "chosen"
    /\ \E n \in Names : answer' = <<n>>
    /\ UNCHANGED <<vars, requestVars, local, clear, clearing, definitions>>

\* Without overwrite=True, register_scarlet_definition's default.
MintRegister_KeepsExisting ==
    /\ minting = "chosen"
    /\ ReturnResult("minted")
    /\ minting' = "registered"
    /\ definitions' = [definitions EXCEPT ![answer[1]] = IF @ = "nobody" THEN "coordinator" ELSE @]
    /\ UNCHANGED <<mapperVars, contributor, readyFrom, deadline, cancelled>>
    /\ UNCHANGED <<requestVars, local, clear, clearing, answer>>

\* register_scarlet_definition(overwrite=True): it swallows its exceptions, and
\* the name is returned either way.
MintRegister ==
    /\ minting = "chosen"
    /\ ReturnResult("minted")
    /\ \/ /\ minting' = "registered"
          /\ definitions' = [definitions EXCEPT ![answer[1]] = "coordinator"]
       \/ "error" \in Faults /\ minting' = "lost" /\ UNCHANGED definitions
    /\ UNCHANGED <<mapperVars, contributor, readyFrom, deadline, cancelled>>
    /\ UNCHANGED <<requestVars, local, clear, clearing, answer>>

-----------------------------------------------------------------------------
(* combine: safe_eval                                                        *)

BinOps == {"Add", "Sub", "Mult", "Div", "Pow"}
UnaryOps == {"UAdd", "USub"}

Number(p, q) == [is |-> "number", num |-> p, den |-> q]
Refused == [is |-> "refused"]   \* SafeEvalError
Raised  == [is |-> "raised"]    \* ZeroDivisionError, which nobody catches

\* A name nobody bound is worth nothing.
LookUp_UnknownIsZero(id) ==
    IF id \in DOMAIN Bindings /\ Bindings[id] # <<>>
    THEN Number(Bindings[id][1], Bindings[id][2]) ELSE Number(0, 1)

LookUp(id) ==
    IF id \in DOMAIN Bindings /\ Bindings[id] # <<>>
    THEN Number(Bindings[id][1], Bindings[id][2]) ELSE Refused

\* Numerators and denominators; exponents are small natural numbers.
Apply(op, l, r) ==
    CASE l.is # "number" -> l
      [] l.is = "number" /\ r.is # "number" -> r
      [] OTHER ->
           CASE op = "Add"  -> Number(l.num * r.den + r.num * l.den, l.den * r.den)
             [] op = "Sub"  -> Number(l.num * r.den - r.num * l.den, l.den * r.den)
             [] op = "Mult" -> Number(l.num * r.num, l.den * r.den)
             [] op = "Div"  -> IF r.num = 0 THEN Raised ELSE Number(l.num * r.den, l.den * r.num)
             [] op = "Pow"  -> Number(l.num ^ r.num, l.den ^ r.num)

\* _eval_node of a node, given the values of its operands, left to right.
ValueOf(node, value) ==
    CASE node.kind = "number" -> Number(node.value, 1)
      [] node.kind = "name" -> LookUp(node.id)
      [] node.kind = "bin" /\ node.op \in BinOps ->
            Apply(node.op, value[node.left], value[node.right])
      [] node.kind = "unary" /\ node.op \in UnaryOps ->
            Apply(IF node.op = "USub" THEN "Sub" ELSE "Add", Number(0, 1), value[node.operand])
      [] OTHER -> Refused

\* A tree is the sequence of its nodes, each behind its operands, which it names
\* by their places; the root is the last.
Eval(tree) ==
    LET value[i \in DOMAIN tree] == ValueOf(tree[i], value) IN value[Len(tree)]

\* combine.coordinate answers at once.
Combine ==
    /\ skill = "combine" /\ answer = <<>>
    /\ answer' = <<Eval(Expressions[params])>>
    /\ UNCHANGED <<vars, requestVars, local, clear, clearing, minting, definitions>>

-----------------------------------------------------------------------------
CoordinatorActs ==
    \/ /\ ReceiveReady \/ SeeCancelled \/ StopWaiting \/ (Aggregating /\ (AggregateBegin \/ Gathering))
       /\ UNCHANGED <<requestVars, local, ownVars>>
    \/ SumReturn
    \/ MedianFails \/ ClearBegin \/ ClearList \/ ClearKey \/ Sweep \/ MedianReturn
    \/ MintFails \/ MintChat \/ MintRegister

SkillsNext ==
    \/ \E w \in Workers : SkillContribute(w) \/ ContributeReady(w)
    \/ BarrierStep
    \/ SumReturn
    \/ MedianFails \/ ClearBegin \/ ClearList \/ ClearKey \/ Sweep \/ MedianReturn
    \/ MintFails \/ MintChat \/ MintRegister
    \/ Combine

\* As in SkillBarrier: the coordinator's thread runs and time passes.
SkillsSpec ==
    /\ SkillsInit /\ [][SkillsNext]_skillVars
    /\ WF_skillVars(CoordinatorActs)
    /\ WF_skillVars(DeadlinePasses /\ UNCHANGED <<requestVars, local, ownVars>>)

-----------------------------------------------------------------------------
(* Properties                                                                *)

SkillsTypeOK ==
    /\ MapperTypeOK
    /\ contributor \in [Workers -> {"idle", "map", "over", "raised"}]
    /\ coordinator \in {"off", "wait", "aggregate", "gather", "over"}
    /\ result \in {"none", "ok", "cancelled", "map_failed", "missing", "aggregate_failed",
                   "minted", "mint_failed"}
    /\ coordinator = "over" <=> result # "none"
    /\ clear \in {"off", "list", "keys", "swept", "left"}
    /\ clearing \subseteq Keys
    /\ clear # "off" => skill = "median"
    /\ minting \in {"off", "chosen", "registered", "lost"}
    /\ definitions \in [Names -> {"nobody", "other", "coordinator"}]

\* The reference: every number of every worker, and its place among them.
AllNumbers == UNION {{w} \X DOMAIN local[w] : w \in Workers}
At(p) == local[p[1]][p[2]]
Count == Cardinality(AllNumbers)
KthSmallest(k) ==
    CHOOSE v \in {At(p) : p \in AllNumbers} :
        /\ Cardinality({p \in AllNumbers : At(p) < v}) < k
        /\ Cardinality({p \in AllNumbers : At(p) <= v}) >= k

\* A result that says ok is the statistic over every number every worker holds:
\* the sum and how many numbers there are, as contribute computes it (sum's
\* description, which the LLM reads, says n is how many workers), or the middle of
\* them in order; and the median says there are none only if there are.
AggregateRight ==
    /\ result = "ok" /\ skill = "sum" =>
          answer = <<FoldFunction(LAMBDA x, acc : x + acc, 0, [p \in AllNumbers |-> Transform(At(p))]), Count>>
    /\ result = "ok" /\ skill = "median" =>
          /\ Count > 0
          /\ answer = <<KthSmallest((Count + 1) \div 2) + KthSmallest((Count + 2) \div 2)>>
    /\ result = "aggregate_failed" /\ clear # "off" => Count = 0

\* A median leaves no value and no key behind, also when clearing single keys
\* failed, unless the last sweep or the listing before it fails too; and no late
\* Map of the invocation puts one back.
LeavesNothing ==
    clear = "swept" => keyList = {} /\ \A k \in Keys : chunks[k] = Absent

\* What create_scarlet answers is a scarlet with the description its coordinator
\* wrote, and no description is written for an attempt that ends otherwise.
\* (A write Redis refuses is lost, and the name is answered all the same.)
MintedStands ==
    /\ minting = "registered" => definitions[answer[1]] = "coordinator"
    /\ \A n \in Names : definitions[n] = "coordinator" => result = "minted" /\ answer = <<n>>

InGrammar(tree) ==
    \A i \in DOMAIN tree :
        \/ tree[i].kind = "number"
        \/ tree[i].kind = "name" /\ tree[i].id \in DOMAIN Bindings /\ Bindings[tree[i].id] # <<>>
        \/ tree[i].kind = "bin" /\ tree[i].op \in BinOps
        \/ tree[i].kind = "unary" /\ tree[i].op \in UnaryOps

\* combine gives a number only for an expression all of whose elements are in
\* the grammar and bound, also where the value does not depend on one of them,
\* and refuses only the others.  (Division by zero is neither: it is raised.)
GrammarOnly ==
    skill = "combine" /\ answer # <<>> =>
        /\ answer[1].is = "number" => InGrammar(Expressions[params])
        /\ answer[1].is = "refused" => ~InGrammar(Expressions[params])

\* sum and median are SkillBarrier: once the clearing has begun, the store as
\* it was gathered.  Its theorems hold of them.
Barrier == INSTANCE SkillBarrier WITH
    keyList <- IF clear = "off" THEN keyList ELSE Workers,
    chunks  <- IF clear = "off" THEN chunks ELSE maps
ImplementsBarrier == [][Aggregating => Barrier!Next \/ UNCHANGED Barrier!vars]_skillVars

\* Every answer that says ok is right, whichever skill gave it: the statistic over
\* every worker's numbers, the scarlet its coordinator described, the value of an
\* expression of the grammar (and everything has its type).
AnswerRight == SkillsTypeOK /\ AggregateRight /\ MintedStands /\ GrammarOnly
=============================================================================
