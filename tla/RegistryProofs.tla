---------------------------- MODULE RegistryProofs ----------------------------
(****************************************************************************)
(* Proofs about Registry, for any members, lives, reports, edits, ages and    *)
(* TTL, any number of commands that raise, with or without deaths: a worker    *)
(* that lives is found with what it reported last, one that died is not, a    *)
(* heartbeat that goes through keeps what it renews, and what the dead leave   *)
(* is gone in a TTL.                                                         *)
(*                                                                           *)
(* The inductive invariant is AgentInv, about one member's two threads and    *)
(* its record, and DefInv, about the definition they all renew.  A step of    *)
(* one member leaves AgentInv of every other as it is.                        *)
(****************************************************************************)
EXTENDS Registry, TLAPS

MainPlaces == {"off", "register", "regexpire", "exists", "define", "defexpire", "up", "report"}
BeatPlaces == {"off", "sleep", "register", "regexpire", "keep", "write", "touch",
               "exists", "define", "defexpire"}

\* Where the two threads of a member can be.
Shape(a) ==
    /\ at[Main(a)] \in MainPlaces /\ at[Beat(a)] \in BeatPlaces
    /\ alive[a] <=> at[Main(a)] # "off"
    /\ at[Main(a)] \in {"off", "register", "regexpire"} => at[Beat(a)] = "off"
    /\ at[Main(a)] \notin {"up", "report"} => beaten[a] = "new"
    /\ at[Beat(a)] \notin {"off", "sleep"} => beaten[a] = "done"
    /\ at[Main(a)] \notin {"up", "report"} =>
          current[a] = 0 /\ last[a] = 0 /\ at[Beat(a)] \notin {"keep", "write"}

\* Unless a heartbeat ran into a report, both threads agree on the last status,
\* and it is what the record says if its last write did not raise.
Agreed(a) ==
    ~overlap[a] =>
        /\ last[a] = current[a]
        /\ at[Beat(a)] \in {"keep", "write"} => arg[a] = current[a] /\ current[a] # 0
        /\ at[Beat(a)] \in {"register", "regexpire"} => current[a] = 0
        /\ current[a] # 0 /\ at[Main(a)] # "report" /\ ~unwritten[a] => record[a].status = current[a]

Registering(a) == "regexpire" \in {at[Main(a)], at[Beat(a)]}

\* A member that lives has a record, unless its last write raised, at most one tick
\* old, and a new one as soon as it has beaten, and between the two commands.
Fresh(a) ==
    /\ Registering(a) => record[a].age = 0 /\ record[a].ttl >= Ttl
    /\ at[Main(a)] \notin {"off", "register"} /\ ~unwritten[a] =>
        /\ record[a].ttl # 0 /\ record[a].age <= 1
        /\ beaten[a] # "due" /\ at[Beat(a)] \notin {"register", "keep", "write"} =>
              record[a].age = 0 /\ record[a].ttl >= Ttl

\* The record of a dead member is at least as old as its death, and has lost as
\* much of its TTL.
Aging(a) ==
    /\ record[a].ttl = 0 => record[a] = Absent
    /\ ~alive[a] => record[a] = Absent \/ dead[a] <= record[a].age \/ record[a].age > StaleAge
    /\ ~alive[a] => record[a].ttl \in {0, Forever} \/ record[a].ttl + dead[a] <= Ttl

\* A record without a TTL is being registered, or a Register of it was torn.
Expiring(a) == record[a].ttl = Forever => Registering(a) \/ torn[a]

AgentInv(a) == Shape(a) /\ Agreed(a) /\ Fresh(a) /\ Aging(a) /\ Expiring(a)

Nobody == \A a \in Members : ~alive[a]

\* A heartbeat that is done with the definition left one there unless it raised,
\* the Composer finds none missing but one that was deleted, or ran out on it, and
\* a definition nobody is left to renew runs out.
DefInv ==
    /\ \A a \in Members :
          beaten[a] = "done" /\ ~deleted =>
             /\ at[Beat(a)] = "sleep" => unrenewed[a] \/ def # Missing
             /\ at[Beat(a)] = "defexpire" => def # Missing
    /\ def = Missing /\ alive[Composer] => purged
    /\ at[Main(Composer)] \in {"define", "defexpire"} => purged
    /\ at[Beat(Composer)] \in {"exists", "define", "defexpire"} => purged
    /\ beaten[Composer] = "done" /\ at[Beat(Composer)] = "sleep" =>
          purged \/ unrenewed[Composer] \/ def.ttl >= Ttl
    /\ NeverBlank
    /\ Nobody => def.ttl \in {0, Forever} \/ def.ttl + idle <= Ttl

RegistryInv == (\A a \in Members : AgentInv(a)) /\ DefInv

-----------------------------------------------------------------------------
(* Frames                                                                    *)

USE RegistryAssumption, LivesAssumption

LEMMA ThreadFacts ==
  ASSUME NEW a \in Members, NEW b \in Members
  PROVE  /\ Main(a) \in Threads /\ Beat(a) \in Threads
         /\ Main(a) # Beat(b) /\ (Main(a) = Main(b) => a = b) /\ (Beat(a) = Beat(b) => a = b)
         /\ Main(a)[1] = a /\ Main(a)[2] = "main" /\ Beat(a)[1] = a /\ Beat(a)[2] = "beat"
BY DEF Threads, Main, Beat

LEMMA TheThreads ==
  ASSUME NEW t \in Threads
  PROVE  \E a \in Members : t = Main(a) \/ t = Beat(a)
BY DEF Threads, Main, Beat

\* A member that a step leaves alone.
Untouched(a) ==
    /\ at'[Main(a)] = at[Main(a)] /\ at'[Beat(a)] = at[Beat(a)]
    /\ alive'[a] = alive[a] /\ beaten'[a] = beaten[a] /\ dead'[a] = dead[a]
    /\ torn'[a] = torn[a] /\ unwritten'[a] = unwritten[a]
    /\ current'[a] = current[a] /\ last'[a] = last[a] /\ arg'[a] = arg[a]
    /\ record'[a] = record[a] /\ overlap'[a] = overlap[a]

LEMMA Others ==
  ASSUME NEW a \in Members, AgentInv(a), Untouched(a)
  PROVE  AgentInv(a)'
<1> USE DEF Untouched
<1>1. Shape(a)' /\ Agreed(a)'
  BY DEF AgentInv, Shape, Agreed, Main, Beat
<1>2. Fresh(a)' /\ Aging(a)' /\ Expiring(a)'
  BY DEF AgentInv, Fresh, Aging, Expiring, Registering, Main, Beat
<1> QED
  BY <1>1, <1>2 DEF AgentInv

\* A step that changes neither the definition nor the place of a thread at it.
LEMMA DefFrame ==
  ASSUME TypeOK, DefInv, UNCHANGED <<def, deleted, purged>>,
         alive'[Composer] => alive[Composer] \/ def # Missing,
         Nobody' => idle' = 0 \/ (Nobody /\ idle' = idle),
         at'[Main(Composer)] = at[Main(Composer)] \/ at'[Main(Composer)] \notin {"define", "defexpire"},
         \A a \in Members :
            \/ /\ at'[Beat(a)] = at[Beat(a)] /\ beaten'[a] = beaten[a]
               /\ unrenewed'[a] = unrenewed[a]
            \/ at'[Beat(a)] \notin {"sleep", "exists", "define", "defexpire"}
            \/ beaten'[a] # "done" /\ at'[Beat(a)] = "sleep"
  PROVE  DefInv'
<1>1. Composer \in Members
  BY DEF Members
<1>2. Nobody' => def'.ttl \in {0, Forever} \/ def'.ttl + idle' <= Ttl
  <2>1. def.ttl \in 0 .. Forever
    BY DEF TypeOK, Missing, Forever
  <2>2. def.ttl \in {0, Forever} \/ def.ttl + 0 <= Ttl
    BY <2>1 DEF Forever
  <2> QED
    BY <2>2 DEF DefInv
<1>3. \A a \in Members : beaten'[a] = "done" /\ ~deleted' =>
         /\ at'[Beat(a)] = "sleep" => unrenewed'[a] \/ def' # Missing
         /\ at'[Beat(a)] = "defexpire" => def' # Missing
  BY DEF DefInv
<1>4. /\ def' = Missing /\ alive'[Composer] => purged'
      /\ at'[Main(Composer)] \in {"define", "defexpire"} => purged'
      /\ at'[Beat(Composer)] \in {"exists", "define", "defexpire"} => purged'
  BY <1>1 DEF DefInv
<1>5. /\ beaten'[Composer] = "done" /\ at'[Beat(Composer)] = "sleep" =>
            purged' \/ unrenewed'[Composer] \/ def'.ttl >= Ttl
      /\ NeverBlank'
  BY <1>1 DEF DefInv, NeverBlank
<1> QED
  BY <1>2, <1>3, <1>4, <1>5 DEF DefInv, Main, Beat

\* The type of a record and of a thread's place after a step.
Records == [status : 0 .. MaxReports, age : 0 .. StaleAge + 1, ttl : 0 .. Forever]
Places  == {"off", "register", "regexpire", "exists", "define", "defexpire",
            "up", "report", "sleep", "keep", "write", "touch"}

LEMMA PutType ==
  ASSUME TypeOK, NEW a \in Members, NEW status \in 0 .. MaxReports, NEW ttl \in 1 .. Forever,
         Put(a, status, ttl)
  PROVE  /\ record' \in [Members -> Records]
         /\ record'[a].status = status /\ record'[a].age = 0 /\ record'[a].ttl = ttl
         /\ \A b \in Members : b # a => record'[b] = record[b]
<1>1. record \in [Members -> Records]
  BY DEF TypeOK, Records
<1>2. [status |-> status, age |-> 0, ttl |-> ttl] \in Records
  BY DEF Records, Forever
<1> QED
  BY <1>1, <1>2 DEF Put

LEMMA GotoType ==
  ASSUME TypeOK, NEW t \in Threads, NEW where \in Places, Goto(t, where)
  PROVE  /\ at' \in [Threads -> Places]
         /\ at'[t] = where
         /\ \A u \in Threads : u # t => at'[u] = at[u]
BY DEF Goto, TypeOK, Places
LEMMA OtherThreads ==
  ASSUME NEW b \in Members, NEW t, t = Main(b) \/ t = Beat(b),
         \A u \in Threads : u # t => at'[u] = at[u]
  PROVE  /\ \A a \in Members : a # b => at'[Main(a)] = at[Main(a)] /\ at'[Beat(a)] = at[Beat(a)]
         /\ t = Main(b) => at'[Beat(b)] = at[Beat(b)]
         /\ t = Beat(b) => at'[Main(b)] = at[Main(b)]
BY ThreadFacts

LEMMA Assemble ==
  ASSUME RegistryInv, NEW b \in Members, \A a \in Members : a # b => Untouched(a),
         AgentInv(b)', DefInv'
  PROVE  RegistryInv'
<1>1. ASSUME NEW a \in Members PROVE AgentInv(a)'
  <2>1. CASE a = b
    BY <2>1
  <2>2. CASE a # b
    BY <2>2, Others DEF RegistryInv
  <2> QED
    BY <2>1, <2>2
<1> QED
  BY <1>1 DEF RegistryInv

-----------------------------------------------------------------------------
(* The registration                                                          *)

USE DEF agentVars, defVars, lifeVars, beatVars

LEMMA StartStep ==
  ASSUME TypeOK, RegistryInv, NEW b \in Members, Start(b)
  PROVE  TypeOK' /\ RegistryInv'
<1>1. /\ ~alive[b] /\ starts[b] < Lives[b] /\ (b = Composer => def # Missing)
      /\ starts' = [starts EXCEPT ![b] = starts[b] + 1]
      /\ alive' = [alive EXCEPT ![b] = TRUE]
      /\ Goto(Main(b), "register")
      /\ UNCHANGED <<dead, raises, agentVars, beatVars, defVars>>
  BY DEF Start
<1>2. Main(b) \in Threads /\ Beat(b) \in Threads /\ "register" \in Places
  BY ThreadFacts DEF Places
<1>3. /\ at' \in [Threads -> Places] /\ at'[Main(b)] = "register"
      /\ \A u \in Threads : u # Main(b) => at'[u] = at[u]
  BY <1>1, <1>2, GotoType
<1>4. /\ \A a \in Members : a # b => at'[Main(a)] = at[Main(a)] /\ at'[Beat(a)] = at[Beat(a)]
      /\ at'[Beat(b)] = at[Beat(b)]
  BY <1>3, OtherThreads
<1>5. alive'[b] = TRUE /\ alive' \in [Members -> BOOLEAN] /\ \A a \in Members : a # b => alive'[a] = alive[a]
  BY <1>1 DEF TypeOK
<1>6. TypeOK'
  <2>1. DOMAIN starts' = Members /\ \A a \in Members : starts'[a] \in 0 .. Lives[a]
    <3>1. ASSUME NEW a \in Members PROVE starts'[a] \in 0 .. Lives[a]
      <4>1. starts[a] \in 0 .. Lives[a] /\ Lives[a] \in Nat
        BY DEF TypeOK
      <4>2. CASE a = b
        BY <1>1, <4>1, <4>2 DEF TypeOK
      <4>3. CASE a # b
        BY <1>1, <4>1, <4>3 DEF TypeOK
      <4> QED
        BY <4>2, <4>3
    <3> QED
      BY <1>1, <3>1 DEF TypeOK
  <2> QED
    BY <1>1, <1>3, <1>5, <2>1 DEF TypeOK, Places
<1>7. \A a \in Members : a # b => Untouched(a)
  BY <1>1, <1>4, <1>5 DEF Untouched
<1>8. AgentInv(b)'
  <2>1. /\ Shape(b) /\ Agreed(b) /\ Aging(b) /\ Expiring(b)
        /\ at[Main(b)] = "off" /\ at[Beat(b)] = "off"
    BY <1>1 DEF RegistryInv, AgentInv, Shape
  <2>2. Shape(b)'
    BY <1>1, <1>3, <1>4, <1>5, <2>1 DEF Shape, MainPlaces, BeatPlaces, Main, Beat
  <2>3. Agreed(b)' /\ Expiring(b)'
    BY <1>1, <1>3, <1>4, <2>1 DEF Agreed, Expiring, Registering, Main, Beat, Shape
  <2>4. Fresh(b)' /\ Aging(b)'
    BY <1>1, <1>3, <1>4, <1>5, <2>1 DEF Fresh, Aging, Registering, Main, Beat
  <2> QED
    BY <2>2, <2>3, <2>4 DEF AgentInv
<1>9. DefInv'
  <2>1. DefInv
    BY DEF RegistryInv
  <2>2. /\ \A a \in Members : /\ at'[Beat(a)] = at[Beat(a)] /\ beaten'[a] = beaten[a]
                              /\ unrenewed'[a] = unrenewed[a]
        /\ ~Nobody'
    BY <1>1, <1>4, <1>5 DEF Nobody
  <2>3. /\ alive'[Composer] => alive[Composer] \/ def # Missing
        /\ at'[Main(Composer)] = at[Main(Composer)] \/ at'[Main(Composer)] \notin {"define", "defexpire"}
    BY <1>1, <1>3, <1>4, <1>5 DEF Members
  <2> QED
    BY <1>1, <2>1, <2>2, <2>3, DefFrame DEF Nobody
<1> QED
  BY <1>6, <1>7, <1>8, <1>9, Assemble

LEMMA RegisterSetStep ==
  ASSUME TypeOK, RegistryInv, NEW t \in Threads, RegisterSet(t)
  PROVE  TypeOK' /\ RegistryInv'
<1>1. PICK b \in Members : t = Main(b) \/ t = Beat(b)
  BY TheThreads
<1>2. /\ at[t] = "register" /\ Put(b, 0, Forever) /\ Goto(t, "regexpire")
      /\ UNCHANGED <<lifeVars, current, last, arg, overlap, torn, unwritten, beatVars, defVars>>
  BY <1>1, ThreadFacts DEF RegisterSet
<1>3. 0 \in 0 .. MaxReports /\ Forever \in 1 .. Forever /\ "regexpire" \in Places
  BY DEF Forever, Places
<1>4. /\ record' \in [Members -> Records]
      /\ record'[b].status = 0 /\ record'[b].age = 0 /\ record'[b].ttl = Forever
      /\ \A a \in Members : a # b => record'[a] = record[a]
  BY <1>2, <1>3, PutType
<1>5. /\ at' \in [Threads -> Places] /\ at'[t] = "regexpire"
      /\ \A u \in Threads : u # t => at'[u] = at[u]
  BY <1>2, <1>3, GotoType
<1>6. /\ \A a \in Members : a # b => at'[Main(a)] = at[Main(a)] /\ at'[Beat(a)] = at[Beat(a)]
      /\ t = Main(b) => at'[Beat(b)] = at[Beat(b)]
      /\ t = Beat(b) => at'[Main(b)] = at[Main(b)]
  BY <1>1, <1>5, OtherThreads
<1>7. TypeOK'
  BY <1>2, <1>4, <1>5 DEF TypeOK, Records, Places
<1>8. \A a \in Members : a # b => Untouched(a)
  BY <1>2, <1>4, <1>6 DEF Untouched
<1>9. AgentInv(b)'
  <2>1. Shape(b) /\ Agreed(b)
    BY DEF RegistryInv, AgentInv
  <2>2. alive[b]
    BY <1>1, <1>2, <2>1 DEF Shape
  <2>3. Shape(b)'
    BY <1>1, <1>2, <1>5, <1>6, <2>1 DEF Shape, MainPlaces, BeatPlaces, Main, Beat
  <2>4. Agreed(b)'
    <3>1. ~overlap[b] => current[b] = 0
      BY <1>1, <1>2, <2>1 DEF Shape, Agreed
    <3> QED
      BY <1>1, <1>2, <1>4, <1>5, <1>6, <2>1, <3>1 DEF Agreed, Shape, Main, Beat
  <2>5. Fresh(b)' /\ Aging(b)' /\ Expiring(b)'
    BY <1>1, <1>2, <1>4, <1>5, <1>6, <2>2 DEF Fresh, Aging, Expiring, Registering, Main, Beat, Forever
  <2> QED
    BY <2>3, <2>4, <2>5 DEF AgentInv
<1>10. DefInv'
  <2>1. DefInv
    BY DEF RegistryInv
  <2>2. \A a \in Members : \/ /\ at'[Beat(a)] = at[Beat(a)] /\ beaten'[a] = beaten[a]
                              /\ unrenewed'[a] = unrenewed[a]
                           \/ at'[Beat(a)] \notin {"sleep", "exists", "define", "defexpire"}
    BY <1>1, <1>2, <1>5, <1>6
  <2>3. at'[Main(Composer)] = at[Main(Composer)] \/ at'[Main(Composer)] \notin {"define", "defexpire"}
    BY <1>1, <1>5, <1>6 DEF Members
  <2> QED
    BY <1>2, <2>1, <2>2, <2>3, DefFrame DEF Nobody
<1> QED
  BY <1>7, <1>8, <1>9, <1>10, Assemble

\* Register is over, whether it raised or not.
LEMMA RegisteredStep ==
  ASSUME TypeOK, RegistryInv, NEW b \in Members, NEW t, t = Main(b) \/ t = Beat(b),
         at[t] \in {"register", "regexpire"}, Registered(t),
         record' \in [Members -> Records], torn' \in [Members -> BOOLEAN],
         unwritten' \in [Members -> BOOLEAN], raises' \in 0 .. MaxRaises,
         \A a \in Members : a # b =>
            record'[a] = record[a] /\ torn'[a] = torn[a] /\ unwritten'[a] = unwritten[a],
         unwritten'[b] \/ (record'[b].age = 0 /\ record'[b].ttl >= Ttl),
         record'[b].ttl = 0 => record'[b] = Absent,
         record'[b].ttl = Forever => torn'[b],
         UNCHANGED <<starts, alive, dead, current, last, arg, overlap, beatVars, defVars>>
  PROVE  TypeOK' /\ RegistryInv'
<1>2. Main(b) \in Threads /\ Beat(b) \in Threads /\ Main(b) # Beat(b)
  BY ThreadFacts
<1>3. /\ t = Main(b) => at' = [at EXCEPT ![Main(b)] = "exists", ![Beat(b)] = "sleep"]
      /\ t = Beat(b) => at' = [at EXCEPT ![Beat(b)] = "touch"]
  <2>1. CASE t = Main(b)
    <3>1. t[1] = b /\ t[2] = "main"
      BY <2>1, ThreadFacts
    <3> QED
      BY <1>2, <2>1, <3>1 DEF Registered
  <2>2. CASE t = Beat(b)
    <3>1. t[1] = b /\ t[2] # "main"
      BY <2>2, ThreadFacts
    <3> QED
      BY <1>2, <2>2, <3>1 DEF Registered
  <2> QED
    BY <2>1, <2>2
<1>4. Shape(b) /\ Agreed(b) /\ Fresh(b) /\ Aging(b) /\ Expiring(b)
  BY DEF RegistryInv, AgentInv
<1>7. /\ at' \in [Threads -> Places]
      /\ t = Main(b) => at'[Main(b)] = "exists" /\ at'[Beat(b)] = "sleep"
      /\ t = Beat(b) => at'[Main(b)] = at[Main(b)] /\ at'[Beat(b)] = "touch"
      /\ \A a \in Members : a # b => at'[Main(a)] = at[Main(a)] /\ at'[Beat(a)] = at[Beat(a)]
  <2>1. at \in [Threads -> Places]
    BY DEF TypeOK, Places
  <2>2. {"exists", "sleep", "touch"} \subseteq Places
    BY DEF Places
  <2>3. at' \in [Threads -> Places]
    BY <1>2, <1>3, <2>1, <2>2
  <2>4. \A u \in Threads : u # Main(b) /\ u # Beat(b) => at'[u] = at[u]
    BY <1>2, <1>3, <2>1
  <2>5. \A a \in Members : a # b => at'[Main(a)] = at[Main(a)] /\ at'[Beat(a)] = at[Beat(a)]
    BY <2>4, ThreadFacts
  <2>6. t = Main(b) => at'[Main(b)] = "exists" /\ at'[Beat(b)] = "sleep"
    BY <1>2, <1>3, <2>1
  <2>7. t = Beat(b) => at'[Main(b)] = at[Main(b)] /\ at'[Beat(b)] = "touch"
    BY <1>2, <1>3, <2>1
  <2> QED
    BY <2>3, <2>5, <2>6, <2>7
<1>8. TypeOK'
  BY <1>7 DEF TypeOK, Records, Places
<1>9. \A a \in Members : a # b => Untouched(a)
  BY <1>7 DEF Untouched
<1>10. AgentInv(b)'
  <2>1. Shape(b)'
    BY <1>4, <1>7 DEF Shape, MainPlaces, BeatPlaces, Main, Beat
  <2>2. Agreed(b)'
    BY <1>4, <1>7 DEF Agreed, Shape, Main, Beat
  <2>3. ~Registering(b)'
    BY <1>4, <1>7 DEF Registering, Shape, Main, Beat
  <2>4. Fresh(b)'
    <3>1. unwritten'[b] \/ (record'[b].ttl # 0 /\ record'[b].age <= 1)
      OBVIOUS
    <3> QED
      BY <2>3, <3>1 DEF Fresh
  <2>5. alive'[b] = TRUE
    BY <1>4 DEF Shape, TypeOK
  <2>6. Aging(b)' /\ Expiring(b)'
    BY <2>5 DEF Aging, Expiring
  <2> QED
    BY <2>1, <2>2, <2>4, <2>6 DEF AgentInv
<1>11. DefInv'
  <2>1. DefInv
    BY DEF RegistryInv
  <2>2. \A a \in Members : \/ /\ at'[Beat(a)] = at[Beat(a)] /\ beaten'[a] = beaten[a]
                              /\ unrenewed'[a] = unrenewed[a]
                           \/ at'[Beat(a)] \notin {"sleep", "exists", "define", "defexpire"}
                           \/ beaten'[a] # "done" /\ at'[Beat(a)] = "sleep"
    BY <1>4, <1>7 DEF Shape
  <2>3. at'[Main(Composer)] = at[Main(Composer)] \/ at'[Main(Composer)] \notin {"define", "defexpire"}
    BY <1>7 DEF Members
  <2> QED
    BY <2>1, <2>2, <2>3, DefFrame DEF Nobody
<1> QED
  BY <1>8, <1>9, <1>10, <1>11, Assemble

LEMMA RegisterEndStep ==
  ASSUME TypeOK, RegistryInv, NEW t \in Threads,
         RegisterExpire(t) \/ RegisterSetRaises(t) \/ RegisterExpireRaises(t)
  PROVE  TypeOK' /\ RegistryInv'
<1>1. PICK b \in Members : (t = Main(b) \/ t = Beat(b)) /\ t[1] = b
  BY TheThreads, ThreadFacts
<1>2. /\ Shape(b) /\ Fresh(b) /\ Aging(b) /\ Expiring(b)
      /\ record \in [Members -> Records] /\ record[b] \in Records
      /\ torn \in [Members -> BOOLEAN] /\ unwritten \in [Members -> BOOLEAN]
  BY DEF RegistryInv, AgentInv, TypeOK, Records
<1>3. Expire(b) /\ at[t] = "regexpire" =>
         /\ record' \in [Members -> Records]
         /\ record'[b].age = 0 /\ record'[b].ttl = Ttl
         /\ \A a \in Members : a # b => record'[a] = record[a]
  <2> SUFFICES ASSUME Expire(b), at[t] = "regexpire"
               PROVE  /\ record' \in [Members -> Records]
                      /\ record'[b].age = 0 /\ record'[b].ttl = Ttl
                      /\ \A a \in Members : a # b => record'[a] = record[a]
    OBVIOUS
  <2>1. record[b].age = 0 /\ record[b].ttl # 0
    BY <1>1, <1>2 DEF Fresh, Registering
  <2>2. record' = [record EXCEPT ![b] = [record[b] EXCEPT !.ttl = Ttl]]
    <3>1. record[b] # Absent
      BY <2>1 DEF Absent
    <3> QED
      BY <3>1 DEF Expire, Exists
  <2>3. [record[b] EXCEPT !.ttl = Ttl] \in Records
    BY <1>2 DEF Records, Forever
  <2>4. [record[b] EXCEPT !.ttl = Ttl].age = 0 /\ [record[b] EXCEPT !.ttl = Ttl].ttl = Ttl
    BY <1>2, <2>1 DEF Records
  <2> QED
    BY <1>2, <2>2, <2>3, <2>4
<1>4. CASE RegisterExpire(t)
  <2>1. /\ at[t] = "regexpire" /\ Expire(b) /\ Written(b) /\ Registered(t)
        /\ UNCHANGED <<lifeVars, current, last, arg, overlap, beatVars, defVars>>
    BY <1>1, <1>4 DEF RegisterExpire
  <2>2. /\ torn' \in [Members -> BOOLEAN] /\ unwritten' \in [Members -> BOOLEAN]
        /\ \A a \in Members : a # b => torn'[a] = torn[a] /\ unwritten'[a] = unwritten[a]
    BY <1>2, <2>1 DEF Written
  <2>3. raises' \in 0 .. MaxRaises
    BY <2>1 DEF TypeOK
  <2> QED
    BY <1>1, <1>3, <2>1, <2>2, <2>3, RegisteredStep DEF Forever
<1>5. CASE RegisterSetRaises(t) \/ RegisterExpireRaises(t)
  <2>1. /\ at[t] \in {"register", "regexpire"} /\ Unwritten(b) /\ Registered(t)
        /\ UNCHANGED <<starts, alive, dead, current, last, arg, overlap, beatVars, defVars>>
    BY <1>1, <1>5 DEF RegisterSetRaises, RegisterExpireRaises, Unwritten, Raises
  <2>2. \/ at[t] = "register" /\ UNCHANGED <<record, torn>>
        \/ at[t] = "register" /\ Put(b, 0, Forever) /\ torn' = [torn EXCEPT ![b] = TRUE]
        \/ at[t] = "regexpire" /\ Expire(b) /\ UNCHANGED torn
        \/ at[t] = "regexpire" /\ UNCHANGED record /\ torn' = [torn EXCEPT ![b] = Half(b)]
    BY <1>1, <1>5 DEF RegisterSetRaises, RegisterExpireRaises
  <2>3. /\ unwritten' \in [Members -> BOOLEAN] /\ unwritten'[b] = TRUE
        /\ \A a \in Members : a # b => unwritten'[a] = unwritten[a]
        /\ raises' \in 0 .. MaxRaises
    BY <1>2, <2>1 DEF Unwritten, Raises, TypeOK
  <2>4. /\ torn' \in [Members -> BOOLEAN]
        /\ \A a \in Members : a # b => torn'[a] = torn[a]
    <3>1. Half(b) \in BOOLEAN
      BY DEF Half
    <3> QED
      BY <1>2, <2>2, <3>1
  <2>5. /\ record' \in [Members -> Records]
        /\ \A a \in Members : a # b => record'[a] = record[a]
        /\ record'[b].ttl = 0 => record'[b] = Absent
    <3>1. CASE UNCHANGED record
      BY <1>2, <3>1 DEF Aging
    <3>2. CASE Put(b, 0, Forever)
      <4>1. 0 \in 0 .. MaxReports /\ Forever \in 1 .. Forever
        BY DEF Forever
      <4> QED
        BY <3>2, <4>1, PutType DEF Forever
    <3>3. CASE at[t] = "regexpire" /\ Expire(b)
      BY <1>3, <3>3
    <3> QED
      BY <2>2, <3>1, <3>2, <3>3
  <2>6. record'[b].ttl = Forever => torn'[b]
    <3>1. CASE at[t] = "register" /\ UNCHANGED <<record, torn>>
      <4>1. ~Registering(b)
        BY <1>1, <1>2, <3>1 DEF Registering, Shape
      <4> QED
        BY <1>2, <3>1, <4>1 DEF Expiring
    <3>2. CASE torn' = [torn EXCEPT ![b] = TRUE]
      BY <1>2, <3>2
    <3>3. CASE at[t] = "regexpire" /\ Expire(b)
      BY <1>3, <3>3 DEF Forever
    <3>4. CASE UNCHANGED record /\ torn' = [torn EXCEPT ![b] = Half(b)]
      <4>1. torn'[b] = Half(b)
        BY <1>2, <3>4
      <4> QED
        BY <3>4, <4>1 DEF Half
    <3> QED
      BY <2>2, <3>1, <3>2, <3>3, <3>4
  <2> QED
    BY <1>1, <2>1, <2>3, <2>4, <2>5, <2>6, RegisteredStep
<1> QED
  BY <1>4, <1>5

-----------------------------------------------------------------------------
(* Reports and heartbeats                                                    *)

LEMMA ReportStep ==
  ASSUME TypeOK, RegistryInv, NEW b \in Members, Report(b)
  PROVE  TypeOK' /\ RegistryInv'
<1>1. /\ at[Main(b)] = "up" /\ current[b] < MaxReports
      /\ current' = [current EXCEPT ![b] = current[b] + 1]
      /\ last' = [last EXCEPT ![b] = current[b] + 1]
      /\ overlap' = [overlap EXCEPT ![b] = overlap[b] \/ InRegistry(Beat(b))]
      /\ Goto(Main(b), "report")
      /\ UNCHANGED <<lifeVars, arg, record, torn, unwritten, beatVars, defVars>>
  BY DEF Report
<1>2. Main(b) \in Threads /\ Beat(b) \in Threads /\ "report" \in Places
  BY ThreadFacts DEF Places
<1>3. /\ at' \in [Threads -> Places] /\ at'[Main(b)] = "report"
      /\ \A u \in Threads : u # Main(b) => at'[u] = at[u]
  BY <1>1, <1>2, GotoType
<1>4. /\ \A a \in Members : a # b => at'[Main(a)] = at[Main(a)] /\ at'[Beat(a)] = at[Beat(a)]
      /\ at'[Beat(b)] = at[Beat(b)]
  BY <1>3, OtherThreads
<1>5. current[b] + 1 \in 1 .. MaxReports
  BY <1>1 DEF TypeOK
<1>6. /\ current' \in [Members -> 0 .. MaxReports] /\ last' \in [Members -> 0 .. MaxReports]
      /\ current'[b] = current[b] + 1 /\ last'[b] = current[b] + 1
      /\ \A a \in Members : a # b => current'[a] = current[a] /\ last'[a] = last[a]
  BY <1>1, <1>5 DEF TypeOK
<1>7. /\ overlap' \in [Members -> BOOLEAN]
      /\ ~overlap'[b] => ~InRegistry(Beat(b))
      /\ \A a \in Members : a # b => overlap'[a] = overlap[a]
  <2>1. (overlap[b] \/ InRegistry(Beat(b))) \in BOOLEAN
    BY DEF TypeOK, InRegistry
  <2> QED
    BY <1>1, <2>1 DEF TypeOK
<1>8. TypeOK'
  BY <1>1, <1>3, <1>6, <1>7 DEF TypeOK, Places
<1>9. \A a \in Members : a # b => Untouched(a)
  BY <1>1, <1>4, <1>6, <1>7 DEF Untouched
<1>10. AgentInv(b)'
  <2>1. Shape(b) /\ Fresh(b) /\ Aging(b) /\ Expiring(b)
    BY DEF RegistryInv, AgentInv
  <2>2. Shape(b)'
    BY <1>1, <1>3, <1>4, <2>1 DEF Shape, MainPlaces, BeatPlaces, Main, Beat
  <2>3. Agreed(b)'
    BY <1>3, <1>4, <1>6, <1>7 DEF Agreed, InRegistry, Main, Beat
  <2>4. Fresh(b)' /\ Aging(b)' /\ Expiring(b)'
    BY <1>1, <1>3, <1>4, <2>1 DEF Fresh, Aging, Expiring, Registering, Main, Beat
  <2> QED
    BY <2>2, <2>3, <2>4 DEF AgentInv
<1>11. DefInv'
  <2>1. DefInv
    BY DEF RegistryInv
  <2>2. \A a \in Members : /\ at'[Beat(a)] = at[Beat(a)] /\ beaten'[a] = beaten[a]
                           /\ unrenewed'[a] = unrenewed[a]
    BY <1>1, <1>4
  <2>3. at'[Main(Composer)] = at[Main(Composer)] \/ at'[Main(Composer)] \notin {"define", "defexpire"}
    BY <1>3, <1>4 DEF Members
  <2> QED
    BY <1>1, <2>1, <2>2, <2>3, DefFrame DEF Nobody
<1> QED
  BY <1>8, <1>9, <1>10, <1>11, Assemble

\* The SET of a report or a heartbeat, whether it raised or not.
LEMMA WriteFacts ==
  ASSUME TypeOK, NEW b \in Members, NEW status \in 0 .. MaxReports,
         \/ Put(b, status, Ttl) /\ Written(b) /\ UNCHANGED lifeVars
         \/ (UNCHANGED record \/ Put(b, status, Ttl)) /\ Unwritten(b) /\ UNCHANGED torn
  PROVE  /\ record' \in [Members -> Records] /\ torn' \in [Members -> BOOLEAN]
         /\ unwritten' \in [Members -> BOOLEAN] /\ raises' \in 0 .. MaxRaises
         /\ UNCHANGED <<starts, alive, dead>>
         /\ \A a \in Members : a # b =>
               record'[a] = record[a] /\ torn'[a] = torn[a] /\ unwritten'[a] = unwritten[a]
         /\ \/ record'[b].status = status /\ record'[b].age = 0 /\ record'[b].ttl = Ttl
            \/ unwritten'[b] /\ record'[b] = record[b] /\ torn'[b] = torn[b]
<1>1. /\ record \in [Members -> Records] /\ torn \in [Members -> BOOLEAN]
      /\ unwritten \in [Members -> BOOLEAN] /\ raises \in 0 .. MaxRaises
  BY DEF TypeOK, Records
<1>2. Put(b, status, Ttl) =>
         /\ record' \in [Members -> Records]
         /\ record'[b].status = status /\ record'[b].age = 0 /\ record'[b].ttl = Ttl
         /\ \A a \in Members : a # b => record'[a] = record[a]
  <2>1. Ttl \in 1 .. Forever
    BY DEF Forever
  <2> QED
    BY <2>1, PutType
<1>3. CASE Put(b, status, Ttl) /\ Written(b) /\ UNCHANGED lifeVars
  BY <1>1, <1>2, <1>3 DEF Written
<1>4. CASE (UNCHANGED record \/ Put(b, status, Ttl)) /\ Unwritten(b) /\ UNCHANGED torn
  <2>1. /\ unwritten' \in [Members -> BOOLEAN] /\ unwritten'[b] = TRUE
        /\ \A a \in Members : a # b => unwritten'[a] = unwritten[a]
        /\ raises' \in 0 .. MaxRaises /\ UNCHANGED <<starts, alive, dead>>
    BY <1>1, <1>4 DEF Unwritten, Raises
  <2>2. CASE UNCHANGED record
    BY <1>1, <1>4, <2>1, <2>2
  <2>3. CASE Put(b, status, Ttl)
    BY <1>1, <1>2, <1>4, <2>1, <2>3
  <2> QED
    BY <1>4, <2>2, <2>3
<1> QED
  BY <1>3, <1>4

LEMMA ReportSetStep ==
  ASSUME TypeOK, RegistryInv, NEW b \in Members, ReportSet(b) \/ ReportSetRaises(b)
  PROVE  TypeOK' /\ RegistryInv'
<1>1. /\ at[Main(b)] = "report" /\ Goto(Main(b), "up")
      /\ \/ Put(b, current[b], Ttl) /\ Written(b) /\ UNCHANGED lifeVars
         \/ (UNCHANGED record \/ Put(b, current[b], Ttl)) /\ Unwritten(b) /\ UNCHANGED torn
      /\ UNCHANGED <<current, last, arg, overlap, beatVars, defVars>>
  BY DEF ReportSet, ReportSetRaises
<1>2. Main(b) \in Threads /\ Beat(b) \in Threads /\ "up" \in Places
  BY ThreadFacts DEF Places
<1>3. /\ at' \in [Threads -> Places] /\ at'[Main(b)] = "up"
      /\ \A u \in Threads : u # Main(b) => at'[u] = at[u]
  BY <1>1, <1>2, GotoType
<1>4. /\ \A a \in Members : a # b => at'[Main(a)] = at[Main(a)] /\ at'[Beat(a)] = at[Beat(a)]
      /\ at'[Beat(b)] = at[Beat(b)]
  BY <1>3, OtherThreads
<1>5. /\ record' \in [Members -> Records] /\ torn' \in [Members -> BOOLEAN]
      /\ unwritten' \in [Members -> BOOLEAN] /\ raises' \in 0 .. MaxRaises
      /\ UNCHANGED <<starts, alive, dead>>
      /\ \A a \in Members : a # b =>
            record'[a] = record[a] /\ torn'[a] = torn[a] /\ unwritten'[a] = unwritten[a]
      /\ \/ record'[b].status = current[b] /\ record'[b].age = 0 /\ record'[b].ttl = Ttl
         \/ unwritten'[b] /\ record'[b] = record[b] /\ torn'[b] = torn[b]
  <2>1. current[b] \in 0 .. MaxReports
    BY DEF TypeOK
  <2> QED
    BY <1>1, <2>1, WriteFacts
<1>6. TypeOK'
  BY <1>1, <1>3, <1>5 DEF TypeOK, Places, Records
<1>7. \A a \in Members : a # b => Untouched(a)
  BY <1>1, <1>4, <1>5 DEF Untouched
<1>8. AgentInv(b)'
  <2>1. Shape(b) /\ Agreed(b) /\ Fresh(b) /\ Aging(b) /\ Expiring(b)
    BY DEF RegistryInv, AgentInv
  <2>2. Shape(b)'
    BY <1>1, <1>3, <1>4, <1>5, <2>1 DEF Shape, MainPlaces, BeatPlaces, Main, Beat
  <2>3. Agreed(b)'
    BY <1>1, <1>3, <1>4, <1>5, <2>1 DEF Agreed, Main, Beat
  <2>4. alive'[b]
    BY <1>1, <1>5, <2>1 DEF Shape
  <2>5. Registering(b)' = Registering(b)
    BY <1>1, <1>3, <1>4 DEF Registering, Main, Beat
  <2>6. Fresh(b)' /\ Aging(b)' /\ Expiring(b)'
    <3>1. CASE record'[b].age = 0 /\ record'[b].ttl = Ttl
      BY <2>4, <3>1 DEF Fresh, Aging, Expiring, Forever
    <3>2. CASE unwritten'[b] /\ record'[b] = record[b] /\ torn'[b] = torn[b]
      BY <2>1, <2>4, <2>5, <3>2 DEF Fresh, Aging, Expiring
    <3> QED
      BY <1>5, <3>1, <3>2
  <2> QED
    BY <2>2, <2>3, <2>6 DEF AgentInv
<1>9. DefInv'
  <2>1. DefInv
    BY DEF RegistryInv
  <2>2. \A a \in Members : /\ at'[Beat(a)] = at[Beat(a)] /\ beaten'[a] = beaten[a]
                           /\ unrenewed'[a] = unrenewed[a]
    BY <1>1, <1>4
  <2>3. at'[Main(Composer)] = at[Main(Composer)] \/ at'[Main(Composer)] \notin {"define", "defexpire"}
    BY <1>3, <1>4 DEF Members
  <2> QED
    BY <1>1, <1>5, <2>1, <2>2, <2>3, DefFrame DEF Nobody
<1> QED
  BY <1>6, <1>7, <1>8, <1>9, Assemble

LEMMA BeatBeginStep ==
  ASSUME TypeOK, RegistryInv, NEW b \in Members, BeatBegin(b)
  PROVE  TypeOK' /\ RegistryInv'
<1>1. /\ at[Beat(b)] = "sleep" /\ beaten[b] = "due"
      /\ beaten' = [beaten EXCEPT ![b] = "done"]
      /\ overlap' = [overlap EXCEPT ![b] = overlap[b] \/ at[Main(b)] = "report"]
      /\ \/ last[b] = 0 /\ Goto(Beat(b), "register") /\ UNCHANGED arg
         \/ last[b] # 0 /\ Goto(Beat(b), "keep") /\ arg' = [arg EXCEPT ![b] = last[b]]
      /\ UNCHANGED <<lifeVars, current, last, record, torn, unwritten, unrenewed, defVars>>
  BY DEF BeatBegin
<1>2. Main(b) \in Threads /\ Beat(b) \in Threads /\ {"register", "keep"} \subseteq Places
  BY ThreadFacts DEF Places
<1>3. PICK where \in {"register", "keep"} :
         Goto(Beat(b), where) /\ (where = "register" <=> last[b] = 0)
  BY <1>1
<1>4. /\ at' \in [Threads -> Places] /\ at'[Beat(b)] = where
      /\ \A u \in Threads : u # Beat(b) => at'[u] = at[u]
  BY <1>2, <1>3, GotoType
<1>5. /\ \A a \in Members : a # b => at'[Main(a)] = at[Main(a)] /\ at'[Beat(a)] = at[Beat(a)]
      /\ at'[Main(b)] = at[Main(b)]
  BY <1>4, OtherThreads
<1>6. /\ arg' \in [Members -> 0 .. MaxReports]
      /\ where = "keep" => arg'[b] = last[b]
      /\ \A a \in Members : a # b => arg'[a] = arg[a]
  <2>1. arg' = arg \/ arg' = [arg EXCEPT ![b] = last[b]]
    BY <1>1
  <2>2. where = "keep" => arg' = [arg EXCEPT ![b] = last[b]]
    BY <1>1, <1>3
  <2>3. arg \in [Members -> 0 .. MaxReports] /\ last[b] \in 0 .. MaxReports
    BY DEF TypeOK
  <2> QED
    BY <2>1, <2>2, <2>3
<1>7. /\ overlap' \in [Members -> BOOLEAN]
      /\ ~overlap'[b] => ~overlap[b] /\ at[Main(b)] # "report"
      /\ \A a \in Members : a # b => overlap'[a] = overlap[a]
  <2>1. (overlap[b] \/ at[Main(b)] = "report") \in BOOLEAN
    BY DEF TypeOK
  <2> QED
    BY <1>1, <2>1 DEF TypeOK
<1>8. /\ beaten' \in [Members -> {"new", "due", "done"}] /\ beaten'[b] = "done"
      /\ \A a \in Members : a # b => beaten'[a] = beaten[a]
  BY <1>1 DEF TypeOK
<1>9. TypeOK'
  BY <1>1, <1>4, <1>6, <1>7, <1>8 DEF TypeOK, Places
<1>10. \A a \in Members : a # b => Untouched(a)
  BY <1>1, <1>5, <1>6, <1>7, <1>8 DEF Untouched
<1>11. AgentInv(b)'
  <2>1. Shape(b) /\ Agreed(b) /\ Fresh(b) /\ Aging(b) /\ Expiring(b)
    BY DEF RegistryInv, AgentInv
  <2>2. Shape(b)'
    BY <1>1, <1>3, <1>4, <1>5, <1>8, <2>1 DEF Shape, MainPlaces, BeatPlaces, Main, Beat
  <2>3. Agreed(b)'
    BY <1>1, <1>3, <1>4, <1>5, <1>6, <1>7, <2>1 DEF Agreed, Main, Beat
  <2>4. Fresh(b)' /\ Aging(b)' /\ Expiring(b)'
    BY <1>1, <1>3, <1>4, <1>5, <2>1 DEF Fresh, Aging, Expiring, Registering, Main, Beat
  <2> QED
    BY <2>2, <2>3, <2>4 DEF AgentInv
<1>12. DefInv'
  <2>1. DefInv
    BY DEF RegistryInv
  <2>2. \A a \in Members : \/ /\ at'[Beat(a)] = at[Beat(a)] /\ beaten'[a] = beaten[a]
                              /\ unrenewed'[a] = unrenewed[a]
                           \/ at'[Beat(a)] \notin {"sleep", "exists", "define", "defexpire"}
    <3>1. unrenewed' = unrenewed
      BY <1>1
    <3> QED
      BY <1>3, <1>4, <1>5, <1>8, <3>1
  <2>3. at'[Main(Composer)] = at[Main(Composer)]
    BY <1>5 DEF Members
  <2> QED
    BY <1>1, <2>1, <2>2, <2>3, DefFrame DEF Nobody
<1> QED
  BY <1>9, <1>10, <1>11, <1>12, Assemble

LEMMA BeatKeepStep ==
  ASSUME TypeOK, RegistryInv, NEW b \in Members, BeatKeep(b)
  PROVE  TypeOK' /\ RegistryInv'
<1>1. /\ at[Beat(b)] = "keep" /\ last' = [last EXCEPT ![b] = arg[b]] /\ Goto(Beat(b), "write")
      /\ UNCHANGED <<lifeVars, current, arg, record, overlap, torn, unwritten, beatVars, defVars>>
  BY DEF BeatKeep
<1>2. Main(b) \in Threads /\ Beat(b) \in Threads /\ "write" \in Places
  BY ThreadFacts DEF Places
<1>3. /\ at' \in [Threads -> Places] /\ at'[Beat(b)] = "write"
      /\ \A u \in Threads : u # Beat(b) => at'[u] = at[u]
  BY <1>1, <1>2, GotoType
<1>4. /\ \A a \in Members : a # b => at'[Main(a)] = at[Main(a)] /\ at'[Beat(a)] = at[Beat(a)]
      /\ at'[Main(b)] = at[Main(b)]
  BY <1>3, OtherThreads
<1>5. /\ last' \in [Members -> 0 .. MaxReports] /\ last'[b] = arg[b]
      /\ \A a \in Members : a # b => last'[a] = last[a]
  BY <1>1 DEF TypeOK
<1>6. TypeOK'
  BY <1>1, <1>3, <1>5 DEF TypeOK, Places
<1>7. \A a \in Members : a # b => Untouched(a)
  BY <1>1, <1>4, <1>5 DEF Untouched
<1>8. AgentInv(b)'
  <2>1. Shape(b) /\ Agreed(b) /\ Fresh(b) /\ Aging(b) /\ Expiring(b)
    BY DEF RegistryInv, AgentInv
  <2>2. Shape(b)'
    BY <1>1, <1>3, <1>4, <2>1 DEF Shape, MainPlaces, BeatPlaces, Main, Beat
  <2>3. Agreed(b)'
    BY <1>1, <1>3, <1>4, <1>5, <2>1 DEF Agreed, Main, Beat
  <2>4. Fresh(b)' /\ Aging(b)' /\ Expiring(b)'
    BY <1>1, <1>3, <1>4, <2>1 DEF Fresh, Aging, Expiring, Registering, Main, Beat
  <2> QED
    BY <2>2, <2>3, <2>4 DEF AgentInv
<1>9. DefInv'
  <2>1. DefInv
    BY DEF RegistryInv
  <2>2. \A a \in Members : \/ /\ at'[Beat(a)] = at[Beat(a)] /\ beaten'[a] = beaten[a]
                              /\ unrenewed'[a] = unrenewed[a]
                           \/ at'[Beat(a)] \notin {"sleep", "exists", "define", "defexpire"}
    BY <1>1, <1>3, <1>4
  <2>3. at'[Main(Composer)] = at[Main(Composer)]
    BY <1>4 DEF Members
  <2> QED
    BY <1>1, <2>1, <2>2, <2>3, DefFrame DEF Nobody
<1> QED
  BY <1>6, <1>7, <1>8, <1>9, Assemble

LEMMA BeatWriteStep ==
  ASSUME TypeOK, RegistryInv, NEW b \in Members, BeatWrite(b) \/ BeatWriteRaises(b)
  PROVE  TypeOK' /\ RegistryInv'
<1>1. /\ at[Beat(b)] = "write" /\ Goto(Beat(b), "touch")
      /\ \/ Put(b, arg[b], Ttl) /\ Written(b) /\ UNCHANGED lifeVars
         \/ (UNCHANGED record \/ Put(b, arg[b], Ttl)) /\ Unwritten(b) /\ UNCHANGED torn
      /\ arg' = [arg EXCEPT ![b] = 0]
      /\ UNCHANGED <<current, last, overlap, beatVars, defVars>>
  BY DEF BeatWrite, BeatWriteRaises
<1>2. Main(b) \in Threads /\ Beat(b) \in Threads /\ "touch" \in Places
  BY ThreadFacts DEF Places
<1>3. /\ at' \in [Threads -> Places] /\ at'[Beat(b)] = "touch"
      /\ \A u \in Threads : u # Beat(b) => at'[u] = at[u]
  BY <1>1, <1>2, GotoType
<1>4. /\ \A a \in Members : a # b => at'[Main(a)] = at[Main(a)] /\ at'[Beat(a)] = at[Beat(a)]
      /\ at'[Main(b)] = at[Main(b)]
  BY <1>3, OtherThreads
<1>5. /\ record' \in [Members -> Records] /\ torn' \in [Members -> BOOLEAN]
      /\ unwritten' \in [Members -> BOOLEAN] /\ raises' \in 0 .. MaxRaises
      /\ UNCHANGED <<starts, alive, dead>>
      /\ \A a \in Members : a # b =>
            record'[a] = record[a] /\ torn'[a] = torn[a] /\ unwritten'[a] = unwritten[a]
      /\ \/ record'[b].status = arg[b] /\ record'[b].age = 0 /\ record'[b].ttl = Ttl
         \/ unwritten'[b] /\ record'[b] = record[b] /\ torn'[b] = torn[b]
  <2>1. arg[b] \in 0 .. MaxReports
    BY DEF TypeOK
  <2> QED
    BY <1>1, <2>1, WriteFacts
<1>6. arg' \in [Members -> 0 .. MaxReports] /\ \A a \in Members : a # b => arg'[a] = arg[a]
  BY <1>1 DEF TypeOK
<1>7. TypeOK'
  BY <1>1, <1>3, <1>5, <1>6 DEF TypeOK, Places, Records
<1>8. \A a \in Members : a # b => Untouched(a)
  BY <1>1, <1>4, <1>5, <1>6 DEF Untouched
<1>9. AgentInv(b)'
  <2>1. Shape(b) /\ Agreed(b) /\ Aging(b) /\ Expiring(b)
    BY DEF RegistryInv, AgentInv
  <2>2. Shape(b)'
    BY <1>1, <1>3, <1>4, <1>5, <2>1 DEF Shape, MainPlaces, BeatPlaces, Main, Beat
  <2>3. Agreed(b)'
    BY <1>1, <1>3, <1>4, <1>5, <2>1 DEF Agreed, Main, Beat
  <2>4. alive'[b]
    BY <1>1, <1>5, <2>1 DEF Shape
  <2>5. ~Registering(b)' /\ ~Registering(b)
    BY <1>1, <1>3, <1>4, <2>1 DEF Registering, Shape, Main, Beat
  <2>6. Fresh(b)' /\ Aging(b)' /\ Expiring(b)'
    <3>1. CASE record'[b].age = 0 /\ record'[b].ttl = Ttl
      BY <2>4, <3>1 DEF Fresh, Aging, Expiring, Forever
    <3>2. CASE unwritten'[b] /\ record'[b] = record[b] /\ torn'[b] = torn[b]
      BY <2>1, <2>4, <2>5, <3>2 DEF Fresh, Aging, Expiring
    <3> QED
      BY <1>5, <3>1, <3>2
  <2> QED
    BY <2>2, <2>3, <2>6 DEF AgentInv
<1>10. DefInv'
  <2>1. DefInv
    BY DEF RegistryInv
  <2>2. \A a \in Members : \/ /\ at'[Beat(a)] = at[Beat(a)] /\ beaten'[a] = beaten[a]
                              /\ unrenewed'[a] = unrenewed[a]
                           \/ at'[Beat(a)] \notin {"sleep", "exists", "define", "defexpire"}
    BY <1>1, <1>3, <1>4
  <2>3. at'[Main(Composer)] = at[Main(Composer)]
    BY <1>4 DEF Members
  <2> QED
    BY <1>1, <1>5, <2>1, <2>2, <2>3, DefFrame DEF Nobody
<1> QED
  BY <1>7, <1>8, <1>9, <1>10, Assemble

-----------------------------------------------------------------------------
(* The definition                                                            *)

Definitions == {Missing} \cup [desc : {"rich", "blank", "edited"}, ttl : 1 .. Forever]

\* A thread that goes from one command on the definition to the next, or on.
LEMMA AtDefinition ==
  ASSUME TypeOK, RegistryInv, NEW b \in Members, NEW t, t = Main(b) \/ t = Beat(b),
         at[t] \in {"touch", "exists", "define", "defexpire"},
         NEW where, where \in {"exists", "define", "defexpire"} \/ where = Done(t),
         Goto(t, where), UNCHANGED <<starts, alive, dead, agentVars, beaten>>
  PROVE  /\ at' \in [Threads -> Places] /\ at'[t] = where
         /\ \A a \in Members : a # b => at'[Main(a)] = at[Main(a)] /\ at'[Beat(a)] = at[Beat(a)]
         /\ t = Main(b) => at'[Beat(b)] = at[Beat(b)]
         /\ t = Beat(b) => at'[Main(b)] = at[Main(b)]
         /\ \A a \in Members : AgentInv(a)'
<1>1. /\ t \in Threads /\ where \in Places
      /\ t = Main(b) => where \in {"exists", "define", "defexpire", "up"}
      /\ t = Beat(b) => where \in {"exists", "define", "defexpire", "sleep"}
  BY ThreadFacts DEF Places, Done
<1>2. /\ at' \in [Threads -> Places] /\ at'[t] = where
      /\ \A u \in Threads : u # t => at'[u] = at[u]
  BY <1>1, GotoType
<1>3. /\ \A a \in Members : a # b => at'[Main(a)] = at[Main(a)] /\ at'[Beat(a)] = at[Beat(a)]
      /\ t = Main(b) => at'[Beat(b)] = at[Beat(b)]
      /\ t = Beat(b) => at'[Main(b)] = at[Main(b)]
  BY <1>2, OtherThreads
<1>4. AgentInv(b)'
  <2>1. Shape(b) /\ Agreed(b) /\ Fresh(b) /\ Aging(b) /\ Expiring(b)
    BY DEF RegistryInv, AgentInv
  <2>2. Shape(b)'
    BY <1>1, <1>2, <1>3, <2>1 DEF Shape, MainPlaces, BeatPlaces, Main, Beat
  <2>3. Agreed(b)'
    BY <1>1, <1>2, <1>3, <2>1 DEF Agreed, Main, Beat
  <2>4. Fresh(b)' /\ Aging(b)' /\ Expiring(b)'
    BY <1>1, <1>2, <1>3, <2>1 DEF Fresh, Aging, Expiring, Registering, Shape, Main, Beat
  <2> QED
    BY <2>2, <2>3, <2>4 DEF AgentInv
<1>5. ASSUME NEW a \in Members, a # b PROVE AgentInv(a)'
  <2>1. Untouched(a)
    BY <1>3, <1>5 DEF Untouched
  <2> QED
    BY <2>1, Others DEF RegistryInv
<1>6. \A a \in Members : AgentInv(a)'
  BY <1>4, <1>5
<1> QED
  BY <1>2, <1>3, <1>6

\* What a step of such a thread has to show about the definition.
LEMMA DefStep ==
  ASSUME TypeOK, RegistryInv, NEW b \in Members, NEW t, t = Main(b) \/ t = Beat(b),
         at[t] \in {"touch", "exists", "define", "defexpire"},
         NEW where, where \in {"exists", "define", "defexpire"} \/ where = Done(t),
         Goto(t, where), raises' \in 0 .. MaxRaises,
         UNCHANGED <<starts, alive, dead, agentVars, beaten, admin, edits, idle, deleted, purged>>,
         unrenewed' \in [Members -> BOOLEAN],
         \A a \in Members : a # b => unrenewed'[a] = unrenewed[a],
         def' \in Definitions, def' = Missing => def = Missing,
         def' = def \/ def'.ttl >= Ttl,
         def'.desc = "blank" => purged \/ def.desc = "blank",
         b = Composer /\ where \in {"exists", "define", "defexpire"} => purged,
         t = Beat(b) =>
            \/ where \in {"exists", "define"}
            \/ where = "defexpire" /\ (deleted \/ def' # Missing)
            \/ where = "sleep" /\ unrenewed'[b]
            \/ /\ where = "sleep" /\ (deleted \/ def' # Missing)
               /\ b = Composer => purged \/ def'.ttl >= Ttl
  PROVE  TypeOK' /\ RegistryInv'
<1>1. /\ at' \in [Threads -> Places] /\ at'[t] = where
      /\ \A a \in Members : a # b => at'[Main(a)] = at[Main(a)] /\ at'[Beat(a)] = at[Beat(a)]
      /\ t = Main(b) => at'[Beat(b)] = at[Beat(b)]
      /\ t = Beat(b) => at'[Main(b)] = at[Main(b)]
      /\ \A a \in Members : AgentInv(a)'
  BY AtDefinition
<1>2. TypeOK'
  BY <1>1 DEF TypeOK, Places, Definitions
<1>3. DefInv /\ Shape(b) /\ Composer \in Members
  BY DEF RegistryInv, AgentInv, Members
<1>4. alive[b] = TRUE /\ alive' = alive
  BY <1>3 DEF Shape, TypeOK
<1>5. t = Main(b) => beaten'[b] = "new" /\ where \in {"exists", "define", "defexpire", "up"}
  <2>1. t = Main(b) => Done(t) = "up"
    BY ThreadFacts DEF Done
  <2> QED
    BY <1>3, <2>1 DEF Shape
<1>6. DefInv'
  <2>1. ASSUME NEW a \in Members, beaten'[a] = "done", ~deleted'
        PROVE  /\ at'[Beat(a)] = "sleep" => unrenewed'[a] \/ def' # Missing
               /\ at'[Beat(a)] = "defexpire" => def' # Missing
    <3>1. CASE a = b /\ t = Main(b)
      BY <1>5, <2>1, <3>1
    <3>2. CASE a = b /\ t = Beat(b)
      BY <1>1, <2>1, <3>2
    <3>3. CASE a # b
      BY <1>1, <1>3, <2>1, <3>3 DEF DefInv
    <3> QED
      BY <3>1, <3>2, <3>3
  <2>2. def' = Missing /\ alive'[Composer] => purged'
    BY <1>3, <1>4 DEF DefInv
  <2>3. /\ at'[Main(Composer)] \in {"define", "defexpire"} => purged'
        /\ at'[Beat(Composer)] \in {"exists", "define", "defexpire"} => purged'
    <3>1. CASE b = Composer
      BY <1>1, <1>3, <3>1 DEF DefInv
    <3>2. CASE b # Composer
      BY <1>1, <1>3, <3>2 DEF DefInv
    <3> QED
      BY <3>1, <3>2
  <2>4. beaten'[Composer] = "done" /\ at'[Beat(Composer)] = "sleep" =>
           purged' \/ unrenewed'[Composer] \/ def'.ttl >= Ttl
    <3>1. CASE b = Composer /\ t = Main(b)
      BY <1>5, <3>1
    <3>2. CASE b = Composer /\ t = Beat(b)
      BY <1>1, <3>2
    <3>3. CASE b # Composer
      BY <1>1, <1>3, <3>3 DEF DefInv
    <3> QED
      BY <3>1, <3>2, <3>3
  <2>5. NeverBlank'
    BY <1>3 DEF DefInv, NeverBlank
  <2>6. ~Nobody'
    BY <1>4 DEF Nobody
  <2> QED
    BY <2>1, <2>2, <2>3, <2>4, <2>5, <2>6 DEF DefInv, Main, Beat
<1> QED
  BY <1>1, <1>2, <1>6 DEF RegistryInv

\* What EXPIRE does to the definition.
LEMMA RenewedFacts ==
  ASSUME TypeOK
  PROVE  /\ def \in Definitions /\ Renewed \in Definitions
         /\ Renewed = Missing <=> def = Missing
         /\ Renewed.desc = def.desc
         /\ def # Missing => Renewed.ttl = Ttl
         /\ def = Missing => Renewed = def
<1>1. def \in Definitions
  BY DEF TypeOK, Definitions
<1> QED
  BY <1>1 DEF Renewed, Definitions, Missing, Forever

\* What the places of a member's threads at the definition say.
LEMMA AtDefFacts ==
  ASSUME TypeOK, RegistryInv, NEW b \in Members, NEW t, t = Main(b) \/ t = Beat(b),
         at[t] \in {"touch", "exists", "define", "defexpire"}
  PROVE  /\ t \in Threads /\ t[1] = b
         /\ t = Beat(b) => Done(t) = "sleep" /\ beaten[b] = "done" /\ t # Main(b)
         /\ t = Main(b) => Done(t) = "up" /\ at[t] # "touch"
         /\ b = Composer => (def = Missing => purged)
         /\ b = Composer /\ (t = Beat(b) \/ at[t] # "exists") /\ at[t] # "touch" => purged
         /\ t = Beat(b) /\ at[t] = "defexpire" /\ ~deleted => def # Missing
<1>1. t \in Threads /\ t[1] = b
  BY ThreadFacts
<1>2. Shape(b) /\ DefInv
  BY DEF RegistryInv, AgentInv
<1>3. /\ t = Beat(b) => Done(t) = "sleep" /\ beaten[b] = "done" /\ t # Main(b)
      /\ t = Main(b) => Done(t) = "up" /\ at[t] # "touch"
      /\ alive[b]
  BY <1>2, ThreadFacts DEF Done, Shape, MainPlaces
<1>4. /\ b = Composer => (def = Missing => purged)
      /\ b = Composer /\ (t = Beat(b) \/ at[t] # "exists") /\ at[t] # "touch" => purged
      /\ t = Beat(b) /\ at[t] = "defexpire" /\ ~deleted => def # Missing
  BY <1>2, <1>3 DEF DefInv
<1> QED
  BY <1>1, <1>3, <1>4

LEMMA OnDefinitionStep ==
  ASSUME TypeOK, RegistryInv, NEW t \in Threads, Touch(t) \/ DefExists(t) \/ DefSet(t) \/ DefExpire(t)
  PROVE  TypeOK' /\ RegistryInv'
<1>1. PICK b \in Members : t = Main(b) \/ t = Beat(b)
  BY TheThreads
<1>2. /\ at[t] \in {"touch", "exists", "define", "defexpire"}
      /\ unrenewed \in [Members -> BOOLEAN] /\ raises \in 0 .. MaxRaises
  BY DEF Touch, DefExists, DefSet, DefExpire, TypeOK
<1>3. /\ t[1] = b
      /\ t = Beat(b) => Done(t) = "sleep" /\ beaten[b] = "done" /\ t # Main(b)
      /\ t = Main(b) => Done(t) = "up" /\ at[t] # "touch"
      /\ b = Composer => (def = Missing => purged)
      /\ b = Composer /\ (t = Beat(b) \/ at[t] # "exists") /\ at[t] # "touch" => purged
      /\ t = Beat(b) /\ at[t] = "defexpire" /\ ~deleted => def # Missing
      /\ Finish(t, FALSE) =>
            /\ Goto(t, Done(t))
            /\ unrenewed' \in [Members -> BOOLEAN] /\ unrenewed'[b] = FALSE
            /\ \A a \in Members : a # b => unrenewed'[a] = unrenewed[a]
            /\ UNCHANGED <<agentVars, beaten, admin, edits, idle, deleted, purged>>
  <2>1. t[1] = b /\ unrenewed \in [Members -> BOOLEAN]
    BY <1>1, ThreadFacts DEF TypeOK
  <2>2. ASSUME Finish(t, FALSE)
        PROVE  /\ Goto(t, Done(t))
               /\ unrenewed' \in [Members -> BOOLEAN] /\ unrenewed'[b] = FALSE
               /\ \A a \in Members : a # b => unrenewed'[a] = unrenewed[a]
               /\ UNCHANGED <<agentVars, beaten, admin, edits, idle, deleted, purged>>
    BY <2>1, <2>2 DEF Finish
  <2>3. /\ t = Beat(b) => Done(t) = "sleep" /\ beaten[b] = "done" /\ t # Main(b)
        /\ t = Main(b) => Done(t) = "up" /\ at[t] # "touch"
        /\ b = Composer => (def = Missing => purged)
        /\ b = Composer /\ (t = Beat(b) \/ at[t] # "exists") /\ at[t] # "touch" => purged
        /\ t = Beat(b) /\ at[t] = "defexpire" /\ ~deleted => def # Missing
    BY <1>1, <1>2, AtDefFacts
  <2> QED
    BY <2>1, <2>2, <2>3
<1>4. /\ def \in Definitions /\ Renewed \in Definitions
      /\ Renewed = Missing <=> def = Missing
      /\ Renewed.desc = def.desc
      /\ def # Missing => Renewed.ttl = Ttl
      /\ def = Missing => Renewed = def
  BY RenewedFacts
<1>5. CASE Touch(t)
  <2>1. t = Beat(b) /\ at[t] = "touch" /\ def' = Renewed
    BY <1>1, <1>3, <1>5 DEF Touch
  <2>2. CASE def # Missing
    <3>1. UNCHANGED lifeVars /\ Finish(t, FALSE)
      BY <1>5, <2>2 DEF Touch
    <3> QED
      BY <1>1, <1>2, <1>3, <1>4, <2>1, <2>2, <3>1, DefStep
  <2>3. CASE def = Missing
    <3>1. Goto(t, "exists")
          /\ UNCHANGED <<lifeVars, agentVars, beatVars, admin, edits, idle, deleted, purged>>
      BY <1>5, <2>3 DEF Touch, Onward
    <3> QED
      BY <1>1, <1>2, <1>3, <1>4, <2>1, <2>3, <3>1, DefStep
  <2> QED
    BY <2>2, <2>3
<1>6. CASE DefExists(t)
  <2>1. at[t] = "exists" /\ def' = def
    BY <1>6 DEF DefExists
  <2>2. CASE def # Missing
    <3>1. UNCHANGED lifeVars /\ Finish(t, FALSE)
      BY <1>6, <2>2 DEF DefExists
    <3> QED
      BY <1>1, <1>2, <1>3, <1>4, <2>1, <2>2, <3>1, DefStep
  <2>3. CASE def = Missing
    <3>1. Goto(t, "define")
          /\ UNCHANGED <<lifeVars, agentVars, beatVars, admin, edits, idle, deleted, purged>>
      BY <1>6, <2>3 DEF DefExists, Onward
    <3> QED
      BY <1>1, <1>2, <1>3, <1>4, <2>1, <2>3, <3>1, DefStep
  <2> QED
    BY <2>2, <2>3
<1>7. CASE DefSet(t)
  <2>1. /\ at[t] = "define" /\ def' = Described(b) /\ Goto(t, "defexpire")
        /\ UNCHANGED <<lifeVars, agentVars, beatVars, admin, edits, idle, deleted, purged>>
    BY <1>3, <1>7 DEF DefSet, Onward
  <2>2. /\ def' \in Definitions /\ def' # Missing /\ def'.ttl >= Ttl
        /\ def'.desc = "blank" => b = Composer
    BY <2>1 DEF Described, Definitions, Missing, Forever
  <2> QED
    BY <1>1, <1>2, <1>3, <2>1, <2>2, DefStep
<1>8. CASE DefExpire(t)
  <2>1. at[t] = "defexpire" /\ def' = Renewed /\ UNCHANGED lifeVars /\ Finish(t, FALSE)
    BY <1>8 DEF DefExpire
  <2> QED
    BY <1>1, <1>2, <1>3, <1>4, <2>1, DefStep
<1> QED
  BY <1>5, <1>6, <1>7, <1>8

LEMMA DefRaisesStep ==
  ASSUME TypeOK, RegistryInv, NEW t \in Threads, DefRaises(t)
  PROVE  TypeOK' /\ RegistryInv'
<1>1. PICK b \in Members : t = Main(b) \/ t = Beat(b)
  BY TheThreads
<1>2. /\ at[t] \in {"touch", "exists", "define", "defexpire"}
      /\ raises' \in 0 .. MaxRaises /\ UNCHANGED <<starts, alive, dead>>
      /\ Finish(t, TRUE)
  <2>1. raises < MaxRaises /\ raises' = raises + 1 /\ UNCHANGED <<starts, alive, dead>>
    BY DEF DefRaises, Raises
  <2>2. raises \in 0 .. MaxRaises /\ MaxRaises \in Nat
    BY DEF TypeOK
  <2>3. raises' \in 0 .. MaxRaises
    BY <2>1, <2>2
  <2> QED
    BY <2>1, <2>3 DEF DefRaises
<1>3. /\ t[1] = b
      /\ t = Beat(b) => Done(t) = "sleep"
      /\ b = Composer /\ (t = Beat(b) \/ at[t] # "exists") /\ at[t] # "touch" => purged
      /\ Goto(t, Done(t))
      /\ unrenewed' \in [Members -> BOOLEAN] /\ unrenewed'[b] = TRUE
      /\ \A a \in Members : a # b => unrenewed'[a] = unrenewed[a]
      /\ UNCHANGED <<agentVars, beaten, admin, edits, idle, deleted, purged>>
  <2>1. t[1] = b /\ unrenewed \in [Members -> BOOLEAN]
    BY <1>1, ThreadFacts DEF TypeOK
  <2>2. /\ Goto(t, Done(t))
        /\ unrenewed' \in [Members -> BOOLEAN] /\ unrenewed'[b] = TRUE
        /\ \A a \in Members : a # b => unrenewed'[a] = unrenewed[a]
        /\ UNCHANGED <<agentVars, beaten, admin, edits, idle, deleted, purged>>
    BY <1>2, <2>1 DEF Finish
  <2> QED
    BY <1>1, <1>2, <2>1, <2>2, AtDefFacts
<1>4. Done(t) \notin {"exists", "define", "defexpire"}
  BY DEF Done
<1>5. /\ def' \in Definitions /\ (def' = Missing => def = Missing)
      /\ def' = def \/ def'.ttl >= Ttl
      /\ def'.desc = "blank" => purged \/ def.desc = "blank"
  <2>1. CASE UNCHANGED def
    BY <2>1, RenewedFacts
  <2>2. CASE def' = Renewed
    BY <2>2, RenewedFacts
  <2>3. CASE at[t] = "define" /\ def' = Described(b)
    <3>1. /\ def' \in Definitions /\ def' # Missing /\ def'.ttl >= Ttl
          /\ def'.desc = "blank" => b = Composer
      BY <2>3 DEF Described, Definitions, Missing, Forever
    <3> QED
      BY <1>3, <2>3, <3>1
  <2> QED
    BY <1>3, <2>1, <2>2, <2>3 DEF DefRaises
<1> QED
  BY <1>1, <1>2, <1>3, <1>4, <1>5, DefStep

LEMMA AdminStep ==
  ASSUME TypeOK, RegistryInv,
         UpdateRead \/ UpdateWrite \/ DeploySet \/ DeployExpire \/ Delete \/ AdminRaises
  PROVE  TypeOK' /\ RegistryInv'
<1> USE DEF UpdateRead, UpdateWrite, DeploySet, DeployExpire, Delete, AdminRaises, Edit
<1>1. UNCHANGED <<starts, alive, dead, at, agentVars, beatVars>>
  BY DEF Raises
<1>2. /\ edits' \in 0 .. MaxEdits /\ admin' \in {"idle", "read", "deployed"}
      /\ raises' \in 0 .. MaxRaises
  BY DEF TypeOK, Raises
<1>3. /\ def \in Definitions /\ Renewed \in Definitions
      /\ Renewed = Missing <=> def = Missing
      /\ Renewed.desc = def.desc
      /\ def # Missing => Renewed.ttl = Ttl
      /\ def = Missing => Renewed = def
  BY RenewedFacts
<1>4. \/ UNCHANGED <<def, idle, deleted, purged>>
      \/ /\ def' \in Definitions /\ (def' = Missing => def = Missing)
         /\ def' = def \/ def'.ttl \in {Ttl, Forever}
         /\ def'.desc = "blank" => def.desc = "blank"
         /\ idle' = 0
         /\ UNCHANGED <<deleted, purged>>
      \/ def' = Missing /\ idle' = idle /\ deleted' = TRUE /\ purged' = TRUE
  <2>1. CASE UpdateRead \/ AdminRaises
    BY <2>1
  <2>2. CASE UpdateWrite \/ DeploySet
    <3>1. def' = [desc |-> "edited", ttl |-> Forever] /\ idle' = 0 /\ UNCHANGED <<deleted, purged>>
      BY <2>2 DEF Edited
    <3> QED
      BY <3>1 DEF Definitions, Missing, Forever
  <2>3. CASE DeployExpire
    BY <1>3, <2>3
  <2>4. CASE Delete
    BY <2>4
  <2> QED
    BY <2>1, <2>2, <2>3, <2>4
<1>5. TypeOK'
  <2>1. /\ def' \in Definitions /\ idle' \in 0 .. Ttl
        /\ deleted' \in BOOLEAN /\ purged' \in BOOLEAN
    <3>1. /\ Missing \in Definitions /\ def \in Definitions /\ Ttl \in Nat
          /\ idle \in 0 .. Ttl /\ deleted \in BOOLEAN /\ purged \in BOOLEAN
      BY <1>3 DEF TypeOK, Definitions
    <3>2. CASE UNCHANGED <<def, idle, deleted, purged>>
      BY <3>1, <3>2
    <3>3. CASE def' \in Definitions /\ idle' = 0 /\ UNCHANGED <<deleted, purged>>
      BY <3>1, <3>3
    <3>4. CASE def' = Missing /\ idle' = idle /\ deleted' = TRUE /\ purged' = TRUE
      BY <3>1, <3>4
    <3> QED
      BY <1>4, <3>2, <3>3, <3>4
  <2> QED
    BY <1>1, <1>2, <2>1 DEF TypeOK, Definitions
<1>6. ASSUME NEW a \in Members PROVE AgentInv(a)'
  <2>1. Untouched(a)
    BY <1>1 DEF Untouched
  <2> QED
    BY <2>1, Others DEF RegistryInv
<1>7. DefInv'
  <2>1. DefInv /\ Composer \in Members
    BY DEF RegistryInv, Members
  <2>2. CASE UNCHANGED <<def, idle, deleted, purged>>
    BY <1>1, <2>1, <2>2 DEF DefInv, NeverBlank, Nobody, Main, Beat
  <2>3. CASE /\ def' \in Definitions /\ (def' = Missing => def = Missing)
             /\ def' = def \/ def'.ttl \in {Ttl, Forever}
             /\ def'.desc = "blank" => def.desc = "blank"
             /\ idle' = 0
             /\ UNCHANGED <<deleted, purged>>
    <3>1. Nobody' => def'.ttl \in {0, Forever} \/ def'.ttl + idle' <= Ttl
      <4>1. def'.ttl \in 0 .. Forever
        BY <2>3 DEF Definitions, Missing, Forever
      <4> QED
        BY <2>3, <4>1 DEF Forever
    <3>2. def'.ttl = def.ttl \/ def'.ttl >= Ttl
      BY <2>3 DEF Forever
    <3>3. NeverBlank'
      BY <2>1, <2>3 DEF DefInv, NeverBlank
    <3> QED
      BY <1>1, <2>1, <2>3, <3>1, <3>2, <3>3 DEF DefInv, Main, Beat
  <2>4. CASE def' = Missing /\ idle' = idle /\ deleted' = TRUE /\ purged' = TRUE
    BY <1>1, <2>4 DEF DefInv, NeverBlank, Missing, Main, Beat
  <2> QED
    BY <1>4, <2>2, <2>3, <2>4
<1> QED
  BY <1>5, <1>6, <1>7 DEF RegistryInv

-----------------------------------------------------------------------------
(* Time and death                                                            *)

\* What a tick does to a record.
LEMMA AgedFacts ==
  ASSUME NEW r \in Records, r.ttl = 0 => r = Absent
  PROVE  /\ Aged(r) \in Records
         /\ Aged(r).ttl = 0 => Aged(r) = Absent
         /\ Aged(r).ttl = Forever => r.ttl = Forever
         /\ r.age = 0 /\ r.ttl >= Ttl =>
               Aged(r).status = r.status /\ Aged(r).age = 1 /\ Aged(r).ttl # 0
         /\ Aged(r).ttl \in {0, Forever} \/ (r.ttl \in 1 .. Ttl /\ Aged(r).ttl = r.ttl - 1)
         /\ Aged(r) = Absent \/ Aged(r).age = IF r.age > StaleAge THEN r.age ELSE r.age + 1
<1>1. Ttl \in Nat /\ Ttl > StaleAge /\ StaleAge \in Nat \ {0} /\ Forever = Ttl + 1
  BY DEF Forever
<1>2. /\ r.status \in 0 .. MaxReports /\ r.age \in 0 .. StaleAge + 1 /\ r.ttl \in 0 .. Forever
      /\ r = [status |-> r.status, age |-> r.age, ttl |-> r.ttl]
  BY DEF Records
<1>3. Absent \in Records
  BY <1>1 DEF Absent, Records
<1>4. CASE r.ttl = 1
  BY <1>1, <1>3, <1>4 DEF Aged, Absent
<1>5. CASE r.ttl # 1 /\ r = Absent
  BY <1>1, <1>3, <1>5 DEF Aged, Absent
<1>6. CASE r.ttl # 1 /\ r # Absent
  <2> DEFINE older == IF r.age > StaleAge THEN r.age ELSE r.age + 1
             left  == IF r.ttl = Forever THEN r.ttl ELSE r.ttl - 1
  <2>1. Aged(r) = [r EXCEPT !.age = older, !.ttl = left]
    BY <1>6 DEF Aged
  <2>2. Aged(r) = [status |-> r.status, age |-> older, ttl |-> left]
    BY <1>2, <2>1
  <2>3. older \in 0 .. StaleAge + 1
    BY <1>1, <1>2
  <2>4. CASE r.ttl # 0
    <3>1. /\ left \in 0 .. Forever
          /\ left = Forever => r.ttl = Forever
          /\ left # 0
          /\ left = Forever \/ (r.ttl \in 1 .. Ttl /\ left = r.ttl - 1)
      BY <1>1, <1>2, <1>6, <2>4
    <3> HIDE DEF older, left
    <3>2. Aged(r) \in Records
      <4>1. [status |-> r.status, age |-> older, ttl |-> left] \in Records
        BY <1>2, <2>3, <3>1 DEF Records
      <4> QED
        BY <2>2, <4>1
    <3>3. Aged(r).status = r.status /\ Aged(r).age = older /\ Aged(r).ttl = left
      BY <2>2
    <3>4. r.age = 0 => older = 1
      BY <1>1 DEF older
    <3>5. older = IF r.age > StaleAge THEN r.age ELSE r.age + 1
      BY DEF older
    <3> QED
      BY <3>1, <3>2, <3>3, <3>4, <3>5
  <2> QED
    BY <1>6, <2>4
<1> QED
  BY <1>4, <1>5, <1>6

LEMMA TickStep == TypeOK /\ RegistryInv /\ Tick => TypeOK' /\ RegistryInv'
<1> SUFFICES ASSUME TypeOK, RegistryInv, Tick PROVE TypeOK' /\ RegistryInv'
  OBVIOUS
<1>1. /\ \A a \in Members : Resting(a)
      /\ record' = [a \in Members |-> Aged(record[a])]
      /\ def' = IF def.ttl = 1 THEN Missing
                ELSE IF def.ttl \in {0, Forever} THEN def ELSE [def EXCEPT !.ttl = def.ttl - 1]
      /\ beaten' = [a \in Members |-> IF alive[a] THEN "due" ELSE "new"]
      /\ dead' = [a \in Members |-> IF alive[a] THEN 0 ELSE Longer(dead[a])]
      /\ idle' = IF \E a \in Members : alive[a] THEN 0 ELSE Longer(idle)
      /\ deleted' = FALSE
      /\ purged' = (purged \/ (def.ttl = 1 /\ alive[Composer] 
                               /\ (beaten[Composer] = "new" \/ unrenewed[Composer])))
      /\ UNCHANGED <<starts, alive, raises, at, current, last, arg, overlap, torn, unwritten,
                     unrenewed, admin, edits>>
  BY DEF Tick
<1>2. ASSUME NEW a \in Members
      PROVE  /\ record[a] \in Records /\ (record[a].ttl = 0 => record[a] = Absent)
             /\ record'[a] = Aged(record[a])
             /\ beaten'[a] = IF alive[a] THEN "due" ELSE "new"
             /\ dead'[a] = IF alive[a] THEN 0 ELSE Longer(dead[a])
             /\ dead[a] \in 0 .. Ttl /\ alive[a] \in BOOLEAN
  BY <1>1 DEF TypeOK, Records, RegistryInv, AgentInv, Aging
<1>3. record' \in [Members -> Records]
  BY <1>1, <1>2, AgedFacts
<1>4. dead' \in [Members -> 0 .. Ttl]
  <2>1. ASSUME NEW a \in Members PROVE dead'[a] \in 0 .. Ttl
    BY <1>2 DEF Longer
  <2> QED
    BY <1>1, <2>1
<1>5. /\ def' \in Definitions /\ (def' # Missing => def'.desc = def.desc)
      /\ def' = Missing /\ def # Missing => def.ttl = 1
      /\ def = Missing => def' = Missing
      /\ def'.ttl \in {0, Forever} \/ (def.ttl \in 1 .. Ttl /\ def'.ttl = def.ttl - 1)
  <2>1. def \in Definitions /\ Ttl \in Nat
    BY DEF TypeOK, Definitions
  <2>2. CASE def = Missing
    BY <1>1, <2>1, <2>2 DEF Missing, Definitions
  <2>3. CASE def # Missing
    <3>1. def \in [desc : {"rich", "blank", "edited"}, ttl : 1 .. Forever] /\ Forever = Ttl + 1
      BY <2>1, <2>3 DEF Definitions, Forever
    <3>2. CASE def.ttl \in {1, Forever}
      BY <1>1, <3>1, <3>2 DEF Definitions, Missing
    <3>3. CASE def.ttl \notin {1, Forever}
      <4>1. def.ttl - 1 \in 1 .. Forever
        BY <3>1, <3>3
      <4>2. def' = [def EXCEPT !.ttl = def.ttl - 1]
        BY <1>1, <3>1, <3>3
      <4>3. def'.desc = def.desc /\ def'.ttl = def.ttl - 1 /\ def.ttl \in 1 .. Ttl
        BY <3>1, <3>3, <4>2
      <4>4. def' \in Definitions /\ def' # Missing
        BY <3>1, <4>1, <4>2 DEF Definitions, Missing
      <4> QED
        BY <2>3, <4>3, <4>4
    <3> QED
      BY <3>2, <3>3
  <2> QED
    BY <2>2, <2>3
<1>6. TypeOK'
  <2>1. beaten' \in [Members -> {"new", "due", "done"}]
    BY <1>1, <1>2
  <2>2. purged' \in BOOLEAN
    BY <1>1 DEF TypeOK
  <2>3. idle' \in 0 .. Ttl
    BY <1>1 DEF TypeOK, Longer
  <2> QED
    BY <1>1, <1>3, <1>4, <1>5, <2>1, <2>2, <2>3 DEF TypeOK, Records, Definitions
<1>7. ASSUME NEW a \in Members PROVE AgentInv(a)'
  <2>1. Shape(a) /\ Agreed(a) /\ Fresh(a) /\ Aging(a) /\ Expiring(a)
    BY DEF RegistryInv, AgentInv
  <2>2. \/ ~alive[a]
        \/ alive[a] /\ at[Main(a)] = "up" /\ at[Beat(a)] = "sleep" /\ beaten[a] # "due"
    BY <1>1 DEF Resting
  <2>3. alive[a] /\ ~unwritten[a] => record[a].age = 0 /\ record[a].ttl >= Ttl
    BY <2>1, <2>2 DEF Fresh
  <2>4. /\ Aged(record[a]) \in Records
        /\ Aged(record[a]).ttl = 0 => Aged(record[a]) = Absent
        /\ Aged(record[a]).ttl = Forever => record[a].ttl = Forever
        /\ Aged(record[a]).ttl \in {0, Forever}
           \/ (record[a].ttl \in 1 .. Ttl /\ Aged(record[a]).ttl = record[a].ttl - 1)
        /\ alive[a] /\ ~unwritten[a] =>
                       /\ Aged(record[a]).status = record[a].status
                       /\ Aged(record[a]).age = 1 /\ Aged(record[a]).ttl # 0
        /\ \/ Aged(record[a]) = Absent
           \/ Aged(record[a]).age = IF record[a].age > StaleAge THEN record[a].age ELSE record[a].age + 1
    BY <1>2, <2>3, AgedFacts
  <2>5. Shape(a)'
    BY <1>1, <1>2, <2>1, <2>2 DEF Shape, Main, Beat
  <2>6. Agreed(a)'
    <3>1. ~alive[a] => current[a] = 0
      BY <2>1 DEF Shape
    <3> QED
      BY <1>1, <1>2, <2>1, <2>4, <3>1 DEF Agreed, Main, Beat
  <2>10. ~Registering(a) /\ Registering(a)' = Registering(a)
    BY <1>1, <2>1, <2>2 DEF Registering, Shape, Main, Beat
  <2>7. Fresh(a)'
    <3>1. at[Main(a)] # "off" => alive[a]
      BY <2>1 DEF Shape
    <3> QED
      BY <1>1, <1>2, <2>4, <2>10, <3>1 DEF Fresh, Main, Beat
  <2>8. Aging(a)'
    <3>1. record'[a].ttl = 0 => record'[a] = Absent
      BY <1>2, <2>4
    <3>2. ASSUME ~alive[a]
          PROVE  record'[a] = Absent \/ dead'[a] <= record'[a].age \/ record'[a].age > StaleAge
      <4>1. Aged(record[a]) # Absent => record[a] # Absent
        BY DEF Aged, Absent
      <4>2. CASE Aged(record[a]) # Absent
        <5>1. /\ dead[a] <= record[a].age \/ record[a].age > StaleAge
              /\ record[a].age \in Nat /\ dead[a] \in Nat
          BY <1>2, <2>1, <3>2, <4>1, <4>2 DEF Aging, Records
        <5>2. dead'[a] \in Nat /\ dead'[a] <= dead[a] + 1
          BY <1>2, <3>2 DEF Longer
        <5> QED
          BY <1>2, <2>4, <4>2, <5>1, <5>2
      <4> QED
        BY <1>2, <4>2
    <3>3. ASSUME ~alive[a]
          PROVE  record'[a].ttl \in {0, Forever} \/ record'[a].ttl + dead'[a] <= Ttl
      <4>1. CASE record[a].ttl \in 1 .. Ttl /\ Aged(record[a]).ttl = record[a].ttl - 1
        <5>1. record[a].ttl + dead[a] <= Ttl /\ dead[a] \in 0 .. Ttl /\ Ttl \in Nat
          BY <1>2, <2>1, <3>3, <4>1 DEF Aging, Forever
        <5>2. dead'[a] = dead[a] + 1
          BY <1>2, <3>3, <4>1, <5>1 DEF Longer
        <5> QED
          BY <1>2, <4>1, <5>1, <5>2
      <4> QED
        BY <1>2, <2>4, <4>1
    <3> QED
      BY <1>1, <3>1, <3>2, <3>3 DEF Aging
  <2>9. Expiring(a)'
    BY <1>1, <1>2, <2>1, <2>4, <2>10 DEF Expiring
  <2> QED
    BY <2>5, <2>6, <2>7, <2>8, <2>9 DEF AgentInv
<1>8. DefInv'
  <2>1. DefInv /\ Composer \in Members
    BY DEF RegistryInv, Members
  <2>2. \A a \in Members : beaten'[a] # "done"
    BY <1>2
  <2>3. purged => purged'
    BY <1>1
  <2>4. def' = Missing /\ alive'[Composer] => purged'
    <3> SUFFICES ASSUME def' = Missing, alive[Composer] PROVE purged'
      BY <1>1
    <3>1. CASE def = Missing
      BY <2>1, <2>3, <3>1 DEF DefInv
    <3>2. CASE def # Missing
      <4>1. def.ttl = 1
        BY <1>5, <3>2
      <4>2. /\ at[Beat(Composer)] = "sleep" /\ beaten[Composer] # "due"
            /\ beaten[Composer] \in {"new", "due", "done"}
        BY <1>1, <2>1 DEF Resting, TypeOK
      <4>3. CASE beaten[Composer] = "done" /\ ~unrenewed[Composer]
        <5>1. ~(def.ttl >= Ttl)
          BY <4>1
        <5> QED
          BY <2>1, <2>3, <4>2, <4>3, <5>1 DEF DefInv
      <4>4. CASE beaten[Composer] = "new" \/ unrenewed[Composer]
        BY <1>1, <4>1, <4>4
      <4> QED
        BY <4>2, <4>3, <4>4
    <3> QED
      BY <3>1, <3>2
  <2>5. /\ at'[Main(Composer)] \in {"define", "defexpire"} => purged'
        /\ at'[Beat(Composer)] \in {"exists", "define", "defexpire"} => purged'
    BY <1>1, <2>1, <2>3 DEF DefInv
  <2>6. NeverBlank'
    BY <1>5, <2>1, <2>3 DEF DefInv, NeverBlank, Missing
  <2>7. Nobody' => def'.ttl \in {0, Forever} \/ def'.ttl + idle' <= Ttl
    <3> SUFFICES ASSUME Nobody, def.ttl \in 1 .. Ttl, def'.ttl = def.ttl - 1
                 PROVE  def'.ttl + idle' <= Ttl
      BY <1>1, <1>5 DEF Nobody
    <3>1. def.ttl + idle <= Ttl /\ idle \in Nat /\ Ttl \in Nat
      BY <2>1 DEF DefInv, TypeOK, Forever
    <3>2. idle' = idle + 1
      BY <1>1, <3>1 DEF Nobody, Longer
    <3> QED
      BY <3>1, <3>2
  <2> QED
    BY <2>1, <2>2, <2>4, <2>5, <2>6, <2>7 DEF DefInv, Main, Beat
<1> QED
  BY <1>6, <1>7, <1>8 DEF RegistryInv

LEMMA CrashStep ==
  ASSUME TypeOK, RegistryInv, NEW b \in Members, Crash(b)
  PROVE  TypeOK' /\ RegistryInv'
<1>1. /\ alive[b] /\ alive' = [alive EXCEPT ![b] = FALSE]
      /\ at' = [at EXCEPT ![Main(b)] = "off", ![Beat(b)] = "off"]
      /\ current' = [current EXCEPT ![b] = 0]
      /\ last' = [last EXCEPT ![b] = 0]
      /\ arg' = [arg EXCEPT ![b] = 0]
      /\ beaten' = [beaten EXCEPT ![b] = "new"]
      /\ dead' = [dead EXCEPT ![b] = 0] /\ idle' = 0
      /\ overlap' = [overlap EXCEPT ![b] = FALSE]
      /\ torn' = [torn EXCEPT ![b] = IF Registering(b) THEN Half(b) ELSE torn[b]]
      /\ unwritten' = [unwritten EXCEPT ![b] = FALSE]
      /\ unrenewed' = [unrenewed EXCEPT ![b] = FALSE]
      /\ admin' \in {"idle", admin}
      /\ UNCHANGED <<starts, raises, record, def, edits, deleted, purged>>
  BY DEF Crash, Registering
<1>2. Main(b) \in Threads /\ Beat(b) \in Threads /\ Main(b) # Beat(b)
  BY ThreadFacts
<1>3. /\ at' \in [Threads -> Places] /\ at'[Main(b)] = "off" /\ at'[Beat(b)] = "off"
      /\ \A a \in Members : a # b => at'[Main(a)] = at[Main(a)] /\ at'[Beat(a)] = at[Beat(a)]
  <2>1. at \in [Threads -> Places] /\ "off" \in Places
    BY DEF TypeOK, Places
  <2>2. \A u \in Threads : u # Main(b) /\ u # Beat(b) => at'[u] = at[u]
    BY <1>1, <1>2, <2>1
  <2>3. \A a \in Members : a # b => at'[Main(a)] = at[Main(a)] /\ at'[Beat(a)] = at[Beat(a)]
    BY <2>2, ThreadFacts
  <2> QED
    BY <1>1, <1>2, <2>1, <2>3
<1>4. /\ alive' \in [Members -> BOOLEAN] /\ alive'[b] = FALSE
      /\ current' \in [Members -> 0 .. MaxReports] /\ current'[b] = 0
      /\ last' \in [Members -> 0 .. MaxReports] /\ last'[b] = 0
      /\ arg' \in [Members -> 0 .. MaxReports]
      /\ beaten' \in [Members -> {"new", "due", "done"}] /\ beaten'[b] = "new"
      /\ dead' \in [Members -> 0 .. Ttl] /\ dead'[b] = 0
      /\ overlap' \in [Members -> BOOLEAN] /\ unwritten' \in [Members -> BOOLEAN]
      /\ unrenewed' \in [Members -> BOOLEAN]
  BY <1>1 DEF TypeOK
<1>5. /\ torn' \in [Members -> BOOLEAN]
      /\ Registering(b) => torn'[b] = Half(b)
      /\ ~Registering(b) => torn'[b] = torn[b]
  <2>1. torn \in [Members -> BOOLEAN] /\ Half(b) \in BOOLEAN /\ torn[b] \in BOOLEAN
    BY DEF TypeOK, Half
  <2> QED
    BY <1>1, <2>1
<1>6. TypeOK'
  <2>1. idle' \in 0 .. Ttl /\ admin' \in {"idle", "read", "deployed"}
    BY <1>1 DEF TypeOK
  <2> QED
    BY <1>1, <1>3, <1>4, <1>5, <2>1 DEF TypeOK, Places
<1>7. \A a \in Members : a # b => Untouched(a)
  BY <1>1, <1>3 DEF Untouched, TypeOK
<1>8. AgentInv(b)'
  <2>1. Shape(b) /\ Aging(b) /\ Expiring(b) /\ record[b] \in Records
    BY DEF RegistryInv, AgentInv, TypeOK, Records
  <2>2. Shape(b)' /\ Agreed(b)' /\ Fresh(b)'
    BY <1>3, <1>4 DEF Shape, MainPlaces, BeatPlaces, Agreed, Fresh, Registering, Main, Beat
  <2>3. Aging(b)'
    <3>1. /\ record' = record /\ dead'[b] = 0 /\ alive'[b] = FALSE
          /\ record[b].ttl \in 0 .. Ttl + 1 /\ record[b].age \in Nat
      BY <1>1, <1>4, <2>1 DEF Records, Forever
    <3>2. record[b].ttl \in {0, Forever} \/ record[b].ttl + 0 <= Ttl
      BY <3>1 DEF Forever
    <3> QED
      BY <2>1, <3>1, <3>2 DEF Aging
  <2>4. Expiring(b)'
    BY <1>1, <1>5, <2>1 DEF Expiring, Half
  <2> QED
    BY <2>2, <2>3, <2>4 DEF AgentInv
<1>9. DefInv'
  <2>1. DefInv
    BY DEF RegistryInv
  <2>2. \A a \in Members : \/ /\ at'[Beat(a)] = at[Beat(a)] /\ beaten'[a] = beaten[a]
                              /\ unrenewed'[a] = unrenewed[a]
                           \/ at'[Beat(a)] \notin {"sleep", "exists", "define", "defexpire"}
    BY <1>1, <1>3 DEF TypeOK
  <2>3. /\ alive'[Composer] => alive[Composer] \/ def # Missing
        /\ at'[Main(Composer)] = at[Main(Composer)] \/ at'[Main(Composer)] \notin {"define", "defexpire"}
    BY <1>1, <1>3 DEF Members, TypeOK
  <2> QED
    BY <1>1, <2>1, <2>2, <2>3, DefFrame
<1> QED
  BY <1>6, <1>7, <1>8, <1>9, Assemble

-----------------------------------------------------------------------------
(* The theorems                                                              *)

LEMMA RegistryInit == Init => TypeOK /\ RegistryInv
<1> SUFFICES ASSUME Init PROVE TypeOK /\ RegistryInv
  OBVIOUS
<1>1. Forever = Ttl + 1 /\ Ttl \in Nat \ {0} /\ StaleAge \in Nat
  BY DEF Forever
<1>2. TypeOK
  <2>1. DOMAIN starts = Members /\ \A a \in Members : starts[a] \in 0 .. Lives[a]
    BY DEF Init
  <2>2. record \in [Members -> [status : 0 .. MaxReports, age : 0 .. StaleAge + 1, ttl : 0 .. Forever]]
    BY <1>1 DEF Init, Absent
  <2>3. /\ at \in [Threads -> {"off", "register", "regexpire", "exists", "define", "defexpire",
                               "up", "report", "sleep", "keep", "write", "touch"}]
        /\ beaten \in [Members -> {"new", "due", "done"}]
        /\ alive \in [Members -> BOOLEAN]
        /\ overlap \in [Members -> BOOLEAN] /\ torn \in [Members -> BOOLEAN]
        /\ unwritten \in [Members -> BOOLEAN] /\ unrenewed \in [Members -> BOOLEAN]
    BY DEF Init
  <2>4. /\ dead \in [Members -> 0 .. Ttl] /\ idle \in 0 .. Ttl /\ raises \in 0 .. MaxRaises
        /\ current \in [Members -> 0 .. MaxReports]
        /\ last \in [Members -> 0 .. MaxReports]
        /\ arg \in [Members -> 0 .. MaxReports]
    BY <1>1 DEF Init
  <2>5. def = Missing /\ admin = "idle" /\ edits \in 0 .. MaxEdits /\ ~deleted /\ ~purged
    BY DEF Init
  <2>6. deleted \in BOOLEAN /\ purged \in BOOLEAN
    BY DEF Init
  <2> QED
    BY <2>1, <2>2, <2>3, <2>4, <2>5, <2>6 DEF TypeOK
<1>3. ASSUME NEW a \in Members PROVE AgentInv(a)
  <2>1. Main(a) \in Threads /\ Beat(a) \in Threads
    BY ThreadFacts
  <2> QED
    BY <1>1, <2>1 DEF Init, AgentInv, Shape, MainPlaces, BeatPlaces, Agreed, Fresh, Aging, Expiring,
                     Registering, Absent
<1>4. DefInv
  <2>1. Composer \in Members /\ Main(Composer) \in Threads /\ Beat(Composer) \in Threads
    BY ThreadFacts DEF Members
  <2> QED
    BY <1>1, <2>1 DEF Init, DefInv, NeverBlank, Missing
<1> QED
  BY <1>2, <1>3, <1>4 DEF RegistryInv

LEMMA RegistryStep == TypeOK /\ RegistryInv /\ [Next]_vars => TypeOK' /\ RegistryInv'
<1> SUFFICES ASSUME TypeOK, RegistryInv, [Next]_vars PROVE TypeOK' /\ RegistryInv'
  OBVIOUS
<1>1. CASE UNCHANGED vars
  <2>1. TypeOK'
    BY <1>1 DEF TypeOK, vars
  <2>2. ASSUME NEW a \in Members PROVE AgentInv(a)'
    <3>1. Untouched(a)
      BY <1>1 DEF vars, Untouched
    <3> QED
      BY <3>1, Others DEF RegistryInv
  <2>3. DefInv'
    BY <1>1, DefFrame DEF vars, RegistryInv, Nobody
  <2> QED
    BY <2>1, <2>2, <2>3 DEF RegistryInv
<1>2. ASSUME NEW t \in Threads, Step(t) PROVE TypeOK' /\ RegistryInv'
  BY <1>2, RegisterSetStep, RegisterEndStep, OnDefinitionStep, DefRaisesStep DEF Step
<1>3. ASSUME NEW a \in Members, Act(a) \/ Start(a) \/ Report(a) \/ Crash(a)
      PROVE  TypeOK' /\ RegistryInv'
  BY <1>3, ReportSetStep, BeatBeginStep, BeatKeepStep, BeatWriteStep, StartStep, ReportStep, CrashStep
  DEF Act
<1>4. CASE UpdateRead \/ UpdateWrite \/ DeploySet \/ DeployExpire \/ Delete \/ AdminRaises
  BY <1>4, AdminStep
<1>5. CASE Tick
  BY <1>5, TickStep
<1> QED
  BY <1>1, <1>2, <1>3, <1>4, <1>5 DEF Next

LEMMA RegistryHolds == Spec => [](TypeOK /\ RegistryInv)
<1>1. TypeOK /\ RegistryInv /\ [Next]_vars => (TypeOK /\ RegistryInv)'
  BY RegistryStep
<1> QED
  BY <1>1, RegistryInit, PTL DEF Spec

\* A worker that lives and has reported is dispatched to, and shown, with the
\* status it reported last, unless its last write raised, or a heartbeat of its own
\* ran into the report.
THEOREM LatestIsShown == Spec => []LatestShown
<1>1. TypeOK /\ RegistryInv => LatestShown
  <2> SUFFICES ASSUME TypeOK, RegistryInv, NEW a \in Workers,
                      Quiet(a), current[a] # 0, ~overlap[a], ~unwritten[a]
               PROVE  a \in GatherWorkers \cap Counted /\ record[a].status = current[a]
    BY DEF LatestShown
  <2>1. a \in Members /\ a # Composer
    BY DEF Members
  <2>2. Agreed(a) /\ Fresh(a) /\ at[Main(a)] = "up" /\ at[Beat(a)] = "sleep"
    BY <2>1 DEF RegistryInv, AgentInv, Quiet
  <2>3. record[a].status = current[a]
    BY <2>2 DEF Agreed
  <2>4. record[a].ttl # 0 /\ record[a].age <= 1 /\ record[a].age \in Nat
    BY <2>1, <2>2 DEF Fresh, TypeOK
  <2>5. record[a] # Absent /\ record[a].age <= MaxAge /\ ~(record[a].age > StaleAge)
    BY <2>4 DEF Absent
  <2> QED
    BY <2>1, <2>3, <2>5 DEF GatherWorkers, Counted, Listed, Stale, Exists
<1> QED
  BY <1>1, RegistryHolds, PTL

\* A worker that died is dispatched to for max_staleness, and counted for the
\* threshold of the dashboard, and then no more, wherever its threads were.
THEOREM DeadAreExcluded == Spec => []DeadExcluded
<1>1. TypeOK /\ RegistryInv => DeadExcluded
  <2> SUFFICES ASSUME TypeOK, RegistryInv, NEW a \in Workers, ~alive[a]
               PROVE  /\ dead[a] > MaxAge => a \notin GatherWorkers
                      /\ dead[a] > StaleAge => a \notin Counted
    BY DEF DeadExcluded
  <2>1. a \in Members
    BY DEF Members
  <2>2. /\ record[a] = Absent \/ dead[a] <= record[a].age \/ record[a].age > StaleAge
        /\ dead[a] \in Nat /\ record[a].age \in Nat
    BY <2>1 DEF RegistryInv, AgentInv, Aging, TypeOK
  <2> QED
    BY <2>2 DEF GatherWorkers, Counted, Listed, Stale, Exists
<1> QED
  BY <1>1, RegistryHolds, PTL

\* A heartbeat that goes through leaves a definition, the one that somebody wrote,
\* and a record that was written whole has a TTL, whichever two commands a death, an
\* exception or an edit comes between, and however often.
THEOREM KeysAreKept == Spec => []KeysKept
<1>1. TypeOK /\ RegistryInv => KeysKept
  <2> SUFFICES ASSUME TypeOK, RegistryInv PROVE KeysKept
    OBVIOUS
  <2>1. DefinitionStays
    BY DEF DefinitionStays, Quiet, RegistryInv, DefInv
  <2>2. NeverBlank
    BY DEF RegistryInv, DefInv
  <2>3. TtlKept
    <3> SUFFICES ASSUME NEW a \in Members, record[a].ttl = Forever
                 PROVE  torn[a] \/ \E t \in {Main(a), Beat(a)} : at[t] = "regexpire"
      BY DEF TtlKept
    <3>1. \/ "regexpire" \in {at[Main(a)], at[Beat(a)]}
          \/ torn[a]
      BY DEF RegistryInv, AgentInv, Expiring, Registering
    <3> QED
      BY <3>1
  <2> QED
    BY <2>1, <2>2, <2>3 DEF KeysKept
<1> QED
  BY <1>1, RegistryHolds, PTL

\* What a member leaves behind is gone a TTL after its death, and the definition a
\* TTL after the last member's death and the last edit, unless a registration ended
\* between its two commands or an administrator left the definition without a TTL.
THEOREM DeadAreForgotten == Spec => []DeadForgotten
<1>1. TypeOK /\ RegistryInv => DeadForgotten
  <2> SUFFICES ASSUME TypeOK, RegistryInv PROVE DeadForgotten
    OBVIOUS
  <2>1. ASSUME NEW a \in Members, ~alive[a], dead[a] = Ttl, ~torn[a] PROVE record[a] = Absent
    <3>1. Shape(a) /\ Aging(a) /\ Expiring(a) /\ record[a].ttl \in 0 .. Forever
      BY DEF RegistryInv, AgentInv, TypeOK
    <3>2. record[a].ttl # Forever
      BY <2>1, <3>1 DEF Expiring, Registering, Shape
    <3>3. record[a].ttl = 0
      BY <2>1, <3>1, <3>2 DEF Aging, Forever
    <3> QED
      BY <3>1, <3>3 DEF Aging
  <2>2. ASSUME Nobody, idle = Ttl PROVE def = Missing \/ def.ttl = Forever
    <3>1. def.ttl \in {0, Forever} \/ def.ttl + idle <= Ttl
      BY <2>2 DEF RegistryInv, DefInv
    <3>2. def = Missing \/ def.ttl \in 1 .. Forever
      BY DEF TypeOK
    <3> QED
      BY <2>2, <3>1, <3>2 DEF Forever
  <2> QED
    BY <2>1, <2>2 DEF DeadForgotten, Nobody
<1> QED
  BY <1>1, RegistryHolds, PTL
=============================================================================
