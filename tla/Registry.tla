------------------------------ MODULE Registry ------------------------------
(****************************************************************************)
(* One bus as its members and its readers see it: the registration record of   *)
(* each agent and the bus's scarlet definition, both with a TTL that the       *)
(* members' heartbeats renew.                                                 *)
(*                                                                           *)
(* An agent is two threads: "main" constructs the Messenger and later reports  *)
(* the status of the agent, "beat" is the heartbeat.  One action is one Redis  *)
(* command or one assignment to _last_status, which the two threads share.     *)
(* Any command may raise, with or without having had its effect: the code      *)
(* logs the exception and goes on, each of its try statements elsewhere.       *)
(* The Composer's API is a member as well: it constructs a Messenger for any   *)
(* bus it is asked about and keeps it, provided the definition exists.         *)
(*                                                                           *)
(* A tick is one heartbeat interval (30 s).  No call lasts a whole tick: time  *)
(* passes when every living member has beaten and no call is in progress.      *)
(****************************************************************************)
EXTENDS Naturals

CONSTANTS
    Workers,    \* agents that report a status
    Composer,   \* the Composer's API
    MaxReports, \* bound: report_status calls in one life of a worker
    Lives,      \* bound: lives of each member
    MaxEdits,   \* bound: what an administrator does to the definition
    MaxAge,     \* max_staleness of gather_workers, in ticks
    StaleAge,   \* STALE_THRESHOLD_SECONDS of the Composer, in ticks
    Ttl,        \* SCARLET_DATA_EXPIRY, in ticks
    MayCrash,   \* may a member die?
    MaxRaises   \* bound: commands that raise

ASSUME RegistryAssumption ==
    /\ Composer \notin Workers
    /\ MaxReports \in Nat /\ MaxEdits \in Nat
    /\ MaxAge \in Nat \ {0} /\ StaleAge \in Nat /\ Ttl \in Nat  \* none is below a heartbeat
    /\ MaxAge <= StaleAge /\ StaleAge < Ttl
    /\ MayCrash \in BOOLEAN /\ MaxRaises \in Nat

Members == Workers \cup {Composer}

ASSUME LivesAssumption == Lives \in [Members -> Nat]

Threads == Members \X {"main", "beat"}

Absent  == [status |-> 0, age |-> 0, ttl |-> 0]  \* no such record
Missing == [desc |-> "none", ttl |-> 0]          \* no such definition
Forever == Ttl + 1                               \* a key without a TTL

VARIABLES
    starts,   \* how often each member was started
    alive,    \* is its process alive?
    at,       \* where each thread is
    current,  \* the status its application reported last; 0 is none yet
    last,     \* _last_status
    arg,      \* the heartbeat's argument to ReportStatus
    record,   \* the registration records in Redis
    raises,   \* how many commands have raised
    beaten,   \* the heartbeat of this tick: due, done, or new: the first is yet to come
    dead,     \* history: ticks since the member died, up to Ttl
    overlap,  \* history: a heartbeat ran into a report of this process
    torn,     \* history: did Register end between its SET and its EXPIRE, and no write since?
    unwritten,  \* history: did the last Register or ReportStatus of this process raise?
    unrenewed,  \* history: did a command on the definition raise when it last saw to it?
    def,      \* scarlet_definition_<bus>
    admin,    \* the administrator's request: idle, or past its first command
    edits,    \* what an administrator has done so far
    idle,     \* history: ticks since a member was alive or an administrator wrote, up to Ttl
    deleted,  \* history: was the definition deleted in this tick?
    purged    \* history: was it ever, or did it run out on a Composer that had not renewed it?

agentVars == <<current, last, arg, record, overlap, torn, unwritten>>
defVars   == <<def, admin, edits, idle, deleted, purged>>
lifeVars  == <<starts, alive, dead, raises>>
beatVars  == <<beaten, unrenewed>>
vars == <<lifeVars, at, agentVars, beatVars, defVars>>

Init ==
    /\ starts = [a \in Members |-> 0]
    /\ alive = [a \in Members |-> FALSE]
    /\ at = [t \in Threads |-> "off"]
    /\ current = [a \in Members |-> 0]
    /\ last = [a \in Members |-> 0]
    /\ arg = [a \in Members |-> 0]
    /\ record = [a \in Members |-> Absent]
    /\ raises = 0
    /\ beaten = [a \in Members |-> "new"]
    /\ dead = [a \in Members |-> 0]
    /\ overlap = [a \in Members |-> FALSE]
    /\ torn = [a \in Members |-> FALSE]
    /\ unwritten = [a \in Members |-> FALSE]
    /\ unrenewed = [a \in Members |-> FALSE]
    /\ def = Missing /\ admin = "idle" /\ edits = 0
    /\ idle = 0 /\ deleted = FALSE /\ purged = FALSE

Main(a) == <<a, "main">>
Beat(a) == <<a, "beat">>
Goto(t, where) == at' = [at EXCEPT ![t] = where]

\* Where a thread goes on after it has seen to the definition.
Done(t) == IF t[2] = "main" THEN "up" ELSE "sleep"

Put(a, status, ttl) ==
    record' = [record EXCEPT ![a] = [status |-> status, age |-> 0, ttl |-> ttl]]

Exists(a) == record[a] # Absent

Raises ==
    /\ raises < MaxRaises /\ raises' = raises + 1
    /\ UNCHANGED <<starts, alive, dead>>

\* A write of the record that is complete, and one that raised.
Written(a) == torn' = [torn EXCEPT ![a] = FALSE] /\ unwritten' = [unwritten EXCEPT ![a] = FALSE]
Unwritten(a) == Raises /\ unwritten' = [unwritten EXCEPT ![a] = TRUE]

-----------------------------------------------------------------------------
(* Messenger.__init__ and Register                                           *)

\* A member is started; the Composer, when it is asked about an existing bus.
Start_Ungated(a) ==
    /\ ~alive[a] /\ starts[a] < Lives[a]
    /\ starts' = [starts EXCEPT ![a] = @ + 1]
    /\ alive' = [alive EXCEPT ![a] = TRUE]
    /\ Goto(Main(a), "register")
    /\ UNCHANGED <<dead, raises, agentVars, beatVars, defVars>>

Start(a) ==
    /\ ~alive[a] /\ starts[a] < Lives[a]
    /\ a = Composer => def # Missing
    /\ starts' = [starts EXCEPT ![a] = @ + 1]
    /\ alive' = [alive EXCEPT ![a] = TRUE]
    /\ Goto(Main(a), "register")
    /\ UNCHANGED <<dead, raises, agentVars, beatVars, defVars>>

\* Register: a SET, which leaves no TTL, and then an EXPIRE.
RegisterSet(t) ==
    /\ at[t] = "register"
    /\ Put(t[1], 0, Forever)
    /\ Goto(t, "regexpire")
    /\ UNCHANGED <<lifeVars, current, last, arg, overlap, torn, unwritten, beatVars, defVars>>

Expire(a) == record' = [record EXCEPT ![a] = IF Exists(a) THEN [@ EXCEPT !.ttl = Ttl] ELSE @]

\* The constructor then starts the heartbeat and registers the definition.
Registered(t) ==
    at' = IF t[2] = "main" THEN [at EXCEPT ![t] = "exists", ![Beat(t[1])] = "sleep"]
                           ELSE [at EXCEPT ![t] = "touch"]

RegisterExpire(t) ==
    /\ at[t] = "regexpire"
    /\ Expire(t[1]) /\ Written(t[1])
    /\ Registered(t)
    /\ UNCHANGED <<lifeVars, current, last, arg, overlap, beatVars, defVars>>

\* Has no report of the other thread given the record its TTL meanwhile?
Half(a) == record[a].ttl = Forever

\* One try holds both commands: what raises first ends Register.
RegisterSetRaises(t) ==
    /\ at[t] = "register" /\ Unwritten(t[1])
    /\ \/ UNCHANGED <<record, torn>>
       \/ Put(t[1], 0, Forever) /\ torn' = [torn EXCEPT ![t[1]] = TRUE]
    /\ Registered(t)
    /\ UNCHANGED <<current, last, arg, overlap, beatVars, defVars>>

RegisterExpireRaises(t) ==
    /\ at[t] = "regexpire" /\ Unwritten(t[1])
    /\ \/ Expire(t[1]) /\ UNCHANGED torn
       \/ UNCHANGED record /\ torn' = [torn EXCEPT ![t[1]] = Half(t[1])]
    /\ Registered(t)
    /\ UNCHANGED <<current, last, arg, overlap, beatVars, defVars>>

-----------------------------------------------------------------------------
(* ReportStatus                                                              *)

InRegistry(t) == at[t] \in {"register", "regexpire", "keep", "write"}

\* The application's thread: _last_status is set first.
Report(a) ==
    /\ a \in Workers /\ at[Main(a)] = "up" /\ current[a] < MaxReports
    /\ current' = [current EXCEPT ![a] = @ + 1]
    /\ last' = [last EXCEPT ![a] = current[a] + 1]
    /\ overlap' = [overlap EXCEPT ![a] = @ \/ InRegistry(Beat(a))]
    /\ Goto(Main(a), "report")
    /\ UNCHANGED <<lifeVars, arg, record, torn, unwritten, beatVars, defVars>>

\* A plain SET.
ReportSet_DropsTtl(a) ==
    /\ at[Main(a)] = "report"
    /\ Put(a, current[a], Forever) /\ Written(a)
    /\ Goto(Main(a), "up")
    /\ UNCHANGED <<lifeVars, current, last, arg, overlap, beatVars, defVars>>

\* Then the record is built and SET with its TTL.
ReportSet(a) ==
    /\ at[Main(a)] = "report"
    /\ Put(a, current[a], Ttl) /\ Written(a)
    /\ Goto(Main(a), "up")
    /\ UNCHANGED <<lifeVars, current, last, arg, overlap, beatVars, defVars>>

\* ReportStatus swallows the exception: its caller does not learn of it.
ReportSetRaises(a) ==
    /\ at[Main(a)] = "report" /\ Unwritten(a)
    /\ UNCHANGED record \/ Put(a, current[a], Ttl)
    /\ Goto(Main(a), "up")
    /\ UNCHANGED <<current, last, arg, overlap, torn, beatVars, defVars>>

-----------------------------------------------------------------------------
(* _startHeartbeat                                                           *)

\* It never looks at _last_status: Register, every time.
BeatBegin_Forgets(a) ==
    /\ at[Beat(a)] = "sleep" /\ beaten[a] = "due"
    /\ beaten' = [beaten EXCEPT ![a] = "done"]
    /\ overlap' = [overlap EXCEPT ![a] = @ \/ at[Main(a)] = "report"]
    /\ Goto(Beat(a), "register")
    /\ UNCHANGED <<lifeVars, current, last, arg, record, torn, unwritten, unrenewed, defVars>>

\* _last_status is read: Register without one, else ReportStatus(_last_status).
BeatBegin(a) ==
    /\ at[Beat(a)] = "sleep" /\ beaten[a] = "due"
    /\ beaten' = [beaten EXCEPT ![a] = "done"]
    /\ overlap' = [overlap EXCEPT ![a] = @ \/ at[Main(a)] = "report"]
    /\ \/ last[a] = 0 /\ Goto(Beat(a), "register") /\ UNCHANGED arg
       \/ last[a] # 0 /\ Goto(Beat(a), "keep") /\ arg' = [arg EXCEPT ![a] = last[a]]
    /\ UNCHANGED <<lifeVars, current, last, record, torn, unwritten, unrenewed, defVars>>

\* ReportStatus assigns what it was called with to _last_status ...
BeatKeep(a) ==
    /\ at[Beat(a)] = "keep"
    /\ last' = [last EXCEPT ![a] = arg[a]]
    /\ Goto(Beat(a), "write")
    /\ UNCHANGED <<lifeVars, current, arg, record, overlap, torn, unwritten, beatVars, defVars>>

\* ... and SETs the record.
BeatWrite(a) ==
    /\ at[Beat(a)] = "write"
    /\ Put(a, arg[a], Ttl) /\ Written(a)
    /\ arg' = [arg EXCEPT ![a] = 0]
    /\ Goto(Beat(a), "touch")
    /\ UNCHANGED <<lifeVars, current, last, overlap, beatVars, defVars>>

\* The heartbeat goes on to the definition all the same.
BeatWriteRaises(a) ==
    /\ at[Beat(a)] = "write" /\ Unwritten(a)
    /\ UNCHANGED record \/ Put(a, arg[a], Ttl)
    /\ arg' = [arg EXCEPT ![a] = 0]
    /\ Goto(Beat(a), "touch")
    /\ UNCHANGED <<current, last, overlap, torn, beatVars, defVars>>

-----------------------------------------------------------------------------
(* register_scarlet_definition and touch_scarlet_definition                  *)

\* What a registration writes; the EXPIRE of a key that is gone does nothing.
Described(a) == [desc |-> IF a = Composer THEN "blank" ELSE "rich", ttl |-> Forever]
Renewed      == IF def = Missing THEN def ELSE [def EXCEPT !.ttl = Ttl]

\* A thread goes on with its work on the definition, or is done with it.
Onward(t, where) ==
    /\ Goto(t, where)
    /\ UNCHANGED <<lifeVars, agentVars, beatVars, admin, edits, idle, deleted, purged>>

Finish(t, failed) ==
    /\ Goto(t, Done(t))
    /\ unrenewed' = [unrenewed EXCEPT ![t[1]] = failed]
    /\ UNCHANGED <<agentVars, beaten, admin, edits, idle, deleted, purged>>

\* The heartbeat leaves the definition alone.
Touch_Omitted(t) ==
    /\ at[t] = "touch"
    /\ UNCHANGED def
    /\ UNCHANGED lifeVars /\ Finish(t, FALSE)

\* EXPIRE, whose answer says whether there is a definition.
Touch(t) ==
    /\ at[t] = "touch"
    /\ def' = Renewed
    /\ IF def # Missing THEN UNCHANGED lifeVars /\ Finish(t, FALSE)
                      ELSE Onward(t, "exists")

\* overwrite=False: an existing definition is left alone.
DefExists(t) ==
    /\ at[t] = "exists"
    /\ UNCHANGED def
    /\ IF def # Missing THEN UNCHANGED lifeVars /\ Finish(t, FALSE)
                      ELSE Onward(t, "define")

DefSet(t) ==
    /\ at[t] = "define"
    /\ def' = Described(t[1])
    /\ Onward(t, "defexpire")

DefExpire(t) ==
    /\ at[t] = "defexpire"
    /\ def' = Renewed
    /\ UNCHANGED lifeVars /\ Finish(t, FALSE)

\* What raises ends it: both functions swallow the exception, and the heartbeat's
\* EXPIRE of its inbox, which comes first, skips the definition when it raises.
DefRaises(t) ==
    /\ Raises /\ at[t] \in {"touch", "exists", "define", "defexpire"}
    /\ \/ UNCHANGED def
       \/ at[t] \in {"touch", "defexpire"} /\ def' = Renewed
       \/ at[t] = "define" /\ def' = Described(t[1])
    /\ Finish(t, TRUE)

-----------------------------------------------------------------------------
(* The Composer's routes                                                     *)

\* The routes await nothing between their commands: one request at a time.
Edit ==
    /\ admin = "idle" /\ edits < MaxEdits
    /\ edits' = edits + 1
    /\ UNCHANGED <<lifeVars, at, agentVars, beatVars>>

\* update_description: GET, then SET with the new text and without a TTL.
UpdateRead ==
    /\ def # Missing
    /\ Edit
    /\ admin' = "read"
    /\ UNCHANGED <<def, idle, deleted, purged>>

Edited == def' = [desc |-> "edited", ttl |-> Forever] /\ idle' = 0

UpdateWrite ==
    /\ admin = "read"
    /\ Edited
    /\ admin' = "idle"
    /\ UNCHANGED <<lifeVars, at, agentVars, beatVars, edits, deleted, purged>>

\* deploy_scarlets: overwrite=True, and an EXPIRE if the scarlet has an expiry.
DeploySet ==
    /\ Edit
    /\ Edited
    /\ admin' \in {"idle", "deployed"}
    /\ UNCHANGED <<deleted, purged>>

DeployExpire ==
    /\ admin = "deployed"
    /\ def' = Renewed /\ idle' = 0
    /\ admin' = "idle"
    /\ UNCHANGED <<lifeVars, at, agentVars, beatVars, edits, deleted, purged>>

Delete ==
    /\ def # Missing
    /\ Edit
    /\ def' = Missing
    /\ deleted' = TRUE /\ purged' = TRUE
    /\ UNCHANGED <<admin, idle>>

\* The second command of a request raises and had no effect (with it, the request
\* is as good as done; so is a first command that raised, or it did nothing).
AdminRaises ==
    /\ Raises /\ admin # "idle"
    /\ admin' = "idle"
    /\ UNCHANGED <<at, agentVars, beatVars, def, edits, idle, deleted, purged>>

-----------------------------------------------------------------------------
(* Time and death                                                            *)

Resting(a) == ~alive[a] \/ (at[Main(a)] = "up" /\ at[Beat(a)] = "sleep" /\ beaten[a] # "due")

Aged(r) ==
    IF r.ttl = 1 THEN Absent
    ELSE IF r = Absent THEN r
    ELSE [r EXCEPT !.age = IF @ > StaleAge THEN @ ELSE @ + 1,
                   !.ttl = IF @ = Forever THEN @ ELSE @ - 1]

Longer(n) == IF n < Ttl THEN n + 1 ELSE n

Tick ==
    /\ admin = "idle" /\ \A a \in Members : Resting(a)
    /\ record' = [a \in Members |-> Aged(record[a])]
    /\ def' = IF def.ttl = 1 THEN Missing
              ELSE IF def.ttl \in {0, Forever} THEN def ELSE [def EXCEPT !.ttl = @ - 1]
    /\ beaten' = [a \in Members |-> IF alive[a] THEN "due" ELSE "new"]
    /\ dead' = [a \in Members |-> IF alive[a] THEN 0 ELSE Longer(dead[a])]
    /\ idle' = IF \E a \in Members : alive[a] THEN 0 ELSE Longer(idle)
    /\ deleted' = FALSE
    /\ purged' = (purged \/ (def.ttl = 1 /\ alive[Composer]
                             /\ (beaten[Composer] = "new" \/ unrenewed[Composer])))
    /\ UNCHANGED <<starts, alive, raises, at, current, last, arg, overlap, torn, unwritten,
                   unrenewed, admin, edits>>

\* The process dies, wherever its threads are.
Crash(a) ==
    /\ MayCrash /\ alive[a]
    /\ alive' = [alive EXCEPT ![a] = FALSE]
    /\ at' = [at EXCEPT ![Main(a)] = "off", ![Beat(a)] = "off"]
    /\ current' = [current EXCEPT ![a] = 0]
    /\ last' = [last EXCEPT ![a] = 0]
    /\ arg' = [arg EXCEPT ![a] = 0]
    /\ beaten' = [beaten EXCEPT ![a] = "new"]
    /\ dead' = [dead EXCEPT ![a] = 0] /\ idle' = 0
    /\ overlap' = [overlap EXCEPT ![a] = FALSE]
    /\ torn' = [torn EXCEPT ![a] = IF "regexpire" \in {at[Main(a)], at[Beat(a)]} THEN Half(a) ELSE @]
    /\ unwritten' = [unwritten EXCEPT ![a] = FALSE]
    /\ unrenewed' = [unrenewed EXCEPT ![a] = FALSE]
    /\ admin' = IF a = Composer THEN "idle" ELSE admin
    /\ UNCHANGED <<starts, raises, record, def, edits, deleted, purged>>

Step(t) ==
    \/ RegisterSet(t) \/ RegisterExpire(t) \/ RegisterSetRaises(t) \/ RegisterExpireRaises(t)
    \/ Touch(t) \/ DefExists(t) \/ DefSet(t) \/ DefExpire(t) \/ DefRaises(t)

Act(a) ==
    \/ ReportSet(a) \/ ReportSetRaises(a)
    \/ BeatBegin(a) \/ BeatKeep(a) \/ BeatWrite(a) \/ BeatWriteRaises(a)

Next ==
    \/ \E t \in Threads : Step(t)
    \/ \E a \in Members : Act(a) \/ Start(a) \/ Report(a) \/ Crash(a)
    \/ UpdateRead \/ UpdateWrite \/ DeploySet \/ DeployExpire \/ Delete \/ AdminRaises
    \/ Tick

Spec == Init /\ [][Next]_vars

-----------------------------------------------------------------------------
(* Properties                                                                *)

TypeOK ==
    /\ DOMAIN starts = Members /\ \A a \in Members : starts[a] \in 0 .. Lives[a]
    /\ alive \in [Members -> BOOLEAN] /\ raises \in 0 .. MaxRaises
    /\ at \in [Threads -> {"off", "register", "regexpire", "exists", "define", "defexpire",
                           "up", "report", "sleep", "keep", "write", "touch"}]
    /\ current \in [Members -> 0 .. MaxReports]
    /\ last \in [Members -> 0 .. MaxReports]
    /\ arg \in [Members -> 0 .. MaxReports]
    /\ record \in [Members -> [status : 0 .. MaxReports, age : 0 .. StaleAge + 1, ttl : 0 .. Forever]]
    /\ beaten \in [Members -> {"new", "due", "done"}]
    /\ dead \in [Members -> 0 .. Ttl]
    /\ overlap \in [Members -> BOOLEAN] /\ torn \in [Members -> BOOLEAN]
    /\ unwritten \in [Members -> BOOLEAN] /\ unrenewed \in [Members -> BOOLEAN]
    /\ def \in {Missing} \cup [desc : {"rich", "blank", "edited"}, ttl : 1 .. Forever]
    /\ admin \in {"idle", "read", "deployed"}
    /\ edits \in 0 .. MaxEdits /\ idle \in 0 .. Ttl
    /\ deleted \in BOOLEAN /\ purged \in BOOLEAN

Quiet(a) == alive[a] /\ at[Main(a)] = "up" /\ at[Beat(a)] = "sleep"

\* gather_workers without its max_staleness.
GatherWorkers_AnyAge == {a \in Members : Exists(a) /\ record[a].status # 0}

\* gather_workers: the records with the role of a worker that are not stale.
GatherWorkers == {a \in Members : Exists(a) /\ record[a].status # 0 /\ record[a].age <= MaxAge}

\* list_agents shows every record but the Composer's own, with its health;
\* get_stats counts those that are not stale.
Listed  == {a \in Members \ {Composer} : Exists(a)}
Stale(a) == record[a].age > StaleAge
Counted == {a \in Listed : ~Stale(a)}

\* A worker that has reported and lives is found, with what it reported last,
\* unless its last write raised, or a heartbeat of its own ran into the report.
\* The first is made up for by the next heartbeat that does not raise: it writes
\* what _last_status kept.  The second is not: the heartbeat writes back the status
\* it read before, to the record and to _last_status, and every later one repeats it.
LatestShown ==
    \A a \in Workers : Quiet(a) /\ current[a] # 0 /\ ~overlap[a] /\ ~unwritten[a] =>
        a \in GatherWorkers \cap Counted /\ record[a].status = current[a]

\* A worker that died is dispatched to for max_staleness, counted by the
\* dashboard for its threshold, and no longer, however long its record stays and
\* whatever half of a heartbeat was its last.
DeadExcluded ==
    \A a \in Workers : ~alive[a] =>
        /\ dead[a] > MaxAge => a \notin GatherWorkers
        /\ dead[a] > StaleAge => a \notin Counted

\* While a member lives there is a definition, whoever died, edited or renewed
\* it, and whatever raised before: after a heartbeat of a tick that did not raise
\* it is missing only if it was deleted since.
DefinitionStays ==
    \A a \in Members : Quiet(a) /\ beaten[a] = "done" /\ ~unrenewed[a] /\ ~deleted => def # Missing

\* The Composer's own blank description is never seen, unless a definition was
\* deleted, or ran out in an interval in which the Composer did not renew it: its
\* heartbeat raised, or was yet to come (its constructor does not renew it).  It is
\* asked only about a bus that exists, and then renews it itself.
NeverBlank == def.desc = "blank" => purged

\* What a member leaves behind goes within a TTL: its record, unless the last
\* Register of it ended between the SET and the EXPIRE, by a death or an exception,
\* and nothing wrote the record since; the definition, once nobody lives and no
\* administrator writes it, unless it had no TTL, because of an administrator's SET
\* or of a registration that ended between the same two commands.
DeadForgotten ==
    /\ \A a \in Members : ~alive[a] /\ dead[a] = Ttl /\ ~torn[a] => record[a] = Absent
    /\ (\A a \in Members : ~alive[a]) /\ idle = Ttl => def = Missing \/ def.ttl = Forever

\* The record of a member has a TTL, except while Register is between its two
\* commands, and after one that ended there until the record is written again.
TtlKept ==
    \A a \in Members : record[a].ttl = Forever =>
        torn[a] \/ \E t \in {Main(a), Beat(a)} : at[t] = "regexpire"

\* Whichever two commands a death, an exception or an edit came between, a
\* heartbeat that goes through leaves a definition, the one that somebody wrote, and
\* a record that was written whole has a TTL (and everything has its type).
KeysKept == TypeOK /\ DefinitionStays /\ NeverBlank /\ TtlKept
=============================================================================
