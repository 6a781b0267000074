----------------------------- MODULE DataSources -----------------------------
(****************************************************************************)
(* One data source behind its broker, and what stands between it and a        *)
(* worker: the worker's query_data_source (context.py), the Composer's        *)
(* sessions and its registry of data sources (session.py, routers/auth.py,    *)
(* routers/data_sources.py, data_sources_store.py) and the broker             *)
(* (broker/main.py).                                                         *)
(*                                                                           *)
(* The Composer's handlers are coroutines without an await: it serves one      *)
(* request at a time, and a change to the registry, with the write of its     *)
(* file, is one request.  The broker's handler is one too, up to the answer   *)
(* of the Composer; the query then runs on the broker's pool.                 *)
(*                                                                           *)
(* An entry is the set of the callers it grants; an administrator and a group *)
(* are sets of callers as well.  A call of requests that meets no server, or  *)
(* a dead one, raises.                                                       *)
(****************************************************************************)
EXTENDS Sequences, FiniteSets, Naturals

CONSTANTS
    Workers,      \* the callers of query_data_source
    Veterans,     \* those that hold a session which has expired
    PoolSize,     \* BROKER_POOL_SIZE
    MaxEvents,    \* bound: changes to the registry, crashes of the Composer and
                  \* sessions that reach their TTL, together
    SecretIsSet,  \* is COMPOSER_SESSION_SECRET configured?
    DiskFails     \* may a write of the registry's file fail?

ASSUME DataSourcesAssumption ==
    /\ Veterans \subseteq Workers
    /\ PoolSize \in Nat \ {0}
    /\ MaxEvents \in Nat
    /\ SecretIsSet \in BOOLEAN /\ DiskFails \in BOOLEAN

\* What the registry has for the source: nothing, or who may use it.
Unregistered == [known |-> FALSE, allowed |-> {}]
Entry(allowed) == [known |-> TRUE, allowed |-> allowed]
Entries == {Unregistered} \cup {Entry(S) : S \in SUBSET Workers}

VARIABLES
    entry,      \* _sources[name], in the Composer's memory
    disk,       \* what the last write of the file was to say
    torn,       \* was it cut short?
    persist,    \* the Composer's _persist: no, open, write
    up,         \* is the Composer running?
    busy,       \* the worker whose login holds the Composer's event loop
    token,      \* _composer_token of each worker: none, live, expired
    client,     \* where query_data_source is
    bearer,     \* the token of the request to the broker
    outcome,    \* what query_data_source came to
    authorizing,\* the callers whose authorization holds the broker's event loop
    backlog,    \* queries submitted to the broker's pool and not begun
    running,    \* the callers whose queries run
    events,     \* how many, for the bound
    diverged,   \* history: a write failed since the Composer was started
    granted,    \* history: callers allowed at some time since they asked the broker
    excuse      \* history: callers with no session, no grant or no Composer at some
                \* time since their last login or their list of the sources

storeVars  == <<entry, disk, torn, persist, up, diverged>>
brokerVars == <<authorizing, backlog, running>>
dataVars   == <<storeVars, busy, token, client, bearer, outcome, brokerVars, events, granted, excuse>>

\* The source is registered, for every worker.  A worker that called before may
\* hold a session that has expired; one whose session has not is as any other
\* after its login.
DataInit ==
    /\ entry = Entry(Workers) /\ disk = entry /\ torn = FALSE
    /\ persist = "no" /\ up = TRUE /\ busy = {} /\ diverged = FALSE
    /\ token = [w \in Workers |-> IF w \in Veterans THEN "expired" ELSE "none"]
    /\ client = [w \in Workers |-> "idle"]
    /\ bearer = [w \in Workers |-> "none"]
    /\ outcome = [w \in Workers |-> "none"]
    /\ authorizing = {} /\ backlog = <<>> /\ running = {}
    /\ events = 0
    /\ granted = {} /\ excuse = {}

Serving == up /\ persist = "no" /\ busy = {}
Allowed(w) == w \in entry.allowed

Goto(w, where) == client' = [client EXCEPT ![w] = where]
End(w, how) ==
    /\ Goto(w, "over")
    /\ outcome' = [outcome EXCEPT ![w] = how]

\* Who asked the broker and is allowed now, and who has an excuse now.
Record ==
    /\ granted' = granted \cup {w \in entry'.allowed : bearer'[w] # "none" /\ up'}
    /\ excuse' = excuse \cup {w \in Workers : ~up' \/ busy' # {} \/ w \notin entry'.allowed}

-----------------------------------------------------------------------------
(* query_data_source, on a worker                                            *)

\* Called: with a cached token it lists the sources, without one it logs in.
Call(w) ==
    /\ client[w] = "idle"
    /\ Goto(w, IF token[w] = "none" THEN "login" ELSE "list")
    /\ excuse' = {x \in excuse : x # w}
    /\ UNCHANGED <<busy, storeVars, token, bearer, outcome, brokerVars, events, granted>>

\* _authenticate_to_composer: the Composer asks Gustavo, and nothing else can be
\* asked of the Composer until Gustavo answers.
Login(w) ==
    /\ client[w] \in {"login", "relogin"}
    /\ Serving
    /\ busy' = {w}
    /\ UNCHANGED <<storeVars, token, client, bearer, outcome, brokerVars, events>>
    /\ Record

\* A session, or Gustavo's refusal; the worker may have given up.
LoginAnswer(w) ==
    /\ up /\ w \in busy
    /\ busy' = {}
    /\ \/ /\ client[w] \in {"login", "relogin"}
          /\ token' = [token EXCEPT ![w] = "live"]
          /\ Goto(w, IF client[w] = "login" THEN "list" ELSE "relist")
          /\ excuse' = {x \in excuse : x # w}
          /\ UNCHANGED outcome
       \/ /\ client[w] \in {"login", "relogin"}
          /\ End(w, "login_failed") /\ UNCHANGED <<token, excuse>>
       \/ /\ client[w] = "over"
          /\ UNCHANGED <<token, client, outcome, excuse>>
    /\ UNCHANGED <<storeVars, bearer, brokerVars, events, granted>>

\* The list is refused: once, the worker logs in again.
Unauthorized(w) ==
    /\ Serving /\ token[w] = "expired"
    /\ \/ client[w] = "list" /\ Goto(w, "relogin") /\ UNCHANGED outcome
       \/ client[w] = "relist" /\ End(w, "unauthorized")
    /\ UNCHANGED <<busy, storeVars, token, bearer, brokerVars, events, granted, excuse>>

\* The sources this session is allowed are listed, and name is among them or not.
List(w) ==
    /\ client[w] \in {"list", "relist"}
    /\ Serving /\ token[w] = "live"
    /\ \/ Allowed(w) /\ Goto(w, IF client[w] = "list" THEN "ask" ELSE "reask") /\ UNCHANGED outcome
       \/ ~Allowed(w) /\ End(w, "unregistered")
    /\ excuse' = {x \in excuse : x # w}
    /\ UNCHANGED <<busy, storeVars, token, bearer, brokerVars, events, granted>>

\* The request carries the token the call began with.
Post_OldToken(w) ==
    /\ client[w] \in {"ask", "reask"}
    /\ Goto(w, "wait")
    /\ bearer' = [bearer EXCEPT ![w] = IF client[w] = "reask" THEN "expired" ELSE token[w]]
    /\ UNCHANGED <<busy, storeVars, token, outcome, brokerVars, events>>
    /\ Record

\* The broker of the entry is asked, with the token of the worker as it is now.
Post(w) ==
    /\ client[w] \in {"ask", "reask"}
    /\ Goto(w, "wait")
    /\ bearer' = [bearer EXCEPT ![w] = token[w]]
    /\ UNCHANGED <<busy, storeVars, token, outcome, brokerVars, events>>
    /\ Record

\* No answer in 10 s, or nobody to answer.
RequestRaises(w) ==
    /\ client[w] \in {"login", "relogin", "list", "relist"}
    /\ End(w, "raised")
    /\ UNCHANGED <<busy, storeVars, token, bearer, brokerVars, events, granted, excuse>>

\* The timeout of 30 s: the worker gives up, the broker goes on.
GiveUp(w) ==
    /\ client[w] = "wait"
    /\ End(w, "raised")
    /\ UNCHANGED <<busy, storeVars, token, bearer, brokerVars, events, granted, excuse>>

-----------------------------------------------------------------------------
(* The broker                                                                *)

\* The broker answers; nobody may be listening any more.
Reply(w, how) ==
    IF client[w] = "wait" THEN End(w, how) ELSE UNCHANGED <<client, outcome>>

\* query: a request is taken up, and the event loop waits for the Composer.
Receive(w) ==
    /\ bearer[w] # "none"
    /\ authorizing = {}
    /\ authorizing' = {w}
    /\ UNCHANGED <<busy, storeVars, token, client, bearer, outcome, backlog, running, events, granted, excuse>>

\* A Composer that cannot be reached refuses nobody.
Authorize_FailsOpen(w) ==
    /\ w \in authorizing
    /\ authorizing' = {}
    /\ \/ /\ up => (Serving /\ bearer[w] = "live" /\ Allowed(w))
          /\ backlog' = Append(backlog, w) /\ UNCHANGED <<client, outcome>>
       \/ up /\ (bearer[w] # "live" \/ ~Allowed(w)) /\ Reply(w, "refused") /\ UNCHANGED backlog
    /\ bearer' = [bearer EXCEPT ![w] = "none"]
    /\ UNCHANGED <<busy, storeVars, token, running, events, granted, excuse>>

\* _authorized: the Composer decodes the session and looks the entry up; an
\* error, a 401 or no answer is a refusal.
Authorize(w) ==
    /\ w \in authorizing
    /\ authorizing' = {}
    /\ \/ /\ Serving /\ bearer[w] = "live" /\ Allowed(w)
          /\ backlog' = Append(backlog, w) /\ UNCHANGED <<client, outcome>>
       \/ /\ ~up \/ busy # {} \/ (Serving /\ (bearer[w] # "live" \/ ~Allowed(w)))
          /\ Reply(w, "refused") /\ UNCHANGED backlog
    /\ bearer' = [bearer EXCEPT ![w] = "none"]
    /\ UNCHANGED <<busy, storeVars, token, running, events, granted, excuse>>

\* A thread of the pool takes the oldest query, whoever still waits for it.
RunQuery ==
    /\ backlog # <<>> /\ Cardinality(running) < PoolSize
    /\ running' = running \cup {Head(backlog)}
    /\ backlog' = Tail(backlog)
    /\ UNCHANGED <<busy, storeVars, token, client, bearer, outcome, authorizing, events, granted, excuse>>

QueryEnds(w) ==
    /\ w \in running
    /\ running' = running \ {w}
    /\ \E how \in {"ok", "query_failed"} : Reply(w, how)
    /\ UNCHANGED <<busy, storeVars, token, bearer, authorizing, backlog, events, granted, excuse>>

-----------------------------------------------------------------------------
(* The Composer: the registry, its file and its restarts                      *)

\* A deletion forgets to write the file.
Edit_DeleteNotPersisted ==
    /\ Serving /\ events < MaxEvents
    /\ \E new \in Entries :
          /\ new # entry
          /\ entry' = new
          /\ persist' = IF new.known THEN "open" ELSE "no"
    /\ events' = events + 1
    /\ UNCHANGED <<busy, disk, torn, up, diverged, token, client, bearer, outcome, brokerVars>>
    /\ Record

\* create, update or delete, called by an administrator: the memory first.
Edit ==
    /\ Serving /\ events < MaxEvents
    /\ \E new \in Entries : new # entry /\ entry' = new
    /\ persist' = "open"
    /\ events' = events + 1
    /\ UNCHANGED <<busy, disk, torn, up, diverged, token, client, bearer, outcome, brokerVars>>
    /\ Record

\* _persist: opening the file for writing empties it, dumping fills it; a
\* failure of either is logged, and the request succeeds.
Persist ==
    /\ up /\ persist # "no"
    /\ \/ /\ persist = "open"
          /\ persist' = "write" /\ disk' = entry /\ torn' = TRUE
          /\ UNCHANGED diverged
       \/ /\ persist = "write"
          /\ persist' = "no" /\ torn' = FALSE
          /\ UNCHANGED <<disk, diverged>>
       \/ /\ DiskFails
          /\ persist' = "no" /\ diverged' = TRUE
          /\ UNCHANGED <<disk, torn>>
    /\ UNCHANGED <<busy, entry, up, token, client, bearer, outcome, brokerVars, events, granted, excuse>>

\* Without a secret of its own, the next process signs with another key.
Crash ==
    /\ up /\ events < MaxEvents
    /\ up' = FALSE /\ busy' = {} /\ persist' = "no" /\ entry' = Unregistered
    /\ events' = events + 1
    /\ IF SecretIsSet THEN UNCHANGED <<token, bearer>>
       ELSE /\ token' = [w \in Workers |-> IF token[w] = "live" THEN "expired" ELSE token[w]]
            /\ bearer' = [w \in Workers |-> IF bearer[w] = "live" THEN "expired" ELSE bearer[w]]
    /\ UNCHANGED <<disk, torn, diverged, client, outcome, brokerVars>>
    /\ Record

\* load: a file that was cut short has the entry or has not.
Load == {disk} \cup (IF torn THEN {Unregistered} ELSE {})

Restart ==
    /\ ~up /\ up' = TRUE
    /\ entry' \in Load
    /\ diverged' = torn
    /\ UNCHANGED <<busy, disk, torn, persist, token, client, bearer, outcome, brokerVars, events>>
    /\ Record

\* SESSION_TTL_SECONDS after the login.
Expire(w) ==
    /\ token[w] = "live" /\ events < MaxEvents
    /\ events' = events + 1
    /\ token' = [token EXCEPT ![w] = "expired"]
    /\ bearer' = [bearer EXCEPT ![w] = IF @ = "live" THEN "expired" ELSE @]
    /\ excuse' = excuse \cup {w}
    /\ UNCHANGED <<busy, storeVars, client, outcome, brokerVars, granted>>

Querying(w) == Login(w) \/ Unauthorized(w) \/ List(w) \/ RequestRaises(w) \/ Post(w) \/ GiveUp(w)

Broker == RunQuery \/ \E w \in Workers : Receive(w) \/ Authorize(w)

Composer == Edit \/ Persist \/ Crash \/ Restart \/ \E w \in Workers : Expire(w) \/ LoginAnswer(w)
=============================================================================
