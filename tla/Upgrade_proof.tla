--------------------------- MODULE Upgrade_proof ---------------------------
(***************************************************************************)
(* Proofs about Upgrade, for every number of blocks, databases and         *)
(* mishaps: its type invariant, and the three promises of the script,      *)
(* NoGaps, AppliedOnce and ServedIsLevel.                                  *)
(***************************************************************************)
EXTENDS Upgrade, NatLemmas

-----------------------------------------------------------------------------
(* The inductive invariant.                                                *)

Stage == {"none", "created", "initialized"}
Position == 0 .. MaxBlock + 1
End == 0..MaxBlock
Counts == [Block -> 0..2]

DbRow == [stage : Stage, airdrops : BOOLEAN, last : Position, applied : Counts]
Mishaps == [restarts : 0..MaxMishaps, failures : 0..MaxMishaps, lost : BOOLEAN]
WorkerRow == [db : DB \cup {None}, start : Position, end : End, doRun : BOOLEAN]

Typed ==
    /\ head \in Block
    /\ db \in [DB -> DbRow] /\ worker \in [Worker -> WorkerRow]
    /\ env \in DB /\ service \in DB /\ live \in DB /\ new \in DB
    /\ pc \in Steps \cup {"ready", "failed", "done"}
    /\ poll \in [live : Position, served : Position, strayed : BOOLEAN]
    /\ mishaps \in Mishaps

\* A database without an indexer_state has no block, and the one the script
\* made has none before it is initialized.
Stages ==
    /\ \A d \in DB : db[d].stage = "initialized" <=> db[d].last # 0
    /\ \A d \in DB : db[d].stage # "initialized" => \A b \in Block : db[d].applied[b] = 0
    /\ db[env].stage # "none" /\ db[service].stage # "none" /\ db[new].stage # "none"
    /\ pc \in {"update_env", "initialize_database"} => db[new].stage = "created"

\* Nobody follows a database that is not initialized.
Followers ==
    \A w \in Worker :
        \/ worker[w] = Idle
        \/ /\ worker[w].db \in DB /\ db[worker[w].db].stage = "initialized"
           /\ worker[w].start # 0
           /\ worker[w].end # 0 => worker[w].start <= worker[w].end

\* The blocks before the position of an indexer are in its database, too, as long
\* as no commit failed.
NoGapsBehind ==
    ~mishaps.lost => \A w \in Worker :
        worker[w].db # None =>
            \A b \in ArgsBlock .. worker[w].start - 1 : db[worker[w].db].applied[b] > 0

Before == {"update_env", "initialize_database", "upload_airdrop_entries", "reindex"}
After == {"find_indexer_pid", "wait_for_exit", "start_new_indexer", "find_new_pid",
          "restart_service", "done"}

\* As long as nobody else starts a process, a database has at most one indexer,
\* at its last_block or behind it, if a commit failed; nobody follows the new one before its thread does, and its
\* thread has ended before the process follows it.
Solo ==
    /\ worker[Foreign] = Idle
    /\ \A w, v \in Worker : worker[w].db # None /\ worker[w].db = worker[v].db => w = v
    /\ \A w \in Worker : worker[w].db # None => worker[w].start >= db[worker[w].db].last

Once ==
    \A d \in DB, b \in Block : /\ db[d].applied[b] < 2
                               /\ b >= db[d].last => db[d].applied[b] = 0

Handover ==
    /\ pc \in Before => \A w \in Worker : worker[w].db # new
    /\ pc \in After => worker[new] = Idle

Alone == mishaps.restarts = 0 => Solo /\ Once /\ Handover

\* The thread of a database follows no other.
Threads == \A d \in DB : worker[d].db \in {None, d}

\* What was compared is what the script goes on to serve.
Levelled ==
    (mishaps.restarts = 0 /\ ~poll.strayed) =>
        /\ pc = "update_env" => env = live /\ service = live
        /\ pc \in Steps \ {"update_env"} => env = new /\ service \in {live, new}
        /\ pc = "done" => env = new /\ service = new
        /\ pc \in Steps => poll.served <= poll.live \/ poll.served <= db[new].last
        /\ pc \in After \cup {"join"} => poll.served <= db[new].last

Inv ==
    /\ Typed /\ Stages /\ Followers /\ Threads
    /\ NoGaps /\ NoGapsBehind
    /\ Alone /\ Levelled

-----------------------------------------------------------------------------
(* Proofs.                                                                 *)

USE DEF None, Own, Foreign, Process, Worker

\* Databases and blocks are counted from one.
LEMMA Counted ==
    /\ DB \subseteq Nat /\ 1 \in DB /\ 0 \notin DB /\ -1 \notin DB
    /\ Block \subseteq Nat /\ 0 \notin Block /\ 1 \in Block /\ Block \subseteq End /\ End \subseteq Position
    /\ 0 \in End /\ Position \subseteq Nat
    /\ \A b \in End : b + 1 \in Position
    /\ \A b \in End : b # 0 => b \in Block
BY UpgradeAssumption DEF DB, Block, Position, End

\* The database that create_new_database makes is one that nobody made yet
\* (upgrade.py:63-84).
LEMMA NewIsFresh ==
    ASSUME \E d \in DB : db[d].stage = "none"
    PROVE  LET d == Min({c \in DB : db[c].stage = "none"})
           IN  d \in DB /\ db[d].stage = "none"
<1> DEFINE S == {c \in DB : db[c].stage = "none"}
<1>1. S \in SUBSET Nat /\ S # {}
  BY Counted
<1> HIDE DEF S
<1>2. \E n \in S : \A m \in S : n <= m
  BY <1>1, LeastNat
<1>3. Min(S) \in S
  BY <1>2 DEF Min
<1> QED
  BY <1>3 DEF S

\* A range ends at a mined block.
LEMMA RangeEnd ==
    ASSUME NEW s \in Nat, NEW h \in Nat
    PROVE  LET end == Min({s + MaxRange, h})
           IN  end \in {s + MaxRange, h} /\ end <= h
<1>1. s + MaxRange \in Nat
  BY UpgradeAssumption
<1>2. \E n \in {s + MaxRange, h} : \A m \in {s + MaxRange, h} : n <= m
  BY <1>1
<1> QED
  BY <1>1, <1>2 DEF Min

\* How often a block was applied is counted up to two.
LEMMA CountedTwice ==
    ASSUME NEW n \in 0..2
    PROVE  Min({2, n + 1}) = IF n = 2 THEN 2 ELSE n + 1
<1>1. \E k \in {2, n + 1} : \A m \in {2, n + 1} : k <= m
  OBVIOUS
<1> QED
  BY <1>1 DEF Min

\* One database, which the process follows and the service reads, satisfies the invariant.
LEMMA InitInv == Init => Inv
<1> SUFFICES ASSUME Init PROVE Inv
  OBVIOUS
<1> USE UpgradeAssumption DEF Init
<1>1. Typed
  <2>1. 1 \in DB /\ 1 \in Block /\ Own \in Worker /\ ArgsBlock \in Position /\ 0 \in Position
    BY Counted
  <2>2. db \in [DB -> DbRow]
    <3>1. NoDb \in DbRow
      BY <2>1 DEF NoDb, DbRow, Stage, Counts
    <3> DEFINE first == [NoDb EXCEPT !.stage = "initialized", !.airdrops = TRUE,
                                     !.last = ArgsBlock]
    <3>2. first \in DbRow
      BY <2>1, <3>1 DEF DbRow, Stage
    <3> QED
      BY <2>1, <3>1, <3>2
  <2>3. worker \in [Worker -> WorkerRow]
    <3>1. Idle \in WorkerRow
      BY Counted DEF Idle, WorkerRow
    <3> DEFINE first == [Idle EXCEPT !.db = 1, !.start = ArgsBlock]
    <3>2. first \in WorkerRow
      BY <2>1, <3>1 DEF WorkerRow
    <3> QED
      BY <3>1, <3>2
  <2>4. poll \in [live : Position, served : Position, strayed : BOOLEAN]
    BY <2>1
  <2>5. mishaps \in Mishaps
    BY DEF Mishaps
  <2> QED
    BY <2>1, <2>2, <2>3, <2>4, <2>5 DEF Typed
<1>2. Stages /\ Followers /\ Threads
  <2>1. db[1].stage = "initialized" /\ db[1].last = ArgsBlock /\ ArgsBlock # 0
    BY Counted DEF NoDb
  <2>2. \A d \in DB : d # 1 => db[d] = NoDb
    OBVIOUS
  <2>3. Stages
    BY <2>1, <2>2, Counted DEF NoDb, Stages, Steps
  <2>4. worker[Own].db = 1 /\ worker[Own].start = ArgsBlock /\ worker[Own].end = 0
    BY DEF Idle
  <2>5. \A w \in Worker : w # Own => worker[w] = Idle
    OBVIOUS
  <2>6. Followers /\ Threads
    BY <2>1, <2>4, <2>5, Counted DEF Idle, Followers, Threads
  <2> QED
    BY <2>3, <2>6
<1>3. NoGaps /\ NoGapsBehind
  BY Counted DEF Idle, NoDb, NoGaps, NoGapsBehind
<1>4. Alone
  BY Counted DEF Idle, NoDb, Alone, Solo, Once, Handover, Before, After
<1>5. Levelled
  BY Counted DEF Idle, NoDb, Levelled, Steps, After
<1> QED
  BY <1>1, <1>2, <1>3, <1>4, <1>5 DEF Inv

\* Who follows a database follows one that is initialized.
LEMMA Following ==
    ASSUME Inv, NEW w \in Worker
    PROVE  /\ worker[w].db # None => /\ worker[w].db \in DB
                                     /\ db[worker[w].db].stage = "initialized"
           /\ worker[w].end # 0 => worker[w].db # None
<1>1. Idle.db = None /\ Idle.end = 0
  BY DEF Idle
<1> QED
  BY <1>1, Counted DEF Inv, Followers

\* The script's own steps, and most mishaps, leave the indexers and their
\* databases alone.
LEMMA NobodyMoves ==
    ASSUME Inv, UNCHANGED <<db, worker>>, mishaps'.lost = mishaps.lost
    PROVE  Followers' /\ Threads' /\ NoGaps' /\ NoGapsBehind' /\ Solo' = Solo /\ Once' = Once
BY DEF Inv, Followers, Threads, NoGaps, NoGapsBehind, Solo, Once

\* An indexer that ends leaves its database as it is.
LEMMA EndedKeeps ==
    ASSUME Inv, NEW w \in Worker, Ended(w), UNCHANGED db, mishaps'.lost = mishaps.lost
    PROVE  /\ worker' \in [Worker -> WorkerRow]
           /\ worker'[w] = Idle /\ \A v \in Worker : worker'[v] \in {worker[v], Idle}
           /\ Followers' /\ Threads' /\ NoGaps' /\ NoGapsBehind'
           /\ Solo => Solo' /\ Once' = Once
<1>1. Idle \in WorkerRow /\ Idle.db = None
  BY Counted DEF Idle, WorkerRow
<1>2. worker \in [Worker -> WorkerRow]
  BY DEF Inv, Typed
<1>3. worker'[w] = Idle /\ \A v \in Worker : v # w => worker'[v] = worker[v]
  BY <1>2 DEF Ended
<1>4. worker' \in [Worker -> WorkerRow]
  BY <1>1, <1>2 DEF Ended
<1>5. \A v \in Worker : worker'[v] \in {worker[v], Idle}
  BY <1>3
<1>6. Followers' /\ Threads' /\ NoGaps' /\ NoGapsBehind'
  <2>1. Followers'
    BY <1>5 DEF Inv, Followers
  <2>2. Threads'
    BY <1>1, <1>5 DEF Inv, Threads
  <2>3. NoGaps' /\ NoGapsBehind'
    BY <1>1, <1>5 DEF Inv, NoGaps, NoGapsBehind
  <2> QED
    BY <2>1, <2>2, <2>3
<1>7. (Solo => Solo') /\ Once' = Once
  <2>1. Once' = Once
    BY DEF Once
  <2>2. ASSUME Solo PROVE Solo'
    <3>1. worker'[Foreign] = Idle
      BY <1>5, <2>2 DEF Solo
    <3>2. \A v \in Worker : worker'[v].db # None => worker'[v] = worker[v]
      BY <1>1, <1>5
    <3> QED
      BY <2>2, <3>1, <3>2 DEF Solo
  <2> QED
    BY <2>1, <2>2
<1> QED
  BY <1>3, <1>4, <1>5, <1>6, <1>7

\* An indexer that starts is at the last_block of its database.
LEMMA StartedKeeps ==
    ASSUME Inv, NEW w \in Worker, NEW d \in DB, Started(w, d), UNCHANGED db,
           w \in DB => w = d, mishaps'.lost = mishaps.lost
    PROVE  /\ worker' \in [Worker -> WorkerRow]
           /\ worker'[w].db \in {worker[w].db, d}
           /\ \A v \in Worker : v # w => worker'[v] = worker[v]
           /\ Followers' /\ Threads' /\ NoGaps' /\ NoGapsBehind'
           /\ Once' = Once
           /\ (Solo /\ w # Foreign /\ \A v \in Worker : v # w => worker[v].db # d) => Solo'
<1> DEFINE row == [db |-> d, start |-> db[d].last, end |-> 0, doRun |-> w \in DB]
<1>1. worker \in [Worker -> WorkerRow] /\ db \in [DB -> DbRow]
  BY DEF Inv, Typed
<1>2. CASE db[d].stage # "initialized"
  <2>1. UNCHANGED <<db, worker>>
    BY <1>2 DEF Started
  <2> QED
    BY <1>1, <2>1, NobodyMoves
<1>3. CASE db[d].stage = "initialized"
  <2>1. row \in WorkerRow
    BY <1>1, Counted DEF DbRow, WorkerRow
  <2>2. worker' = [worker EXCEPT ![w] = row]
    BY <1>3 DEF Started
  <2>3. /\ worker' \in [Worker -> WorkerRow] /\ worker'[w] = row
        /\ \A v \in Worker : v # w => worker'[v] = worker[v]
    BY <1>1, <2>1, <2>2
  <2>4. Followers'
    BY <1>3, <2>3 DEF Inv, Stages, Followers
  <2>5. Threads'
    <3>1. \A c \in DB : c # w => worker'[c] = worker[c]
      BY <2>3
    <3>2. w \in DB => worker'[w].db = w
      BY <2>3
    <3> QED
      BY <3>1, <3>2 DEF Inv, Threads
  <2>6. NoGaps' /\ NoGapsBehind'
    <3>1. NoGaps'
      BY DEF Inv, NoGaps
    <3>2. ASSUME ~mishaps.lost, NEW v \in Worker, worker'[v].db # None,
                 NEW b \in ArgsBlock .. worker'[v].start - 1
          PROVE  db[worker'[v].db].applied[b] > 0
      BY <2>3, <3>2 DEF Inv, NoGaps, NoGapsBehind
    <3> QED
      BY <3>1, <3>2 DEF NoGapsBehind
  <2>7. Once' = Once
    BY DEF Once
  <2>8. ASSUME Solo, w # Foreign, \A v \in Worker : v # w => worker[v].db # d PROVE Solo'
    <3>1. worker'[w].db = d /\ worker'[w].start = db[d].last
      BY <2>3
    <3>2. db[d].last \in Nat
      BY <1>1, Counted DEF DbRow
    <3>3. \A v \in Worker : worker'[v].db # None => worker'[v].start >= db'[worker'[v].db].last
      BY <2>3, <2>8, <3>1, <3>2 DEF Solo
    <3> QED
      BY <2>3, <2>8, <3>1, <3>3 DEF Solo
  <2> QED
    BY <2>3, <2>4, <2>5, <2>6, <2>7, <2>8
<1> QED
  BY <1>2, <1>3

\* A step of the script that moves neither an indexer nor a database.
LEMMA ScriptSteps ==
    ASSUME Inv, UpdateEnv \/ PollLive \/ Join \/ WaitForExit \/ FindNewIndexer \/ RestartService
    PROVE  Inv'
<1>1. UNCHANGED <<head, db, worker, live, new, mishaps>>
  BY DEF UpdateEnv, PollLive, Join, WaitForExit, FindNewIndexer,
         RestartService, Step
<1>2. Typed'
  <2>1. poll' \in [live : Position, served : Position, strayed : BOOLEAN]
    <3>1. \A d \in DB : db[d].last \in Position
      BY DEF Inv, Typed, DbRow
    <3> QED
      BY <3>1 DEF Inv, Typed, UpdateEnv, PollLive, Join, WaitForExit, FindNewIndexer,
         RestartService, Step
  <2>2. env' \in DB /\ service' \in DB
    BY DEF Inv, Typed, UpdateEnv, PollLive, Join, WaitForExit, FindNewIndexer,
         RestartService
  <2>3. pc' \in Steps \cup {"ready", "failed", "done"}
    BY DEF Inv, Typed, UpdateEnv, PollLive, Join, WaitForExit, FindNewIndexer,
         RestartService, Step, Steps
  <2> QED
    BY <1>1, <2>1, <2>2, <2>3 DEF Inv, Typed
<1>3. Stages'
  BY <1>1 DEF Inv, Stages, UpdateEnv, PollLive, Join, WaitForExit, FindNewIndexer,
         RestartService, Step
<1>4. Alone'
  <2> SUFFICES ASSUME mishaps.restarts = 0 PROVE Handover'
    BY <1>1, NobodyMoves DEF Inv, Alone
  <2>1. Handover
    BY DEF Inv, Alone
  <2>2. CASE UpdateEnv
    BY <1>1, <2>1, <2>2 DEF Handover, UpdateEnv, Step, Before, After
  <2>3. CASE PollLive
    BY <1>1, <2>1, <2>3 DEF Handover, PollLive, Step, Before, After
  <2>4. CASE Join
    BY <1>1, <2>1, <2>4 DEF Handover, Join, Running, Step, Before, After
  <2>5. CASE WaitForExit
    BY <1>1, <2>1, <2>5 DEF Handover, WaitForExit, Step, Before, After
  <2>6. CASE FindNewIndexer
    BY <1>1, <2>1, <2>6 DEF Handover, FindNewIndexer, Step, Before, After
  <2>7. CASE RestartService
    BY <1>1, <2>1, <2>7 DEF Handover, RestartService, Step, Before, After
  <2> QED
    BY <2>2, <2>3, <2>4, <2>5, <2>6, <2>7
<1>5. Levelled'
  <2>1. CASE UpdateEnv
    BY <1>1, <2>1 DEF Inv, Levelled, UpdateEnv, Step, Steps, After
  <2>2. CASE PollLive
    <3>1. db[live].last \in Nat /\ db[service].last \in Nat /\ db[new].last \in Nat
      BY Counted DEF Inv, Typed, DbRow
    <3>2. UNCHANGED <<env, service>> /\ poll'.strayed = poll.strayed
      BY <2>2 DEF Inv, Typed, PollLive
    <3>3. CASE pc' = "failed"
      BY <3>3 DEF Levelled, Steps, After
    <3>4. CASE pc' # "failed"
      <4>1. /\ pc = "live_db" /\ pc' = "new_db"
            /\ poll'.live = db[live].last /\ poll'.served = db[service].last
        BY <2>2, <3>4 DEF Inv, Typed, PollLive, Step
      <4> QED
        BY <1>1, <3>1, <3>2, <4>1 DEF Inv, Levelled, Steps, After
    <3> QED
      BY <3>3, <3>4
  <2>3. CASE Join
    BY <1>1, <2>3 DEF Inv, Levelled, Join, Step, Steps, After
  <2>4. CASE WaitForExit
    BY <1>1, <2>4 DEF Inv, Levelled, WaitForExit, Step, Steps, After
  <2>5. CASE FindNewIndexer
    BY <1>1, <2>5 DEF Inv, Levelled, FindNewIndexer, Step, Steps, After
  <2>6. CASE RestartService
    BY <1>1, <2>6 DEF Inv, Levelled, RestartService, Step, Steps, After
  <2> QED
    BY <2>1, <2>2, <2>3, <2>4, <2>5, <2>6
<1> QED
  BY <1>1, <1>2, <1>3, <1>4, <1>5, NobodyMoves DEF Inv

\* A database is made and initialized before anybody follows it.
LEMMA CreateStep ==
    ASSUME Inv, CreateNewDatabase
    PROVE  Inv'
<1> DEFINE row == [db[new'] EXCEPT !.stage = "created"]
<1>1. /\ new' \in DB /\ db[new'].stage = "none" /\ db' = [db EXCEPT ![new'] = row]
      /\ UNCHANGED <<head, worker, env, service, mishaps>> /\ live' = env
      /\ pc' = "update_env" /\ poll' = [live |-> 0, served |-> 0, strayed |-> env # service]
  BY NewIsFresh DEF CreateNewDatabase
<1>2. /\ db' \in [DB -> DbRow] /\ db'[new'].stage = "created" /\ db'[new'].last = db[new'].last
      /\ \A d \in DB : d # new' => db'[d] = db[d]
      /\ \A d \in DB : db'[d].applied = db[d].applied
  <2>1. db \in [DB -> DbRow] /\ row \in DbRow
    BY <1>1 DEF Inv, Typed, DbRow, Stage
  <2> QED
    BY <1>1, <2>1 DEF DbRow
<1>3. \A w \in Worker : worker[w].db # new'
  BY <1>1, Counted DEF Inv, Followers, Idle
<1>4. Typed'
  BY <1>1, <1>2, Counted DEF Inv, Typed, Steps
<1>5. Stages'
  BY <1>1, <1>2 DEF Inv, Stages
<1>6. Followers' /\ Threads'
  BY <1>1, <1>2, <1>3 DEF Inv, Followers, Threads
<1>7. NoGaps' /\ NoGapsBehind'
  BY <1>1, <1>2, <1>3 DEF Inv, NoGaps, NoGapsBehind
<1>8. Alone'
  <2>1. Solo => Solo'
    BY <1>1, <1>2, <1>3 DEF Solo
  <2>2. Once => Once'
    BY <1>1, <1>2 DEF Once
  <2>3. Handover'
    BY <1>1, <1>3 DEF Handover, After
  <2> QED
    BY <1>1, <2>1, <2>2, <2>3 DEF Inv, Alone
<1>9. Levelled'
  <2>1. ~poll'.strayed => env = service
    BY <1>1
  <2>2. poll'.served = 0 /\ poll'.live = 0
    BY <1>1
  <2> QED
    BY <1>1, <2>1, <2>2 DEF Levelled, Steps, After
<1> QED
  BY <1>4, <1>5, <1>6, <1>7, <1>8, <1>9 DEF Inv

\* The first block of the new database is the one of the command line, and it
\* holds no block before.
LEMMA InitializeStep ==
    ASSUME Inv, InitializeDatabase
    PROVE  Inv'
<1> DEFINE row == [db[new] EXCEPT !.stage = "initialized", !.last = ArgsBlock]
<1>1. /\ pc = "initialize_database" /\ pc' = "upload_airdrop_entries"
      /\ UNCHANGED <<head, worker, env, service, live, new, poll, mishaps>>
  BY DEF InitializeDatabase, Step
<1>2. /\ db' \in [DB -> DbRow] /\ db'[new].stage = "initialized" /\ db'[new].last = ArgsBlock
      /\ \A d \in DB : d # new => db'[d] = db[d]
      /\ \A d \in DB : db'[d].applied = db[d].applied
  <2>1. db \in [DB -> DbRow] /\ new \in DB
    BY DEF Inv, Typed
  <2>2. row \in DbRow
    BY <2>1, Counted, UpgradeAssumption DEF DbRow, Stage
  <2>3. db' = [db EXCEPT ![new] = row]
    BY <2>1 DEF InitializeDatabase, FirstBlock
  <2> QED
    BY <2>1, <2>2, <2>3 DEF DbRow
<1>3. new \in DB /\ db[new].stage = "created" /\ db[new].last = 0 /\ ArgsBlock # 0
  BY <1>1, Counted, UpgradeAssumption DEF Inv, Typed, Stages
<1>4. \A w \in Worker : worker[w].db # new /\ (worker[w].db # None => worker[w].db \in DB)
  BY <1>3, Counted DEF Inv, Followers, Idle
<1>5. Typed'
  BY <1>1, <1>2 DEF Inv, Typed, Steps
<1>6. Stages'
  BY <1>1, <1>2, <1>3 DEF Inv, Typed, Stages
<1>7. Followers' /\ Threads'
  BY <1>1, <1>2, <1>4 DEF Inv, Followers, Threads
<1>8. NoGaps' /\ NoGapsBehind'
  <2>1. \A b \in ArgsBlock .. ArgsBlock - 1 : FALSE
    BY UpgradeAssumption DEF Block
  <2>2. NoGaps'
    BY <1>1, <1>2, <2>1 DEF Inv, NoGaps
  <2>3. NoGapsBehind'
    BY <1>1, <1>2, <1>4 DEF Inv, NoGapsBehind
  <2> QED
    BY <2>2, <2>3
<1>9. Alone'
  <2>1. Solo => Solo'
    BY <1>1, <1>2, <1>4 DEF Solo
  <2>2. Once => Once'
    BY <1>2, <1>3 DEF Inv, Stages, Once
  <2>3. Handover'
    BY <1>1, <1>4 DEF Handover, After
  <2> QED
    BY <1>1, <2>1, <2>2, <2>3 DEF Inv, Alone
<1>10. Levelled'
  <2>1. poll.served \in Nat /\ poll.live \in Nat /\ ArgsBlock \in Nat
    BY Counted, UpgradeAssumption DEF Inv, Typed
  <2> QED
    BY <1>1, <1>2, <1>3, <2>1 DEF Inv, Levelled, Steps, After
<1> QED
  BY <1>5, <1>6, <1>7, <1>8, <1>9, <1>10 DEF Inv

\* The airdrops are stored, or not.
LEMMA UploadStep ==
    ASSUME Inv, UploadAirdropEntries
    PROVE  Inv'
<1> DEFINE row == [db[new] EXCEPT !.airdrops = TRUE]
<1>1. /\ pc = "upload_airdrop_entries" /\ pc' = "reindex"
      /\ UNCHANGED <<head, worker, env, service, live, new, poll>>
      /\ mishaps'.restarts = mishaps.restarts /\ mishaps'.lost = mishaps.lost
      /\ mishaps' \in Mishaps
  BY UpgradeAssumption DEF Inv, Typed, Mishaps, UploadAirdropEntries, Step, Failure
<1>2. /\ db' \in [DB -> DbRow]
      /\ \A d \in DB : /\ db'[d].stage = db[d].stage /\ db'[d].last = db[d].last
                       /\ db'[d].applied = db[d].applied
  <2>1. db \in [DB -> DbRow] /\ new \in DB
    BY DEF Inv, Typed
  <2>2. row \in DbRow
    BY <2>1 DEF DbRow
  <2>3. db' = [db EXCEPT ![new] = row] \/ UNCHANGED db
    BY <2>1 DEF UploadAirdropEntries
  <2>4. CASE db' = [db EXCEPT ![new] = row]
    BY <2>1, <2>2, <2>4 DEF DbRow
  <2>5. CASE UNCHANGED db
    BY <2>1, <2>5
  <2> QED
    BY <2>3, <2>4, <2>5
<1>3. Typed'
  BY <1>1, <1>2 DEF Inv, Typed, Steps
<1>4. Stages'
  BY <1>1, <1>2 DEF Inv, Typed, Stages
<1>5. Followers' /\ Threads'
  BY <1>1, <1>2 DEF Inv, Followers, Threads
<1>6. \A w \in Worker : worker[w].db # None => worker[w].db \in DB
  BY DEF Inv, Followers, Idle
<1>7. NoGaps' /\ NoGapsBehind'
  BY <1>1, <1>2, <1>6 DEF Inv, NoGaps, NoGapsBehind
<1>8. Alone'
  <2>1. Solo => Solo'
    BY <1>1, <1>2, <1>6 DEF Solo
  <2>2. Once => Once'
    BY <1>2 DEF Once
  <2>3. Handover => Handover'
    BY <1>1 DEF Handover, Before, After
  <2> QED
    BY <1>1, <2>1, <2>2, <2>3 DEF Inv, Alone
<1>9. Levelled'
  BY <1>1, <1>2 DEF Inv, Typed, Levelled, Steps, After
<1> QED
  BY <1>3, <1>4, <1>5, <1>7, <1>8, <1>9 DEF Inv

\* The thread is the first to follow the new database.
LEMMA StartThreadStep ==
    ASSUME Inv, StartThread
    PROVE  Inv'
<1>1. /\ pc = "reindex" /\ pc' = "live_db" /\ new \in DB /\ Started(new, new)
      /\ UNCHANGED <<head, db, env, service, live, new, poll, mishaps>>
  BY DEF Inv, Typed, StartThread, Step
<1>2. /\ worker' \in [Worker -> WorkerRow]
      /\ Followers' /\ Threads' /\ NoGaps' /\ NoGapsBehind' /\ Once' = Once
      /\ (Solo /\ new # Foreign /\ \A v \in Worker : v # new => worker[v].db # new) => Solo'
  BY <1>1, StartedKeeps
<1>3. Typed' /\ Stages'
  BY <1>1, <1>2 DEF Inv, Typed, Stages, Steps
<1>4. Alone'
  <2>1. Handover'
    BY <1>1 DEF Handover, Before, After
  <2>2. Handover => \A v \in Worker : v # new => worker[v].db # new
    BY <1>1 DEF Handover, Before
  <2> QED
    BY <1>1, <1>2, <2>1, <2>2, Counted DEF Inv, Alone
<1>5. Levelled'
  BY <1>1 DEF Inv, Levelled, Steps, After
<1> QED
  BY <1>2, <1>3, <1>4, <1>5 DEF Inv

\* The process follows the new database after the thread has left it.
LEMMA StartNewIndexerStep ==
    ASSUME Inv, StartNewIndexer
    PROVE  Inv'
<1>1. /\ pc = "start_new_indexer" /\ pc' = "find_new_pid" /\ new \in DB /\ Started(Own, new)
      /\ UNCHANGED <<head, db, env, service, live, new, poll, mishaps>>
  BY DEF Inv, Typed, StartNewIndexer, Step
<1>2. /\ worker' \in [Worker -> WorkerRow]
      /\ \A v \in Worker : v # Own => worker'[v] = worker[v]
      /\ Followers' /\ Threads' /\ NoGaps' /\ NoGapsBehind' /\ Once' = Once
      /\ (Solo /\ Own # Foreign /\ \A v \in Worker : v # Own => worker[v].db # new) => Solo'
  BY <1>1, Counted, StartedKeeps
<1>3. Typed' /\ Stages'
  BY <1>1, <1>2 DEF Inv, Typed, Stages, Steps
<1>4. Alone'
  <2> SUFFICES ASSUME mishaps.restarts = 0 PROVE Solo' /\ Once' /\ Handover'
    BY <1>1 DEF Alone
  <2>1. Solo /\ Once /\ Handover /\ worker[new] = Idle
    BY <1>1 DEF Inv, Alone, Handover, After
  <2>2. Handover'
    BY <1>1, <1>2, <2>1, Counted DEF Handover, Before, After
  <2>3. \A v \in Worker : v # Own => worker[v].db # new
    BY <1>1, <2>1, Counted DEF Inv, Threads, Solo, Idle
  <2> QED
    BY <1>2, <2>1, <2>2, <2>3
<1>5. Levelled'
  BY <1>1 DEF Inv, Levelled, Steps, After
<1> QED
  BY <1>2, <1>3, <1>4, <1>5 DEF Inv

\* Whoever else starts a process starts it after .env.
LEMMA ProcessStartedStep ==
    ASSUME Inv, ProcessStarted
    PROVE  Inv'
<1>1. /\ env \in DB /\ Started(Foreign, env)
      /\ UNCHANGED <<head, db, env, service, pc, live, new, poll>>
      /\ mishaps' \in Mishaps
      /\ mishaps'.restarts # 0 /\ mishaps'.lost = mishaps.lost
  BY UpgradeAssumption DEF Inv, Typed, Mishaps, ProcessStarted
<1>2. worker' \in [Worker -> WorkerRow] /\ Followers' /\ Threads' /\ NoGaps' /\ NoGapsBehind'
  BY <1>1, Counted, StartedKeeps
<1>3. Typed' /\ Stages'
  BY <1>1, <1>2 DEF Inv, Typed, Stages
<1>4. Alone' /\ Levelled'
  BY <1>1 DEF Alone, Levelled
<1> QED
  BY <1>2, <1>3, <1>4 DEF Inv

\* The thread is told to stop once the new database is level with the live one.
LEMMA PollNewStep ==
    ASSUME Inv, PollNew
    PROVE  Inv'
<1>1. /\ pc = "new_db" /\ pc' \in {"join", "live_db"} /\ new \in DB
      /\ UNCHANGED <<head, db, env, service, live, new, poll, mishaps>>
      /\ pc' = "join" => Level
  BY DEF Inv, Typed, PollNew, Step
<1>2. /\ worker' \in [Worker -> WorkerRow]
      /\ \A w \in Worker : /\ worker'[w].db = worker[w].db /\ worker'[w].start = worker[w].start
                           /\ worker'[w].end = worker[w].end
      /\ \A w \in Worker : w # new => worker'[w] = worker[w]
      /\ worker[new] = Idle => worker'[new] = Idle
  <2> DEFINE row == [worker[new] EXCEPT !.doRun = FALSE]
  <2>1. worker \in [Worker -> WorkerRow] /\ new \in Worker
    BY <1>1 DEF Inv, Typed
  <2>2. row \in WorkerRow
    BY <2>1 DEF WorkerRow
  <2>3. worker[new] = Idle => row = worker[new]
    <3>1. ASSUME worker[new] = Idle PROVE worker[new].doRun = FALSE
      BY <3>1 DEF Idle
    <3> QED
      BY <2>1, <3>1 DEF WorkerRow
  <2>4. CASE worker' = [worker EXCEPT ![new] = row]
    BY <2>1, <2>2, <2>3, <2>4 DEF WorkerRow
  <2>5. CASE UNCHANGED worker
    BY <2>1, <2>5
  <2> QED
    BY <2>4, <2>5 DEF PollNew, Stop
<1>3. Typed' /\ Stages'
  BY <1>1, <1>2 DEF Inv, Typed, Stages, Steps
<1>4. Followers' /\ Threads' /\ NoGaps' /\ NoGapsBehind'
  <2>1. Followers'
    BY <1>1, <1>2 DEF Inv, Followers
  <2>2. Threads' /\ NoGaps' /\ NoGapsBehind'
    BY <1>1, <1>2 DEF Inv, Threads, NoGaps, NoGapsBehind
  <2> QED
    BY <2>1, <2>2
<1>5. Alone'
  <2>1. Solo => Solo'
    BY <1>1, <1>2, Counted DEF Inv, Typed, Solo
  <2>2. Once' = Once /\ Handover'
    BY <1>1 DEF Once, Handover, Before, After
  <2> QED
    BY <1>1, <2>1, <2>2 DEF Inv, Alone
<1>6. Levelled'
  <2>1. poll.served \in Nat /\ poll.live \in Nat /\ db[new].last \in Nat
    BY Counted DEF Inv, Typed, DbRow
  <2> QED
    BY <1>1, <2>1 DEF Inv, Levelled, Level, Steps, After
<1> QED
  BY <1>3, <1>4, <1>5, <1>6 DEF Inv

\* An indexer ends: a thread that was told to, a process that is killed or dies.
LEMMA EndedStep ==
    ASSUME Inv, NEW w \in Worker, Ended(w), UNCHANGED <<head, db, env, service, live, new, poll>>,
           mishaps' \in Mishaps,
           mishaps'.restarts = mishaps.restarts, mishaps'.lost = mishaps.lost,
           pc' \in {pc, "failed"} \/ (pc = "find_indexer_pid" /\ pc' = "wait_for_exit")
    PROVE  Inv'
<1>1. /\ worker' \in [Worker -> WorkerRow]
      /\ worker'[w] = Idle /\ \A v \in Worker : worker'[v] \in {worker[v], Idle}
      /\ Followers' /\ Threads' /\ NoGaps' /\ NoGapsBehind'
      /\ Solo => Solo' /\ Once' = Once
  BY EndedKeeps
<1>2. Typed' /\ Stages'
  BY <1>1 DEF Inv, Typed, Stages, Steps
<1>3. Alone'
  <2>1. Idle.db = None /\ new \in DB
    BY DEF Inv, Typed, Idle
  <2>2. Handover => Handover'
    BY <1>1, <2>1, Counted DEF Handover, Before, After
  <2> QED
    BY <1>1, <2>2 DEF Inv, Alone
<1>4. Levelled'
  BY DEF Inv, Levelled, Steps, After
<1> QED
  BY <1>1, <1>2, <1>3, <1>4 DEF Inv

\* A range is taken by one indexer of a database at a time, from its position on.
LEMMA TakeStep ==
    ASSUME Inv, NEW w \in Worker, TakeRange(w)
    PROVE  Inv'
<1> DEFINE end == Min({worker[w].start + MaxRange, head})
           row == [worker[w] EXCEPT !.end = end]
<1>1. /\ worker \in [Worker -> WorkerRow] /\ worker[w] # Idle /\ worker[w].start <= end
      /\ worker' = [worker EXCEPT ![w].end = end]
      /\ UNCHANGED <<head, db, env, service, pc, live, new, poll, mishaps>>
  BY DEF Inv, Typed, TakeRange, Running
<1>2. end \in Block
  <2>1. worker[w].start \in Nat /\ head \in Nat /\ worker[w].start # 0
    BY <1>1, Counted DEF Inv, Typed, Followers, WorkerRow
  <2>2. end \in {worker[w].start + MaxRange, head} /\ end <= head
    BY <2>1, RangeEnd
  <2> HIDE DEF end
  <2> QED
    BY <1>1, <2>1, <2>2, UpgradeAssumption DEF Inv, Typed, Block
<1> HIDE DEF end
<1>3. /\ worker' \in [Worker -> WorkerRow]
      /\ \A v \in Worker : /\ worker'[v].db = worker[v].db /\ worker'[v].start = worker[v].start
                           /\ v # w => worker'[v] = worker[v]
      /\ worker'[w].end = end
  <2>1. row \in WorkerRow
    BY <1>1, <1>2, Counted DEF WorkerRow
  <2>2. worker' = [worker EXCEPT ![w] = row]
    BY <1>1
  <2> QED
    BY <1>1, <2>1, <2>2 DEF WorkerRow
<1>4. Typed' /\ Stages'
  BY <1>1, <1>3 DEF Inv, Typed, Stages
<1>5. Followers'
  BY <1>1, <1>3 DEF Inv, Followers
<1>6. Threads' /\ NoGaps' /\ NoGapsBehind'
  BY <1>1, <1>3 DEF Inv, Threads, NoGaps, NoGapsBehind
<1>7. Alone'
  <2>1. worker[Foreign] = Idle => w # Foreign
    BY <1>1
  <2>2. Solo => Solo'
    BY <1>1, <1>3, <2>1 DEF Solo
  <2>3. Once' = Once
    BY <1>1 DEF Once
  <2>4. Handover => Handover'
    <3>1. worker[new] = Idle => w # new
      BY <1>1
    <3> QED
      BY <1>1, <1>3, <3>1, Counted DEF Inv, Typed, Handover
  <2> QED
    BY <1>1, <2>2, <2>3, <2>4 DEF Inv, Alone
<1>8. Levelled'
  BY <1>1 DEF Inv, Levelled
<1> QED
  BY <1>4, <1>5, <1>6, <1>7, <1>8 DEF Inv

\* A range is committed whole, with last_block.
LEMMA CommitStep ==
    ASSUME Inv, NEW w \in Worker, CommitRange(w)
    PROVE  Inv'
<1> DEFINE d == worker[w].db
           start == worker[w].start
           end == worker[w].end
           applied == [b \in Block |-> IF b \in start..end THEN Min({2, db[d].applied[b] + 1})
                                       ELSE db[d].applied[b]]
           rowD == [db[d] EXCEPT !.applied = applied, !.last = end + 1]
           rowW == [worker[w] EXCEPT !.start = end + 1, !.end = 0]
<1>1. /\ worker \in [Worker -> WorkerRow] /\ db \in [DB -> DbRow] /\ end # 0
      /\ UNCHANGED <<head, env, service, pc, live, new, poll, mishaps>>
  BY DEF Inv, Typed, CommitRange
<1>2. /\ worker[w] # Idle /\ d \in DB /\ db[d].stage = "initialized"
      /\ start \in Position /\ start # 0 /\ end \in Block /\ start <= end /\ end + 1 \in Position
  <2>1. worker[w] # Idle
    BY <1>1 DEF Idle
  <2>2. d \in DB /\ db[d].stage = "initialized" /\ start # 0 /\ start <= end
    BY <1>1, <2>1 DEF Inv, Followers
  <2>3. start \in Position /\ end \in End
    BY <1>1 DEF WorkerRow
  <2> QED
    BY <1>1, <2>1, <2>2, <2>3, Counted
<1>3. /\ applied \in Counts
      /\ \A b \in Block : /\ b \in start..end /\ db[d].applied[b] = 0 => applied[b] = 1
                          /\ b \notin start..end => applied[b] = db[d].applied[b]
                          /\ b \in start..end \/ db[d].applied[b] > 0 => applied[b] > 0
  <2>1. db[d].applied \in Counts
    BY <1>1, <1>2 DEF DbRow
  <2>2. \A b \in Block : db[d].applied[b] \in 0..2
    BY <2>1 DEF Counts
  <2>3. \A b \in Block : Min({2, db[d].applied[b] + 1})
                           = IF db[d].applied[b] = 2 THEN 2 ELSE db[d].applied[b] + 1
    BY <2>2, CountedTwice
  <2>4. \A b \in Block : applied[b] = IF b \notin start..end THEN db[d].applied[b]
                                      ELSE IF db[d].applied[b] = 2 THEN 2
                                           ELSE db[d].applied[b] + 1
    BY <2>3
  <2>5. \A b \in Block : applied[b] \in 0..2
    BY <2>2, <2>4
  <2> QED
    BY <2>2, <2>4, <2>5 DEF Counts
<1> HIDE DEF applied
<1>4. /\ db' \in [DB -> DbRow]
      /\ db'[d].stage = db[d].stage /\ db'[d].last = end + 1 /\ db'[d].applied = applied
      /\ \A c \in DB : c # d => db'[c] = db[c]
  <2>1. rowD \in DbRow
    BY <1>1, <1>2, <1>3 DEF DbRow
  <2>2. db' = [db EXCEPT ![d] = rowD]
    BY <1>1, <1>2 DEF CommitRange, applied
  <2> QED
    BY <1>1, <1>2, <2>1, <2>2 DEF DbRow
<1>5. /\ worker' \in [Worker -> WorkerRow]
      /\ worker'[w].db = d /\ worker'[w].start = end + 1 /\ worker'[w].end = 0
      /\ \A v \in Worker : v # w => worker'[v] = worker[v]
  <2>1. rowW \in WorkerRow
    BY <1>1, <1>2, Counted DEF WorkerRow
  <2>2. worker' = [worker EXCEPT ![w] = rowW]
    BY <1>1 DEF CommitRange
  <2> QED
    BY <1>1, <2>1, <2>2 DEF WorkerRow
<1> HIDE DEF d, start, end
<1>6. Typed' /\ Stages'
  BY <1>1, <1>2, <1>4, <1>5, Counted DEF Inv, Typed, Stages
<1>7. Followers' /\ Threads'
  <2>1. Followers'
    <3>1. \A c \in DB : db'[c].stage = db[c].stage
      BY <1>4
    <3>2. end + 1 # 0
      BY <1>2, Counted
    <3>3. ASSUME NEW v \in Worker, v # w, worker'[v] # Idle
          PROVE  /\ worker'[v].db \in DB /\ db'[worker'[v].db].stage = "initialized"
                 /\ worker'[v].start # 0
                 /\ worker'[v].end # 0 => worker'[v].start <= worker'[v].end
      BY <1>5, <3>1, <3>3 DEF Inv, Followers
    <3>4. /\ worker'[w].db \in DB /\ db'[worker'[w].db].stage = "initialized"
          /\ worker'[w].start # 0 /\ worker'[w].end = 0
      BY <1>2, <1>5, <3>1, <3>2
    <3> QED
      BY <3>3, <3>4 DEF Followers
  <2>2. Threads'
    BY <1>5 DEF Inv, Threads, d
  <2> QED
    BY <2>1, <2>2
<1>8. ~mishaps.lost => \A b \in ArgsBlock..end : applied[b] > 0
  <2> SUFFICES ASSUME ~mishaps.lost PROVE \A b \in ArgsBlock..end : applied[b] > 0
    OBVIOUS
  <2>1. \A b \in ArgsBlock..end : b \in Block /\ (b \in start..end \/ b \in ArgsBlock .. start - 1)
    BY <1>2, UpgradeAssumption DEF Block, Position
  <2>2. \A b \in ArgsBlock .. start - 1 : db[d].applied[b] > 0
    BY <1>2, Counted DEF Inv, NoGapsBehind, d, start
  <2> QED
    BY <1>3, <2>1, <2>2
<1>9. NoGaps' /\ NoGapsBehind'
  <2>1. (end + 1) - 1 = end
    BY <1>2, Counted
  <2>2. NoGaps'
    BY <1>1, <1>4, <1>8, <2>1 DEF Inv, NoGaps
  <2>3. ASSUME ~mishaps.lost, NEW v \in Worker, worker'[v].db # None, NEW b \in ArgsBlock .. worker'[v].start - 1
        PROVE  db'[worker'[v].db].applied[b] > 0
    <3>1. CASE v = w
      BY <1>4, <1>5, <1>8, <2>1, <2>3, <3>1
    <3>2. CASE v # w /\ worker[v].db = d
      <4>1. worker[v].start \in Position /\ b \in Block
        BY <1>1, <1>5, <2>3, <3>2, UpgradeAssumption DEF WorkerRow, Position, Block
      <4>2. db[d].applied[b] > 0
        BY <1>5, <2>3, <3>2 DEF Inv, NoGapsBehind
      <4> QED
        BY <1>3, <1>4, <1>5, <3>2, <4>1, <4>2
    <3>3. CASE v # w /\ worker[v].db # d
      <4>1. worker[v].db \in DB
        BY <1>5, <2>3, <3>3, Following
      <4> QED
        BY <1>4, <1>5, <2>3, <3>3, <4>1 DEF Inv, NoGapsBehind
    <3> QED
      BY <3>1, <3>2, <3>3
  <2> QED
    BY <1>1, <2>2, <2>3 DEF NoGapsBehind
<1>10. ASSUME mishaps.restarts = 0 PROVE Solo' /\ Once' /\ Handover' /\ start >= db[d].last
  <2>1. Solo /\ Once /\ Handover
    BY <1>10 DEF Inv, Alone
  <2>2. start >= db[d].last
    BY <1>2, <2>1, Counted DEF Solo, d, start
  <2>3. Solo'
    <3>1. w # Foreign
      BY <1>2, <2>1 DEF Solo
    <3>2. \A v \in Worker : v # w => worker[v].db # d
      BY <1>2, <2>1, Counted DEF Solo, d
    <3>3. \A v \in Worker : worker'[v].db = worker[v].db
      BY <1>5 DEF d
    <3>4. \A v \in Worker : worker[v].db # None => worker[v].db \in DB
      BY Following
    <3>5. \A v \in Worker : worker'[v].db # None => worker'[v].start >= db'[worker'[v].db].last
      <4>1. worker'[w].start = db'[d].last /\ worker'[w].db = d
        BY <1>4, <1>5
      <4>2. ASSUME NEW v \in Worker, v # w, worker'[v].db # None
            PROVE  worker'[v].start >= db'[worker'[v].db].last
        BY <1>4, <1>5, <2>1, <3>2, <3>4, <4>2 DEF Solo
      <4>3. db'[d].last \in Nat
        BY <1>2, <1>4, Counted DEF DbRow
      <4>4. worker'[w].start >= db'[worker'[w].db].last
        BY <4>1, <4>3
      <4> QED
        BY <4>2, <4>4
    <3>6. \A v, u \in Worker : worker'[v].db # None /\ worker'[v].db = worker'[u].db => v = u
      BY <2>1, <3>3 DEF Solo
    <3> QED
      BY <1>5, <2>1, <3>1, <3>5, <3>6 DEF Solo
  <2>4. Once'
    <3>1. ASSUME NEW b \in Block
          PROVE  applied[b] < 2 /\ (b >= end + 1 => applied[b] = 0)
      <4>1. db[d].applied[b] < 2 /\ (b >= start => db[d].applied[b] = 0)
        <5>1. b \in Nat /\ start \in Nat /\ db[d].last \in Nat
          BY <1>1, <1>2, Counted DEF DbRow
        <5> QED
          BY <1>2, <2>1, <2>2, <5>1 DEF Once
      <4>2. b \in Nat /\ start \in Nat /\ end \in Nat
        BY <1>2, Counted
      <4> QED
        BY <1>2, <1>3, <4>1, <4>2
    <3> QED
      BY <1>2, <1>4, <2>1, <3>1 DEF Once
  <2>5. Handover'
    <3>1. worker[new] = Idle => w # new
      BY <1>2
    <3>2. new \in DB /\ \A v \in Worker : worker'[v].db = worker[v].db
      BY <1>5 DEF Inv, Typed, d
    <3> QED
      BY <1>1, <1>5, <2>1, <3>1, <3>2 DEF Handover
  <2> QED
    BY <2>2, <2>3, <2>4, <2>5
<1>11. Alone'
  BY <1>1, <1>10 DEF Alone
<1>12. Levelled'
  <2>1. mishaps.restarts = 0 => db[new].last <= db'[new].last
    <3>1. db[new].last \in Nat /\ end \in Nat /\ start \in Nat /\ new \in DB
      BY <1>1, <1>2, Counted DEF Inv, Typed, DbRow
    <3> QED
      BY <1>2, <1>4, <1>10, <3>1
  <2>2. db[new].last \in Nat /\ db'[new].last \in Nat /\ poll.served \in Nat
    BY <1>1, <1>4, Counted DEF Inv, Typed, DbRow
  <2> QED
    BY <1>1, <2>1, <2>2 DEF Inv, Levelled
<1> QED
  BY <1>6, <1>7, <1>9, <1>11, <1>12 DEF Inv

\* A commit that fails moves the indexer, and nothing else.
LEMMA CommitLostStep ==
    ASSUME Inv, NEW w \in Worker, CommitLost(w)
    PROVE  Inv'
<1> DEFINE row == [worker[w] EXCEPT !.start = worker[w].end + 1, !.end = 0]
<1>1. /\ UNCHANGED <<head, db, env, service, pc, live, new, poll>> /\ worker[w].end # 0
      /\ mishaps' \in Mishaps /\ mishaps'.restarts = mishaps.restarts /\ mishaps'.lost = TRUE
  <2>1. mishaps \in Mishaps /\ mishaps.restarts + mishaps.failures < MaxMishaps
    BY DEF Inv, Typed, CommitLost
  <2>2. mishaps.failures + 1 \in 0..MaxMishaps
    BY <2>1, UpgradeAssumption DEF Mishaps
  <2>3. mishaps' = [mishaps EXCEPT !.failures = @ + 1, !.lost = TRUE]
    BY DEF CommitLost
  <2>4. /\ mishaps' \in Mishaps /\ mishaps'.restarts = mishaps.restarts
        /\ mishaps'.lost = TRUE
    BY <2>1, <2>2, <2>3 DEF Mishaps
  <2> QED
    BY <2>4 DEF CommitLost
<1>2. /\ worker \in [Worker -> WorkerRow] /\ worker[w] # Idle /\ worker[w].end + 1 \in Position
      /\ worker[w].start \in Nat /\ worker[w].end \in Nat /\ worker[w].start <= worker[w].end
  <2>1. worker \in [Worker -> WorkerRow] /\ worker[w] # Idle
    BY <1>1 DEF Inv, Typed, Idle
  <2> QED
    BY <1>1, <2>1, Counted DEF Inv, Followers, WorkerRow
<1>3. /\ worker' \in [Worker -> WorkerRow]
      /\ \A v \in Worker : worker'[v].db = worker[v].db /\ (v # w => worker'[v] = worker[v])
      /\ worker'[w].start = worker[w].end + 1 /\ worker'[w].end = 0
  <2>1. row \in WorkerRow
    BY <1>2, Counted DEF WorkerRow
  <2>2. worker' = [worker EXCEPT ![w] = row]
    BY <1>2 DEF CommitLost
  <2> QED
    BY <1>2, <2>1, <2>2 DEF WorkerRow
<1>4. Typed' /\ Stages'
  BY <1>1, <1>3 DEF Inv, Typed, Stages
<1>5. Followers' /\ Threads'
  <2>1. worker[w].end + 1 # 0
    BY <1>2
  <2> QED
    BY <1>1, <1>2, <1>3, <2>1 DEF Inv, Followers, Threads
<1>6. NoGaps' /\ NoGapsBehind'
  BY <1>1 DEF NoGaps, NoGapsBehind
<1>7. Alone'
  <2>1. Solo => Solo'
    <3>1. ASSUME Solo, NEW v \in Worker, worker'[v].db # None
          PROVE  worker'[v].start >= db'[worker'[v].db].last
      <4>1. worker[v].start >= db[worker[v].db].last /\ worker[v].db \in DB
        BY <1>3, <3>1, Following DEF Solo
      <4>2. db[worker[v].db].last \in Nat
        BY <4>1, Counted DEF Inv, Typed, DbRow
      <4> QED
        BY <1>1, <1>2, <1>3, <4>1, <4>2
    <3>2. Solo => worker'[Foreign] = Idle
      BY <1>2, <1>3 DEF Solo
    <3> QED
      BY <1>3, <3>1, <3>2 DEF Solo
  <2>2. Once' = Once
    BY <1>1 DEF Once
  <2>3. Handover => Handover'
    <3>1. worker[new] = Idle => w # new
      BY <1>2
    <3> QED
      BY <1>1, <1>3, <3>1, Counted DEF Inv, Typed, Handover
  <2> QED
    BY <1>1, <2>1, <2>2, <2>3 DEF Inv, Alone
<1>8. Levelled'
  BY <1>1 DEF Inv, Levelled
<1> QED
  BY <1>4, <1>5, <1>6, <1>7, <1>8 DEF Inv

\* The invariant is inductive.
LEMMA NextInv ==
    ASSUME Inv, [Next]_vars
    PROVE  Inv'
<1>1. CASE BlockMined
  <2>1. head' \in Block
    BY <1>1, UpgradeAssumption DEF Inv, Typed, BlockMined, Block
  <2>2. Alone' /\ Levelled'
    BY <1>1, NobodyMoves DEF Inv, Alone, Handover, Levelled, BlockMined
  <2> QED
    BY <1>1, <2>1, <2>2, NobodyMoves DEF Inv, Typed, Stages, BlockMined
<1>2. ASSUME NEW w \in Worker, TakeRange(w) PROVE Inv'
  BY <1>2, TakeStep
<1>3. ASSUME NEW w \in Worker, CommitRange(w) PROVE Inv'
  BY <1>3, CommitStep
<1>14. ASSUME NEW w \in Worker, CommitLost(w) PROVE Inv'
  BY <1>14, CommitLostStep
<1>4. mishaps \in Mishaps
  BY DEF Inv, Typed
<1>5. Failure => /\ mishaps' \in Mishaps
                 /\ mishaps'.restarts = mishaps.restarts /\ mishaps'.lost = mishaps.lost
  BY <1>4, UpgradeAssumption DEF Mishaps, Failure
<1>6. ASSUME NEW d \in DB, ThreadEnds(d) PROVE Inv'
  BY <1>4, <1>6, EndedStep DEF ThreadEnds
<1>7. CASE CreateNewDatabase
  BY <1>7, CreateStep
<1>8. CASE Script
  <2>1. CASE StopIndexerProcess
    <3>1. CASE \E w \in Found : Ended(w)
      BY <1>4, <2>1, <3>1, EndedStep DEF StopIndexerProcess, Step, Found
    <3>2. CASE UNCHANGED worker /\ pc' = "failed"
      <4>1. UNCHANGED <<head, db, worker, env, service, live, new, poll, mishaps>>
        BY <2>1, <3>2 DEF StopIndexerProcess, Step
      <4>2. Typed' /\ Stages'
        BY <3>2, <4>1 DEF Inv, Typed, Stages
      <4>3. Alone' /\ Levelled'
        BY <3>2, <4>1, NobodyMoves
           DEF Inv, Alone, Handover, Levelled, Before, After, Steps
      <4> QED
        BY <4>1, <4>2, <4>3, NobodyMoves DEF Inv
    <3> QED
      BY <2>1, <3>1, <3>2 DEF StopIndexerProcess, Step
  <2> QED
    BY <1>8, <2>1, ScriptSteps, InitializeStep, UploadStep, StartThreadStep, PollNewStep,
       StartNewIndexerStep DEF Script
<1>9. CASE ScriptFails
  <2>1. CASE Ended(new)
    BY <1>5, <1>9, <2>1, EndedStep DEF Inv, Typed, ScriptFails
  <2>2. CASE UNCHANGED worker
    <3>1. Typed' /\ Stages'
      BY <1>5, <1>9, <2>2 DEF Inv, Typed, Stages, ScriptFails
    <3>2. Alone' /\ Levelled'
      BY <1>5, <1>9, <2>2, NobodyMoves
         DEF Inv, Alone, Handover, Levelled, Before, After, Steps, ScriptFails
    <3> QED
      BY <1>5, <1>9, <2>2, <3>1, <3>2, NobodyMoves DEF Inv, ScriptFails
  <2> QED
    BY <1>9, <2>1, <2>2 DEF ScriptFails
<1>10. CASE ProcessDies
  BY <1>5, <1>10, EndedStep DEF ProcessDies, Found
<1>11. CASE ProcessStarted
  BY <1>11, ProcessStartedStep
<1>12. CASE ServiceRestarted
  <2>1. Typed' /\ Stages'
    BY <1>5, <1>12 DEF Inv, Typed, Stages, ServiceRestarted
  <2>2. Alone' /\ Levelled'
    BY <1>5, <1>12, NobodyMoves DEF Inv, Alone, Handover, Levelled, After, ServiceRestarted
  <2> QED
    BY <1>5, <1>12, <2>1, <2>2, NobodyMoves DEF Inv, ServiceRestarted
<1>13. CASE UNCHANGED vars
  <2>1. UNCHANGED <<head, db, worker, env, service, pc, live, new, poll, mishaps>>
    BY <1>13 DEF vars
  <2>2. Typed' /\ Stages' /\ Alone' /\ Levelled'
    BY <2>1, NobodyMoves DEF Inv, Typed, Stages, Alone, Handover, Levelled
  <2> QED
    BY <2>1, <2>2, NobodyMoves DEF Inv
<1> QED
  BY <1>1, <1>2, <1>3, <1>6, <1>7, <1>8, <1>9, <1>10, <1>11, <1>12, <1>13, <1>14 DEF Next

\* The invariant holds throughout.
LEMMA AlwaysInv == Spec => []Inv
BY InitInv, NextInv, PTL DEF Spec

-----------------------------------------------------------------------------
(* What it shows.                                                          *)

\* Every database, indexer and step of the script is one the script can be in;
\* nobody ever follows a database without an indexer_state, whose thread or
\* process would die of it (upgrade.py:98-125, indexer.py:560-566).
THEOREM TypesHold == Spec => []TypeOK
<1>1. Inv => TypeOK
  <2> SUFFICES ASSUME Inv PROVE TypeOK
    OBVIOUS
  <2>1. \A d \in DB : db[d] \in DbRow
    BY DEF Inv, Typed
  <2>2. \A d \in DB : db[d].last \in 1 .. MaxBlock + 1 <=> db[d].last # 0
    BY <2>1, UpgradeAssumption DEF DbRow, Position
  <2>3. \A d \in DB : /\ db[d].stage \in {"none", "created", "initialized"}
                      /\ db[d].stage = "initialized" <=> db[d].last \in 1 .. MaxBlock + 1
                      /\ db[d].airdrops \in BOOLEAN /\ db[d].applied \in [Block -> 0..2]
    BY <2>1, <2>2 DEF Inv, Stages, DbRow, Stage, Counts
  <2>4. ASSUME NEW w \in Worker, worker[w] # Idle
        PROVE  /\ db[worker[w].db].stage = "initialized"
               /\ worker[w].start \in 1 .. MaxBlock + 1
               /\ worker[w].end \in {0} \cup Block /\ worker[w].doRun \in BOOLEAN
    <3>1. worker[w] \in WorkerRow
      BY DEF Inv, Typed
    <3>2. worker[w].start \in Position /\ worker[w].end \in End /\ worker[w].doRun \in BOOLEAN
      BY <3>1 DEF WorkerRow
    <3>3. db[worker[w].db].stage = "initialized" /\ worker[w].start # 0
      BY <2>4 DEF Inv, Followers
    <3>4. worker[w].start \in 1 .. MaxBlock + 1
      BY <3>2, <3>3, UpgradeAssumption DEF Position
    <3>5. worker[w].end \in {0} \cup Block
      BY <3>2, Counted
    <3> QED
      BY <3>2, <3>3, <3>4, <3>5
  <2> QED
    BY <2>3, <2>4 DEF Inv, Typed, Mishaps, Stages, TypeOK, Position
<1> QED
  BY <1>1, AlwaysInv, PTL

\* Every database has all blocks from the script's first one to its last_block,
\* whoever indexes it and wherever the script fails, unless a commit failed
\* (upgrade.py:98-104, indexer.py:608, 673-675).
THEOREM NoGapsHolds == Spec => []NoGaps
<1>1. Inv => NoGaps
  BY DEF Inv
<1> QED
  BY <1>1, AlwaysInv, PTL

\* No block is applied twice to a database: the thread and the process never
\* follow it at once, not even after a failure of the script, unless somebody
\* starts a process in between (upgrade.py:122-141).
THEOREM AppliedOnceHolds == Spec => []AppliedOnce
<1>1. Inv => AppliedOnce
  BY DEF Inv, Alone, Once, AppliedOnce
<1> QED
  BY <1>1, AlwaysInv, PTL

\* When the service has been moved it serves all it served when the databases
\* were compared (upgrade.py:107-139).
THEOREM ServedIsLevelHolds == Spec => []ServedIsLevel
<1>1. Inv => ServedIsLevel
  <2> SUFFICES ASSUME Inv PROVE ServedIsLevel
    OBVIOUS
  <2>1. poll.served \in Nat /\ db[new].last \in Nat
    BY Counted DEF Inv, Typed, DbRow
  <2> QED
    BY <2>1 DEF Inv, Levelled, After, ServedIsLevel
<1> QED
  BY <1>1, AlwaysInv, PTL
=============================================================================
