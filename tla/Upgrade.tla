------------------------------ MODULE Upgrade ------------------------------
(***************************************************************************)
(* upgrade.py: everything is indexed again into a new database, by an      *)
(* indexer in a thread of the script, while the old indexer process goes   *)
(* on with the old one; then the process and the service are moved.        *)
(*                                                                         *)
(* An indexer is BlockIndex with a position of its own: it takes a range   *)
(* of blocks and commits it whole.  That IndexerSystem implements this is  *)
(* proved there.  A range is cut short when its process is killed, and     *)
(* left out when its commit fails: start_block has been moved by then.     *)
(*                                                                         *)
(* Blocks hold nothing that violates a constraint when it is applied       *)
(* twice; that would be a poisoned event of IndexerLoop.                   *)
(***************************************************************************)
EXTENDS Integers, FiniteSetsExt

CONSTANTS
    MaxBlock,       \* bound: the chain stops growing
    MaxRange,       \* a range has at most MaxRange + 1 blocks
    MaxDb,          \* bound: databases, one at first and one for each start of the script
    ArgsBlock,      \* the block of the script's command line
    FirstClaim,     \* the first block with a Claimed event
    MaxMishaps      \* bound: failures and interventions

Block == 1..MaxBlock
DB == 1..MaxDb

ASSUME UpgradeAssumption ==
    /\ MaxBlock \in Nat \ {0} /\ MaxRange \in Nat /\ MaxDb \in Nat \ {0}
    /\ ArgsBlock \in Block /\ FirstClaim \in Block
    /\ MaxMishaps \in Nat

\* indexer.py as the script starts it and as somebody else does, and the thread
\* of the script that made database d.
Own == 0
Foreign == -1
Process == {Own, Foreign}
Worker == Process \cup DB

VARIABLES
    head,       \* the newest block an indexer may take
    db,         \* db[d]: its stage, its airdrops, last_block, how often each block was applied
    worker,     \* worker[w]: the database it follows, its start_block, its open range, do_run
    env,        \* the DB_NAME of .env
    service,    \* the database the running service reads
    pc,         \* where the script is
    live,       \* the database its first connection is to
    new,        \* the database it made
    poll,       \* live_block_number, and for history what it was compared with
    mishaps     \* history: how often somebody started the process, what else went wrong,
                \* and whether a commit was among it

vars == <<head, db, worker, env, service, pc, live, new, poll, mishaps>>

None == 0
Idle == [db |-> None, start |-> 0, end |-> 0, doRun |-> FALSE]
NoDb == [stage |-> "none", airdrops |-> FALSE, last |-> 0, applied |-> [b \in Block |-> 0]]

Steps == {"update_env", "initialize_database", "upload_airdrop_entries", "reindex", "live_db",
          "new_db", "join", "find_indexer_pid", "wait_for_exit", "start_new_indexer",
          "find_new_pid", "restart_service"}

\* Nobody follows a database without an indexer_state, and no range is open
\* without a worker.
TypeOK ==
    /\ head \in Block
    /\ \A d \in DB : /\ db[d].stage \in {"none", "created", "initialized"}
                     /\ db[d].stage = "initialized" <=> db[d].last \in 1 .. MaxBlock + 1
                     /\ db[d].airdrops \in BOOLEAN /\ db[d].applied \in [Block -> 0..2]
    /\ \A w \in Worker : \/ worker[w] = Idle
                         \/ /\ db[worker[w].db].stage = "initialized"
                            /\ worker[w].start \in 1 .. MaxBlock + 1
                            /\ worker[w].end \in {0} \cup Block /\ worker[w].doRun \in BOOLEAN
    /\ db[env].stage # "none" /\ db[service].stage # "none"
    /\ pc \in Steps \cup {"ready", "failed", "done"}
    /\ live \in DB /\ new \in DB
    /\ poll \in [live : 0 .. MaxBlock + 1, served : 0 .. MaxBlock + 1, strayed : BOOLEAN]
    /\ mishaps \in [restarts : 0..MaxMishaps, failures : 0..MaxMishaps, lost : BOOLEAN]

\* One database, which the process follows and the service reads.
Init ==
    /\ head = 1
    /\ db = [d \in DB |-> IF d # 1 THEN NoDb
                          ELSE [NoDb EXCEPT !.stage = "initialized", !.airdrops = TRUE,
                                            !.last = ArgsBlock]]
    /\ worker = [w \in Worker |-> IF w # Own THEN Idle
                                  ELSE [Idle EXCEPT !.db = 1, !.start = ArgsBlock]]
    /\ env = 1 /\ service = 1
    /\ pc = "ready" /\ live = 1 /\ new = 1
    /\ poll = [live |-> 0, served |-> 0, strayed |-> FALSE]
    /\ mishaps = [restarts |-> 0, failures |-> 0, lost |-> FALSE]

-----------------------------------------------------------------------------
(* The indexers.                                                           *)

BlockMined ==
    /\ head < MaxBlock /\ head' = head + 1
    /\ UNCHANGED <<db, worker, env, service, pc, live, new, poll, mishaps>>

Running(w) == worker[w] # Idle

\* The advisory lock is one of the database.
Locked(d) == \E w \in Worker : worker[w].db = d /\ worker[w].end # 0

\* A Claimed event raises without the entry it marks.
Raises(w, end) == ~db[worker[w].db].airdrops /\ FirstClaim \in worker[w].start .. end

TakeRange(w) ==
    LET end == Min({worker[w].start + MaxRange, head}) IN
    /\ Running(w) /\ ~Locked(worker[w].db)
    /\ w \in DB => worker[w].doRun
    /\ worker[w].start <= end /\ ~Raises(w, end)
    /\ worker' = [worker EXCEPT ![w].end = end]
    /\ UNCHANGED <<head, db, env, service, pc, live, new, poll, mishaps>>

CommitRange(w) ==
    LET range == worker[w].start .. worker[w].end
        next == worker[w].end + 1
        Once(applied) == [b \in Block |-> IF b \in range THEN Min({2, applied[b] + 1})
                                          ELSE applied[b]]
    IN  /\ worker[w].end # 0
        /\ db' = [db EXCEPT ![worker[w].db].applied = Once(@), ![worker[w].db].last = next]
        /\ worker' = [worker EXCEPT ![w].start = next, ![w].end = 0]
        /\ UNCHANGED <<head, env, service, pc, live, new, poll, mishaps>>

\* The commit fails after start_block was moved, and the loop goes on.
CommitLost(w) ==
    /\ worker[w].end # 0
    /\ mishaps.restarts + mishaps.failures < MaxMishaps
    /\ mishaps' = [mishaps EXCEPT !.failures = @ + 1, !.lost = TRUE]
    /\ worker' = [worker EXCEPT ![w].start = worker[w].end + 1, ![w].end = 0]
    /\ UNCHANGED <<head, db, env, service, pc, live, new, poll>>

\* Its open transaction is rolled back.
Ended(w) == worker' = [worker EXCEPT ![w] = Idle]

\* The worker reads last_block; without an indexer_state it dies at once.
Started(w, d) ==
    worker' = IF db[d].stage # "initialized" THEN worker
              ELSE [worker EXCEPT ![w] = [db |-> d, start |-> db[d].last, end |-> 0,
                                          doRun |-> w \in DB]]

\* The loop of a thread looks at do_run between two ranges.
ThreadEnds(d) ==
    /\ Running(d) /\ worker[d].end = 0 /\ ~worker[d].doRun
    /\ Ended(d)
    /\ UNCHANGED <<head, db, env, service, pc, live, new, poll, mishaps>>

-----------------------------------------------------------------------------
(* The script.                                                             *)

Step(from, to) == pc = from /\ pc' = to /\ UNCHANGED head

\* settings.DB is the database of .env.  The name of the new one has the time
\* in it.
CreateNewDatabase ==
    /\ pc \in {"ready", "failed", "done"} /\ pc' = "update_env"
    /\ \E d \in DB : db[d].stage = "none"
    /\ live' = env
    /\ new' = Min({d \in DB : db[d].stage = "none"})
    /\ db' = [db EXCEPT ![new'].stage = "created"]
    /\ poll' = [live |-> 0, served |-> 0, strayed |-> env # service]
    /\ UNCHANGED <<head, worker, env, service, mishaps>>

UpdateEnv ==
    /\ Step("update_env", "initialize_database")
    /\ env' = new
    /\ UNCHANGED <<db, worker, service, live, new, poll, mishaps>>

\* Mutant: the new database starts where the live one is.
FirstBlock_Live == db[live].last

\* Mutant: the block is not passed on, and last_block has its default.
FirstBlock_Default == 0

FirstBlock == ArgsBlock

\* The tables are made, and the rows of indexer_state and the meta table.
InitializeDatabase ==
    /\ Step("initialize_database", "upload_airdrop_entries")
    /\ db' = [db EXCEPT ![new].stage = "initialized", ![new].last = FirstBlock]
    /\ UNCHANGED <<worker, env, service, live, new, poll, mishaps>>

Failure ==
    /\ mishaps.restarts + mishaps.failures < MaxMishaps
    /\ mishaps' = [mishaps EXCEPT !.failures = @ + 1]

\* psql may fail: nobody looks at its exit status.
UploadAirdropEntries ==
    /\ Step("upload_airdrop_entries", "reindex")
    /\ \/ db' = [db EXCEPT ![new].airdrops = TRUE] /\ UNCHANGED mishaps
       \/ Failure /\ UNCHANGED db
    /\ UNCHANGED <<worker, env, service, live, new, poll>>

StartThread ==
    /\ Step("reindex", "live_db")
    /\ Started(new, new)
    /\ UNCHANGED <<db, env, service, live, new, poll, mishaps>>

\* Without an indexer_state to read, the script fails, and the thread goes on.
PollLive ==
    /\ IF db[live].stage = "initialized"
       THEN /\ Step("live_db", "new_db")
            /\ poll' = [poll EXCEPT !.live = db[live].last, !.served = db[service].last]
       ELSE Step("live_db", "failed") /\ UNCHANGED poll
    /\ UNCHANGED <<db, worker, env, service, live, new, mishaps>>

\* Mutant: the last range is left to the new indexer.
Level_Nearly == db[new].last + MaxRange + 1 >= poll.live

\* The new database is up to date with the live one.
Level == db[new].last >= poll.live

\* Mutant: the thread is not told to stop.
Stop_Not == UNCHANGED worker

Stop == worker' = [worker EXCEPT ![new].doRun = FALSE]

PollNew ==
    /\ \/ Level /\ Step("new_db", "join") /\ Stop
       \/ ~Level /\ Step("new_db", "live_db") /\ UNCHANGED worker
    /\ UNCHANGED <<db, env, service, live, new, poll, mishaps>>

\* Mutant: the thread is not waited for.
Join_Not ==
    /\ Step("join", "find_indexer_pid")
    /\ UNCHANGED <<db, worker, env, service, live, new, poll, mishaps>>

Join ==
    /\ Step("join", "find_indexer_pid") /\ ~Running(new)
    /\ UNCHANGED <<db, worker, env, service, live, new, poll, mishaps>>

Found == {w \in Process : Running(w)}

\* The first process that is found is killed; without one the script fails.
StopIndexerProcess ==
    /\ \/ Step("find_indexer_pid", "wait_for_exit") /\ \E w \in Found : Ended(w)
       \/ Step("find_indexer_pid", "failed") /\ Found = {} /\ UNCHANGED worker
    /\ UNCHANGED <<db, env, service, live, new, poll, mishaps>>

\* Until no process is found, not even one that somebody started meanwhile.
WaitForExit ==
    /\ Step("wait_for_exit", "start_new_indexer") /\ Found = {}
    /\ UNCHANGED <<db, worker, env, service, live, new, poll, mishaps>>

\* The process has the script's environment, and the DB_NAME in it.
StartNewIndexer ==
    /\ Step("start_new_indexer", "find_new_pid")
    /\ Started(Own, new)
    /\ UNCHANGED <<db, env, service, live, new, poll, mishaps>>

\* Any process will do; without one the script fails.
FindNewIndexer ==
    /\ \/ Step("find_new_pid", "restart_service") /\ Found # {}
       \/ Step("find_new_pid", "failed") /\ Found = {}
    /\ UNCHANGED <<db, worker, env, service, live, new, poll, mishaps>>

RestartService ==
    /\ Step("restart_service", "done")
    /\ service' = env
    /\ UNCHANGED <<db, worker, env, live, new, poll, mishaps>>

Script ==
    \/ UpdateEnv \/ InitializeDatabase \/ UploadAirdropEntries \/ StartThread
    \/ PollLive \/ PollNew \/ Join
    \/ StopIndexerProcess \/ WaitForExit \/ StartNewIndexer \/ FindNewIndexer
    \/ RestartService

-----------------------------------------------------------------------------
(* Mishaps.                                                                *)

\* An exception or Ctrl-C ends the script but not its thread, which is no
\* daemon; a kill ends both.
ScriptFails ==
    /\ pc \in Steps /\ pc' = "failed" /\ Failure
    /\ Ended(new) \/ UNCHANGED worker
    /\ UNCHANGED <<head, db, env, service, live, new, poll>>

ProcessDies ==
    /\ Failure /\ \E w \in Found : Ended(w)
    /\ UNCHANGED <<head, db, env, service, pc, live, new, poll>>

\* Somebody finds no process and starts one.
ProcessStarted ==
    /\ mishaps.restarts + mishaps.failures < MaxMishaps
    /\ mishaps' = [mishaps EXCEPT !.restarts = @ + 1]
    /\ Found = {} /\ Started(Foreign, env)
    /\ UNCHANGED <<head, db, env, service, pc, live, new, poll>>

\* systemd restarts the service.
ServiceRestarted ==
    /\ Failure /\ service' = env
    /\ UNCHANGED <<head, db, worker, env, pc, live, new, poll>>

Next ==
    \/ BlockMined
    \/ \E w \in Worker : TakeRange(w) \/ CommitRange(w) \/ CommitLost(w)
    \/ \E d \in DB : ThreadEnds(d)
    \/ CreateNewDatabase \/ Script
    \/ ScriptFails \/ ProcessDies \/ ProcessStarted \/ ServiceRestarted

\* The indexers and the script go on; nobody has to start the script, and
\* nothing has to go wrong.
Fairness ==
    /\ \A w \in Worker : WF_vars(TakeRange(w)) /\ WF_vars(CommitRange(w))
    /\ \A d \in DB : WF_vars(ThreadEnds(d))
    /\ WF_vars(Script)

Spec == Init /\ [][Next]_vars

FairSpec == Spec /\ Fairness

-----------------------------------------------------------------------------
\* Wherever the script fails, whatever is restarted, and whoever shares a database,
\* each one has all blocks from ArgsBlock to its last_block, unless a commit failed,
\* which skips its range (upgrade.py:98-104, indexer.py:608, 673-675).
NoGaps ==
    ~mishaps.lost => \A d \in DB : \A b \in ArgsBlock .. db[d].last - 1 : db[d].applied[b] > 0

\* Two indexers never work on one database, so that no block is applied twice:
\* not when the script fails and is run again, not when a thread outlives its
\* script.  Only a process that somebody starts meanwhile, from an .env that
\* names the new database already, can join the thread (upgrade.py:122, 138).
AppliedOnce == mishaps.restarts = 0 => \A d \in DB, b \in Block : db[d].applied[b] < 2

\* At the switch the new database holds all that the served one held when they
\* were compared (upgrade.py:107-139), unless the script was run again after a
\* failure, and compared the new database with the one left over from it.
ServedIsLevel ==
    (pc = "done" /\ mishaps.restarts = 0 /\ ~poll.strayed) => db[service].last >= poll.served

\* upgrade.py:108, 111, 116: "Index events until up to date", "Live DB connection",
\* "Indexing until up to date with live indexer".  Here for every run of the script,
\* the one after a failure too.
UpToDateWithLive ==
    (pc = "done" /\ mishaps.restarts = 0) => db[service].last >= poll.served

\* A script nobody disturbs comes to its end, with the service and the indexer
\* on one database (upgrade.py:253-293).
Finishes ==
    pc = "update_env"
        ~> \/ pc = "done" /\ service = new /\ worker[Own].db = new
           \/ mishaps.restarts + mishaps.failures > 0
=============================================================================
