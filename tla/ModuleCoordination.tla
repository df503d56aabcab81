-------------------------- MODULE ModuleCoordination --------------------------
(***************************************************************************)
(* agent_info coordinating the modules of an agent around a change of the  *)
(* agent's metadata or groups (AgentInfoImpl::start, coordinateModules).   *)
(*                                                                         *)
(* The coordinator pauses FIM, SCA and Syscollector, gives their tables a  *)
(* common version, asks each of them to flush its pending differences,     *)
(* resumes them, polls the flushes, and only then opens the session that   *)
(* hands the new metadata and version to the manager.                      *)
(*                                                                         *)
(* Each module keeps its own threads: a scan that writes its table and     *)
(* queue, a synchronisation loop, and (SCA, Syscollector) the flush worker *)
(* of AsyncFlushController.  The loop and the worker share one             *)
(* AgentSyncProtocol, whose m_syncInProgress lets one of them in.  FIM     *)
(* lives in another process, has no worker and pauses with its scan        *)
(* mutexes, here one lock.  Not all that writes FIM's table takes them: a  *)
(* scan deletes rows without them, and the threads of the real-time and    *)
(* who-data monitoring never have them while they apply an event.          *)
(*                                                                         *)
(* The differences of a module are numbered as they are persisted: rows is *)
(* the last number, sent the last one a session has delivered.             *)
(*                                                                         *)
(* Faults selects the environment:                                         *)
(*   "session" a session with the manager can fail                         *)
(*   "repair"  an integrity check can find the manager's documents wrong   *)
(*   "slow"    FIM can stay busy for MAX_PAUSE_POLL_ATTEMPTS polls         *)
(*   "ipc"     the three attempts of a query to FIM can fail, each before  *)
(*             or after FIM has acted on it                                *)
(*   "resume"  so can those of the query that resumes FIM                  *)
(*   "version" SCA and Syscollector can answer get_version and set_version *)
(*             with an error of their databases                            *)
(*   "restart" the process of agent_info, SCA and Syscollector can stop    *)
(*             at any point and start again                                *)
(*   "events"  FIM monitors directories in real-time or who-data mode      *)
(***************************************************************************)
EXTENDS Integers, FiniteSets

CONSTANTS
  Setups,      \* the sets of modules that may be enabled
  Faults,      \* the environment assumed, see above
  MaxRows,     \* bound on the differences each module persists
  MaxChanges,  \* bound on the changes of metadata or groups
  MaxMishaps   \* bound on the faults that happen

\* COORDINATION_MODULES
Modules == {"fim", "sca", "syscollector"}

Tables == {"metadata", "groups"}

ASSUME CoordinationAssumption ==
  /\ Setups \subseteq SUBSET Modules
  /\ Faults \subseteq {"session", "repair", "slow", "ipc", "resume", "version",
                 "restart", "events"}
  /\ {MaxRows, MaxChanges, MaxMishaps} \subseteq Nat

VARIABLES
  enabled,     \* the modules that are running
  mod,         \* the state of each module
  step,        \* where the coordinator is
  table,       \* the table it is looking at
  todo,        \* the modules its present phase has still to query
  paused,      \* pausedModules
  newVersion,  \* globalMaxVersion, then newVersion
  outcome,     \* what is left to do, or the result, once the modules run again
  owed,        \* the rows each module had when its flush was requested
  joined,      \* modules whose flush relies on a session it did not start
  flag,        \* m_shouldSyncMetadata and m_shouldSyncGroups, in the database
  firstRun,    \* m_isFirstRun and m_isFirstGroupsRun
  changed,     \* tables whose flag populateAgentMetadata has still to set
  meta,        \* number of changes committed to each table
  known,       \* the number of them the manager has been told of
  mishaps      \* number of faults so far

loop == <<step, table, changed>>
ghosts == <<owed, joined>>
coordination == <<todo, paused, newVersion, outcome, ghosts>>
stored == <<flag, firstRun, meta>>
vars == <<enabled, mod, loop, coordination, stored, known, mishaps>>

Module == [
  paused   : BOOLEAN,                    \* m_paused, fim_pause_requested
  allowed  : BOOLEAN,                    \* fim_pausing_is_allowed
  first    : BOOLEAN,                    \* fim_first_sync_completed
  lock     : {"free", "scan", "sync", "coordinator"},  \* FIM's scan mutexes
  scan     : {"idle", "checked", "running", "notify"},
  sync     : {"idle", "pausing", "checked", "call", "session", "notify",
              "recovery", "repair", "resume"},
  detected : BOOLEAN,                    \* flush_request_detected
  urgent   : BOOLEAN,                    \* the paused-and-flush branch of FIM
  result   : BOOLEAN,                    \* sync_result
  call     : {"none", "test", "doze", "asleep"},  \* Syscollector::pause
  worker   : {"none", "call", "session"},
  flush    : {"running", "succeeded", "failed"},
  open     : {"none", "sync", "worker"},  \* who holds m_syncInProgress
  batch    : 0..MaxRows,
  rows     : 0..MaxRows,
  sent     : 0..MaxRows,
  version  : Nat]                        \* the highest of its rows, 0 without

TypeOK ==
  /\ enabled \in Setups
  /\ mod \in [Modules -> Module]
  /\ step \in {"sleep", "flag", "decide", "pause", "pausing", "fimpoll", "get",
               "set", "flush", "resume", "poll", "session", "reset"}
  /\ table \in Tables \cup {"integrity"}
  /\ todo \subseteq Modules
  /\ paused \subseteq enabled
  /\ newVersion \in Nat
  /\ outcome \in {"none", "flushed", "failed"}
  /\ owed \in [Modules -> 0..MaxRows]
  /\ joined \subseteq enabled
  /\ changed \subseteq Tables
  /\ flag \in [Tables -> BOOLEAN]
  /\ firstRun \in [Tables -> BOOLEAN]
  /\ meta \in [Tables -> 0..MaxChanges]
  /\ known \in [Tables -> 0..MaxChanges]
  /\ mishaps \in 0..MaxMishaps

NewModule ==
  [paused |-> FALSE, allowed |-> FALSE, first |-> TRUE, lock |-> "free",
   scan |-> "idle", sync |-> "idle", detected |-> FALSE, urgent |-> FALSE,
   result |-> FALSE, call |-> "none", worker |-> "none", flush |-> "succeeded",
   open |-> "none", batch |-> 0, rows |-> 0, sent |-> 0,
   version |-> 0]

\* FIM may still have its first synchronisation to do, and agent_info its
\* first run of a table.
Init ==
  /\ enabled \in Setups
  /\ \E first \in BOOLEAN :
       mod = [m \in Modules |-> [NewModule EXCEPT !.first = m = "fim" => first]]
  /\ step = "sleep"
  /\ table = "metadata"
  /\ todo = {}
  /\ paused = {}
  /\ newVersion = 0
  /\ outcome = "none"
  /\ owed = [m \in Modules |-> 0]
  /\ joined = {}
  /\ changed = {}
  /\ flag = [t \in Tables |-> FALSE]
  /\ \E first \in BOOLEAN : firstRun = [t \in Tables |-> first]
  /\ meta = [t \in Tables |-> 0]
  /\ known = meta
  /\ mishaps = 0

Mishap(fault) ==
  /\ fault \in Faults
  /\ mishaps < MaxMishaps
  /\ mishaps' = mishaps + 1

Smooth == UNCHANGED mishaps

Set(m, new) == mod' = [mod EXCEPT ![m] = new]

-----------------------------------------------------------------------------
(* AgentSyncProtocol::synchronizeModule, called by the loop or the worker *)

\* The caller who finds a session open, or nothing to send, returns true.
CallReturnsTrue(m) == mod[m].open # "none" \/ mod[m].rows = mod[m].sent

Opened(m, who) == [mod[m] EXCEPT !.open = who, !.batch = mod[m].rows]

\* Variant: a session that fails keeps m_syncInProgress.
ClosedOnSuccess(m, ok) ==
  IF ok THEN [mod[m] EXCEPT !.open = "none", !.batch = 0, !.sent = mod[m].batch]
        ELSE [mod[m] EXCEPT !.batch = 0]

Closed(m, ok) ==
  [mod[m] EXCEPT !.open = "none", !.batch = 0, !.sent = IF ok THEN mod[m].batch ELSE @]

\* A session that succeeds, or fails because the manager is out of reach.
SessionEnds(ok) == IF ok THEN Smooth ELSE Mishap("session")

-----------------------------------------------------------------------------
(* The scans *)

\* FIM walks the files, and then the registry, under its mutexes.  SCA and
\* Syscollector look at m_paused and then raise the flag that pause() waits for.
ScanStart(m) ==
  /\ mod[m].scan = "idle"
  /\ IF m = "fim"
     THEN /\ mod[m].lock = "free"
          /\ Set(m, [mod[m] EXCEPT !.scan = "running", !.lock = "scan"])
     ELSE /\ ~ mod[m].paused
          /\ m = "syscollector" => mod[m].sync # "repair"
          /\ Set(m, [mod[m] EXCEPT !.scan = "checked"])

ScanBegin(m) ==
  /\ mod[m].scan = "checked"
  /\ Set(m, [mod[m] EXCEPT !.scan = "running"])

\* A difference is persisted, and version is the highest of the table after it.
Difference(m, version) ==
  /\ mod[m].rows < MaxRows
  /\ Set(m, [mod[m] EXCEPT !.rows = @ + 1, !.version = version])

\* A row that is new or has changed has its version increased, which need not
\* become the highest, and one that has gone may have had the highest.
ScanRow(m) ==
  /\ mod[m].scan = "running"
  /\ \E version \in 0..(mod[m].version + 1) : Difference(m, version)

\* What a scan of FIM does before, between and after its walks, without the
\* mutexes: it deletes the directories no wildcard matches any more, the rows
\* the walk has not met and the files that failed the validation, and makes
\* the updates of flags that were put off, which put the version back that the
\* walk gave the row.  A scan may begin at any time, so no state tells these
\* moments from those without a scan.
FimScanOutside(m) ==
  /\ m = "fim"
  /\ mod[m].scan = "idle"
  /\ \E version \in 0..mod[m].version : Difference(m, version)

\* setScanInProgress(false) notifies under the mutex pause() waits with; the
\* destructor of Syscollector's ScanGuard does not take it.
ScanEnd(m) ==
  /\ mod[m].scan = "running"
  /\ Set(m, [mod[m] EXCEPT !.scan = IF m = "syscollector" THEN "notify" ELSE "idle",
                           !.lock = IF m = "fim" THEN "free" ELSE @])

Woken(state) == IF state = "asleep" THEN "test" ELSE state

ScanNotify(m) ==
  /\ mod[m].scan = "notify"
  /\ Set(m, [mod[m] EXCEPT !.scan = "idle", !.call = Woken(@)])

ScanStep(m) ==
  \/ ScanStart(m) \/ ScanBegin(m) \/ ScanRow(m) \/ FimScanOutside(m)
  \/ ScanEnd(m) \/ ScanNotify(m)

\* The real-time thread has released fim_realtime_mutex before it applies the
\* events it has collected, the who-data threads never take it.
FimEvent(m) ==
  /\ m = "fim"
  /\ "events" \in Faults
  /\ \E version \in 0..(mod[m].version + 1) : Difference(m, version)

-----------------------------------------------------------------------------
(* The synchronisation loops *)

\* pause() returns when neither a scan nor a synchronisation is running.
Quiet(m) == mod[m].scan # "running" /\ mod[m].sync \notin {"call", "session"}

\* gm_sca_sync_module pauses the scans for its own synchronisation.
ScaSyncPause ==
  /\ mod["sca"].sync = "idle"
  /\ Set("sca", [mod["sca"] EXCEPT !.sync = "pausing", !.paused = TRUE])

\* syncModule gives up when somebody has resumed the module meanwhile.
ScaSyncBegin ==
  /\ mod["sca"].sync = "pausing"
  /\ Quiet("sca")
  /\ Set("sca", [mod["sca"] EXCEPT !.sync = IF mod["sca"].paused THEN "call" ELSE "resume"])

\* Variant: the cycle ends without the resume.
ScaSyncEnd ==
  /\ mod["sca"].sync = "resume"
  /\ Set("sca", [mod["sca"] EXCEPT !.sync = "idle"])

ScaSyncResume ==
  /\ mod["sca"].sync = "resume"
  /\ Set("sca", [mod["sca"] EXCEPT !.sync = "idle", !.paused = FALSE])

\* gm_sync_module skips the cycle during a scan, syncModule while paused.
SysSyncCheck ==
  /\ mod["syscollector"].sync = "idle"
  /\ mod["syscollector"].scan # "running"
  /\ ~ mod["syscollector"].paused
  /\ Set("syscollector", [mod["syscollector"] EXCEPT !.sync = "checked"])

SysSyncBegin ==
  /\ mod["syscollector"].sync = "checked"
  /\ Set("syscollector", [mod["syscollector"] EXCEPT !.sync = "call"])

\* The ScanGuard of syncModule.
SysSyncNotify ==
  /\ mod["syscollector"].sync = "notify"
  /\ Set("syscollector", [mod["syscollector"] EXCEPT
       !.sync = IF mod["syscollector"].result THEN "recovery" ELSE "idle",
       !.call = Woken(@)])

\* fim_run_integrity wakes up for a flush or at the end of its interval ...
FimSyncWake ==
  /\ mod["fim"].sync = "idle"
  /\ Set("fim", [mod["fim"] EXCEPT !.sync = "checked",
                                   !.detected = (mod["fim"].flush = "running")])

\* ... and then looks whether it is paused.
FimSyncBegin ==
  /\ mod["fim"].sync = "checked"
  /\ Set("fim", IF mod["fim"].paused /\ ~ mod["fim"].detected
                THEN [mod["fim"] EXCEPT !.sync = "idle"]
                ELSE [mod["fim"] EXCEPT !.sync = "call", !.urgent = mod["fim"].paused])

\* Variant: the normal path forgets the flush it has detected.
FimReturnedNoClear(new, ok) ==
  [new EXCEPT
    !.first = new.first \/ ok,
    !.flush = IF new.detected /\ new.urgent THEN IF ok THEN "succeeded" ELSE "failed" ELSE @,
    !.sync = IF ok /\ ~ new.urgent THEN "recovery" ELSE "idle",
    !.detected = FALSE, !.urgent = FALSE]

\* What fim_run_integrity does with the result of asp_sync_module.
FimReturned(new, ok) ==
  [new EXCEPT
    !.first = new.first \/ ok,
    !.flush = IF new.detected THEN IF ok THEN "succeeded" ELSE "failed" ELSE @,
    !.sync = IF ok /\ ~ new.urgent THEN "recovery" ELSE "idle",
    !.detected = FALSE, !.urgent = FALSE]

\* The loop of m has its result.
Returned(m, new, ok) ==
  CASE m = "fim" -> FimReturned(new, ok)
    [] m = "sca" -> [new EXCEPT !.sync = IF ok THEN "recovery" ELSE "resume"]
    [] m = "syscollector" -> [new EXCEPT !.sync = "notify", !.result = ok]

SyncCall(m) ==
  /\ mod[m].sync = "call"
  /\ \/ /\ CallReturnsTrue(m)
        /\ Set(m, Returned(m, mod[m], TRUE))
        /\ Smooth
     \/ /\ ~ CallReturnsTrue(m)
        /\ Set(m, [Opened(m, "sync") EXCEPT !.sync = "session"])
        /\ Smooth
     \/ /\ Mishap("session")  \* m_transport->checkStatus()
        /\ Set(m, Returned(m, mod[m], FALSE))

SyncSession(m) ==
  /\ mod[m].sync = "session"
  /\ \E ok \in BOOLEAN :
       /\ SessionEnds(ok)
       /\ Set(m, Returned(m, Closed(m, ok), ok))

AfterRecovery(m) == IF m = "sca" THEN "resume" ELSE "idle"

\* The integrity check and recovery that follow a success: FIM takes its scan
\* mutexes for it, Syscollector the mutex its scans hold, SCA is paused.
RecoveryBegin(m) ==
  /\ mod[m].sync = "recovery"
  /\ m = "fim" => mod[m].lock = "free"
  /\ m = "syscollector" => mod[m].scan = "idle"
  /\ Set(m, [mod[m] EXCEPT !.sync = "repair", !.lock = IF m = "fim" THEN "sync" ELSE @])

\* Recovery increases the version of every row and sends the whole table.
RecoveryEnd(m) ==
  /\ mod[m].sync = "repair"
  /\ \E needed \in BOOLEAN :
       /\ IF needed THEN Mishap("repair") ELSE Smooth
       /\ Set(m, [mod[m] EXCEPT !.sync = AfterRecovery(m),
                                !.lock = IF m = "fim" THEN "free" ELSE @,
                                !.version = IF needed /\ @ > 0 THEN @ + 1 ELSE @])

-----------------------------------------------------------------------------
(* AsyncFlushController::runFlushInBackground with executeFlushSync *)

WorkerDone(new, ok) ==
  [new EXCEPT !.worker = "none", !.flush = IF ok THEN "succeeded" ELSE "failed"]

WorkerCall(m) ==
  /\ mod[m].worker = "call"
  /\ \/ /\ CallReturnsTrue(m)
        /\ Set(m, WorkerDone(mod[m], TRUE))
        /\ joined' = IF mod[m].open = "none" THEN joined ELSE joined \cup {m}
        /\ Smooth
     \/ /\ ~ CallReturnsTrue(m)
        /\ Set(m, [Opened(m, "worker") EXCEPT !.worker = "session"])
        /\ Smooth
        /\ UNCHANGED joined
     \/ /\ Mishap("session")
        /\ Set(m, WorkerDone(mod[m], FALSE))
        /\ UNCHANGED joined

WorkerSession(m) ==
  /\ mod[m].worker = "session"
  /\ \E ok \in BOOLEAN :
       /\ SessionEnds(ok)
       /\ Set(m, WorkerDone(Closed(m, ok), ok))

-----------------------------------------------------------------------------
(* The loop of agent_info *)

\* The module whose turn it is: every phase goes through them in this order.
Turn == CASE "fim" \in todo -> "fim"
          [] "fim" \notin todo /\ "sca" \in todo -> "sca"
          [] OTHER -> "syscollector"

Rest == todo \ {Turn}

Changes == meta["metadata"] + meta["groups"]

\* updateChanges commits the tables that have changed.
Populate(ts) ==
  /\ step = "sleep"
  /\ Changes + Cardinality(ts) <= MaxChanges
  /\ meta' = [t \in Tables |-> IF t \in ts THEN meta[t] + 1 ELSE meta[t]]
  /\ changed' = ts
  /\ step' = "flag"
  /\ UNCHANGED <<enabled, mod, table, coordination, flag, firstRun, known, mishaps>>

\* setSyncFlag, for metadata before groups, writes db_metadata.
SetFlag ==
  /\ step = "flag"
  /\ IF changed = {} THEN /\ step' = "decide"
                          /\ UNCHANGED <<flag, changed>>
     ELSE LET t == IF "metadata" \in changed THEN "metadata" ELSE "groups"
          IN /\ flag' = [flag EXCEPT ![t] = TRUE]
             /\ changed' = changed \ {t}
             /\ UNCHANGED step
  /\ UNCHANGED <<enabled, mod, table, coordination, firstRun, meta, known, mishaps>>

After(t) == IF t = "metadata" THEN "groups" ELSE "integrity"

NoCoordination ==
  /\ todo' = {}
  /\ paused' = {}
  /\ newVersion' = 0
  /\ outcome' = "none"
  /\ owed' = [m \in Modules |-> 0]
  /\ joined' = {}

\* resetSyncFlag, and on to the next table.
Reset ==
  /\ flag' = [flag EXCEPT ![table] = FALSE]
  /\ firstRun' = [firstRun EXCEPT ![table] = FALSE]
  /\ step' = "decide"
  /\ table' = After(table)

SkipTable ==
  /\ step = "decide"
  /\ table \in Tables
  /\ ~ flag[table]
  /\ table' = After(table)
  /\ UNCHANGED <<enabled, mod, step, changed, coordination, stored, known, mishaps>>

FirstRun ==
  /\ step = "decide"
  /\ table \in Tables
  /\ flag[table]
  /\ firstRun[table]
  /\ Reset
  /\ UNCHANGED <<enabled, mod, changed, coordination, meta, known, mishaps>>

\* performIntegritySync for the tables in ts: not flagged, their interval
\* elapsed, and the session a success.
Integrity(ts) ==
  /\ step = "decide"
  /\ table = "integrity"
  /\ \A t \in ts : ~ flag[t]
  /\ known' = [t \in Tables |-> IF t \in ts THEN meta[t] ELSE known[t]]
  /\ step' = "sleep"
  /\ table' = "metadata"
  /\ UNCHANGED <<enabled, mod, changed, coordination, stored, mishaps>>

-----------------------------------------------------------------------------
(* coordinateModules *)

\* Variant: FIM is resumed whether or not it takes part.
ResumeFimToo(ms, res) ==
  /\ step' = "resume"
  /\ paused' = ms \cup {"fim"}
  /\ todo' = ms \cup {"fim"}
  /\ outcome' = res
  /\ UNCHANGED newVersion

\* resumePausedModules, on the way to the outcome res.
ResumeAll(ms, res) ==
  /\ step' = "resume"
  /\ paused' = ms
  /\ todo' = ms
  /\ outcome' = res
  /\ UNCHANGED newVersion

\* The query of the module whose turn it is succeeds with its effect, and the
\* phase goes on; or it fails, whether or not the module has acted on it: any
\* query to FIM, and of the others those for a version.
Ask(new) ==
  /\ Smooth
  /\ mod' = [mod EXCEPT ![Turn] = new]

AskFails(new) ==
  /\ IF Turn = "fim" THEN Mishap(IF step = "resume" THEN "resume" ELSE "ipc")
                     ELSE step \in {"get", "set"} /\ Mishap("version")
  /\ mod' \in {mod, [mod EXCEPT ![Turn] = new]}

OutsideCoordination == UNCHANGED <<enabled, table, changed, stored, known>>

\* A step of the coordination that is not about a flush.
NotFlushing == OutsideCoordination /\ UNCHANGED ghosts

Coordinate ==
  /\ step = "decide"
  /\ table \in Tables
  /\ flag[table]
  /\ ~ firstRun[table]
  /\ step' = "pause"
  /\ todo' = Modules
  /\ UNCHANGED <<mod, paused, newVersion, outcome, mishaps>>
  /\ NotFlushing

\* fim_execute_pause; SecurityConfigurationAssessment::pause and
\* Syscollector::pause raise m_paused and then wait.
Pausing(m) ==
  CASE m = "fim" -> IF mod[m].paused THEN mod[m]
                    ELSE [mod[m] EXCEPT !.paused = TRUE, !.allowed = FALSE]
    [] m = "sca" -> [mod[m] EXCEPT !.paused = TRUE]
    [] m = "syscollector" -> [mod[m] EXCEPT !.paused = TRUE, !.call = "test"]

PauseUnavailable ==
  /\ step = "pause"
  /\ todo # {}
  /\ Turn \notin enabled
  /\ todo' = Rest
  /\ UNCHANGED <<mod, step, paused, newVersion, outcome, mishaps>>
  /\ NotFlushing

PauseModule ==
  /\ step = "pause"
  /\ todo # {}
  /\ Turn \in enabled
  /\ \/ /\ Ask(Pausing(Turn))
        /\ step' = IF Turn = "fim" THEN "fimpoll" ELSE "pausing"
        /\ UNCHANGED <<todo, paused, newVersion, outcome>>
     \/ /\ AskFails(Pausing(Turn))
        /\ ResumeAll(paused, "failed")
  /\ NotFlushing

\* Variant: the pause is granted during a scan or a recovery.
AcknowledgedUnlocked ==
  IF mod["fim"].paused /\ ~ mod["fim"].allowed
  THEN [mod["fim"] EXCEPT !.allowed = TRUE] ELSE mod["fim"]

\* fim_execute_is_pause_completed tries the scan mutexes.
Acknowledged ==
  IF mod["fim"].paused /\ ~ mod["fim"].allowed /\ mod["fim"].lock = "free"
  THEN [mod["fim"] EXCEPT !.allowed = TRUE, !.lock = "coordinator"]
  ELSE mod["fim"]

PauseCompleted(new) == new.allowed \/ ~ new.paused

PauseAgreed(m) ==
  /\ step' = "pause"
  /\ paused' = paused \cup {m}
  /\ todo' = Rest
  /\ UNCHANGED <<newVersion, outcome>>

\* Asked again, or given up: the attempts are not counted, using them up is a
\* fault of its own.
PollAgain ==
  \/ /\ Smooth
     /\ UNCHANGED <<step, todo, paused, newVersion, outcome>>
  \/ /\ Mishap("slow")
     /\ ResumeAll(paused \cup {"fim"}, "failed")

\* pollFimPauseCompletion: deferred until FIM has done its first
\* synchronisation, completed, or to be asked again.
PollFimPause ==
  /\ step = "fimpoll"
  /\ \/ /\ Set("fim", Acknowledged)
        /\ \/ /\ ~ mod["fim"].first
              /\ Smooth
              /\ ResumeAll(paused \cup {"fim"}, "failed")
           \/ /\ mod["fim"].first
              /\ PauseCompleted(Acknowledged)
              /\ Smooth
              /\ PauseAgreed("fim")
           \/ /\ mod["fim"].first
              /\ ~ PauseCompleted(Acknowledged)
              /\ PollAgain
     \/ /\ AskFails(Acknowledged)
        /\ \/ UNCHANGED <<step, todo, paused, newVersion, outcome>>
           \/ ResumeAll(paused \cup {"fim"}, "failed")
  /\ NotFlushing

\* SCA waits for its flags with the mutex their writers hold.
ScaPaused ==
  /\ step = "pausing"
  /\ Turn = "sca"
  /\ Quiet("sca")
  /\ PauseAgreed("sca")
  /\ UNCHANGED <<mod, mishaps>>
  /\ NotFlushing

\* Syscollector evaluates the predicate ...
SysPauseTest ==
  /\ step = "pausing"
  /\ mod["syscollector"].call = "test"
  /\ IF Quiet("syscollector")
     THEN /\ Set("syscollector", [mod["syscollector"] EXCEPT !.call = "none"])
          /\ PauseAgreed("syscollector")
     ELSE /\ Set("syscollector", [mod["syscollector"] EXCEPT !.call = "doze"])
          /\ UNCHANGED <<step, todo, paused, newVersion, outcome>>
  /\ UNCHANGED mishaps
  /\ NotFlushing

\* ... and goes to sleep after that, in a step of its own: the threads that
\* clear the flags and notify hold no mutex.
SysPauseSleep ==
  /\ step = "pausing"
  /\ mod["syscollector"].call = "doze"
  /\ Set("syscollector", [mod["syscollector"] EXCEPT !.call = "asleep"])
  /\ UNCHANGED <<step, todo, paused, newVersion, outcome, mishaps>>
  /\ NotFlushing

\* All modules asked.  With none available the coordination is a success.
AllPaused ==
  /\ step = "pause"
  /\ todo = {}
  /\ IF paused = {} THEN step' = "reset" /\ UNCHANGED todo
                    ELSE step' = "get" /\ todo' = paused
  /\ UNCHANGED <<mod, paused, newVersion, outcome, mishaps>>
  /\ NotFlushing

Max2(a, b) == IF a < b THEN b ELSE a

Increment == IF table = "metadata" THEN 1 ELSE 0

\* calculateNewVersion, first loop.
GetVersion ==
  /\ step = "get"
  /\ \/ /\ Ask(mod[Turn])
        /\ IF Rest = {}
           THEN /\ newVersion' = Max2(newVersion, mod[Turn].version) + Increment
                /\ step' = "set"
                /\ todo' = paused
           ELSE /\ newVersion' = Max2(newVersion, mod[Turn].version)
                /\ todo' = Rest
                /\ UNCHANGED step
        /\ UNCHANGED <<paused, outcome>>
     \/ /\ AskFails(mod[Turn])
        /\ ResumeAll(paused, "failed")
  /\ NotFlushing

\* The phase goes on with its next module, or with the next phase.
Proceed(next) ==
  /\ IF Rest = {} THEN step' = next /\ todo' = paused
                  ELSE todo' = Rest /\ UNCHANGED step
  /\ UNCHANGED <<paused, newVersion, outcome>>

\* Every row of the table has the new version; there may be none.
Versioned(m) == [mod[m] EXCEPT !.version = IF @ = 0 THEN 0 ELSE newVersion]

\* calculateNewVersion, second loop.
SetVersion ==
  /\ step = "set"
  /\ \/ Ask(Versioned(Turn)) /\ Proceed("flush")
     \/ AskFails(Versioned(Turn)) /\ ResumeAll(paused, "failed")
  /\ NotFlushing

\* fim_execute_flush and AsyncFlushController::startFlush: a flush that is
\* still running is left to answer for this one too.
FlushRequested(m) ==
  [mod[m] EXCEPT
    !.flush = "running",
    !.worker = IF m # "fim" /\ mod[m].flush # "running" THEN "call" ELSE @]

TriggerFlush ==
  /\ step = "flush"
  /\ \/ /\ Ask(FlushRequested(Turn))
        /\ IF Rest = {} THEN ResumeAll(paused, "flushed")
                        ELSE Proceed("flush")
     \/ AskFails(FlushRequested(Turn)) /\ ResumeAll(paused, "failed")
  /\ owed' = [owed EXCEPT ![Turn] = mod[Turn].rows]
  /\ joined' = IF mod[Turn].flush = "running" THEN joined \cup {Turn} ELSE joined
  /\ OutsideCoordination

\* fim_execute_resume releases the mutexes only if it holds them.
Resumed(m) ==
  IF m = "fim" /\ mod[m].allowed
  THEN [mod[m] EXCEPT !.paused = FALSE, !.allowed = FALSE, !.lock = "free"]
  ELSE [mod[m] EXCEPT !.paused = FALSE]

\* A module that cannot be resumed is only logged.
ResumeModule ==
  /\ step = "resume"
  /\ todo # {}
  /\ \/ Ask(Resumed(Turn))
     \/ AskFails(Resumed(Turn))
  /\ todo' = Rest
  /\ UNCHANGED <<step, paused, newVersion, outcome>>
  /\ NotFlushing

AllResumed ==
  /\ step = "resume"
  /\ todo = {}
  /\ IF outcome = "flushed"
     THEN /\ step' = "poll"
          /\ todo' = paused
          /\ UNCHANGED <<table, paused, newVersion, outcome, ghosts>>
     ELSE /\ step' = "decide"
          /\ table' = After(table)
          /\ NoCoordination
  /\ UNCHANGED <<enabled, mod, changed, stored, known, mishaps>>

\* Variant: a flush that has failed counts as done.
PollFlushDone(m) ==
  /\ step = "poll"
  /\ m \in todo
  /\ mod[m].flush # "running"
  /\ todo' = todo \ {m}
  /\ UNCHANGED <<mod, step, paused, newVersion, outcome, mishaps>>
  /\ NotFlushing

\* pollFlushCompletion: a module whose flush has an end is not asked again.
PollFlush(m) ==
  /\ step = "poll"
  /\ m \in todo
  /\ mod[m].flush # "running"
  /\ outcome' = IF mod[m].flush = "failed" THEN "failed" ELSE outcome
  /\ todo' = todo \ {m}
  /\ UNCHANGED <<mod, step, paused, newVersion, mishaps>>
  /\ NotFlushing

AllFlushed ==
  /\ step = "poll"
  /\ todo = {}
  /\ IF outcome = "flushed"
     THEN /\ step' = "session"
          /\ UNCHANGED <<table, coordination>>
     ELSE /\ step' = "decide"
          /\ table' = After(table)
          /\ NoCoordination
  /\ UNCHANGED <<enabled, mod, changed, stored, known, mishaps>>

\* synchronizeMetadataOrGroups.
MetadataSession ==
  /\ step = "session"
  /\ \/ /\ Smooth
        /\ known' = [known EXCEPT ![table] = meta[table]]
        /\ step' = "reset"
        /\ UNCHANGED <<table, coordination>>
     \/ /\ Mishap("session")
        /\ step' = "decide"
        /\ table' = After(table)
        /\ NoCoordination
        /\ UNCHANGED known
  /\ UNCHANGED <<enabled, mod, changed, stored>>

\* performDeltaSync after a success.
ResetFlag ==
  /\ step = "reset"
  /\ Reset
  /\ NoCoordination
  /\ UNCHANGED <<enabled, mod, changed, meta, known, mishaps>>

-----------------------------------------------------------------------------
\* The process of agent_info, SCA and Syscollector starts again; FIM goes on.
Restart ==
  /\ Mishap("restart")
  /\ mod' = [m \in Modules |->
       IF m = "fim" THEN mod[m]
       ELSE [NewModule EXCEPT !.rows = mod[m].rows, !.sent = mod[m].sent,
                              !.version = mod[m].version]]
  /\ step' = "sleep"
  /\ table' = "metadata"
  /\ changed' = {}
  /\ NoCoordination
  /\ UNCHANGED <<enabled, stored, known>>

AgentInfoStep ==
  \/ \E ts \in SUBSET Tables : Populate(ts) \/ Integrity(ts)
  \/ SetFlag \/ SkipTable \/ FirstRun \/ Coordinate
  \/ PauseUnavailable \/ PauseModule \/ PollFimPause
  \/ ScaPaused \/ SysPauseTest \/ SysPauseSleep \/ AllPaused
  \/ GetVersion \/ SetVersion \/ TriggerFlush \/ ResumeModule \/ AllResumed
  \/ \E m \in enabled : PollFlush(m)
  \/ AllFlushed \/ MetadataSession \/ ResetFlag

SyncLoop(m) ==
  \/ /\ \/ m = "sca" /\ (ScaSyncPause \/ ScaSyncBegin \/ ScaSyncResume)
        \/ m = "syscollector" /\ (SysSyncCheck \/ SysSyncBegin \/ SysSyncNotify)
        \/ m = "fim" /\ (FimSyncWake \/ FimSyncBegin)
        \/ RecoveryBegin(m)
     /\ Smooth
  \/ SyncCall(m) \/ SyncSession(m) \/ RecoveryEnd(m)

\* A step of a thread of m.
OfModule(m) ==
  /\ m \in enabled
  /\ UNCHANGED <<enabled, loop, todo, paused, newVersion, outcome, owed, stored, known>>

ScanThread(m) == OfModule(m) /\ ScanStep(m) /\ Smooth /\ UNCHANGED joined

EventThread(m) == OfModule(m) /\ FimEvent(m) /\ Smooth /\ UNCHANGED joined

SyncThread(m) == OfModule(m) /\ SyncLoop(m) /\ UNCHANGED joined

FlushWorker(m) ==
  /\ OfModule(m)
  /\ \/ WorkerCall(m)
     \/ WorkerSession(m) /\ UNCHANGED joined

ModuleStep(m) == ScanThread(m) \/ EventThread(m) \/ SyncThread(m) \/ FlushWorker(m)

Next == AgentInfoStep \/ (\E m \in Modules : ModuleStep(m)) \/ Restart

Spec == Init /\ [][Next]_vars

\* What the loop of m waits for comes: SCA's quiet moment, the scan mutexes for
\* FIM's recovery, a moment without a pause.
Unhindered(m) ==
  \/ mod[m].sync \in {"pausing", "recovery"}
  \/ mod'[m].sync = "checked" /\ ~ mod[m].paused

Agreed == (PollFimPause /\ step' = "pause") \/ ScaPaused

Running == UNION Setups

\* Every thread keeps running, and a scan ends.  The loops sleep between their
\* cycles, so what becomes possible again and again for a thread that waits
\* happens; FIM's loop does not always lose its race with the pause; the
\* intervals of the integrity checks elapse.
Fairness ==
  /\ WF_vars(AgentInfoStep)
  /\ SF_vars(Agreed)
  /\ SF_vars(Integrity({t \in Tables : ~ flag[t]}))
  /\ SF_vars(\E m \in Running : SyncThread(m) /\ Unhindered(m))
  /\ \A m \in Running :
       /\ WF_vars(ScanThread(m) /\ mod[m].scan # "idle" /\ mod'[m].scan # mod[m].scan)
       /\ WF_vars(SyncThread(m))
       /\ WF_vars(FlushWorker(m))
  /\ \A m \in Running \cap {"fim"} : SF_vars(SyncThread(m) /\ mod'[m].sync = "call")

LiveSpec == Spec /\ Fairness

-----------------------------------------------------------------------------
(* Safety *)

\* FlushCovers: when the coordinator opens the session that hands the new
\* version to the manager, every module it coordinated has delivered all the
\* differences that were pending when its flush was requested; unless the
\* flush was answered on the strength of a session or a flush already running.
FlushCovers ==
  step = "session" =>
    \A m \in paused : mod[m].sent >= owed[m] \/ m \in joined

\* FlushDelivers: the same without the exception, as coordinateModules says.
FlushDelivers ==
  step = "session" => \A m \in paused : mod[m].sent >= owed[m]

\* FimVersionGrows: set_version never takes FIM's table back behind a version
\* that a scan or a recovery has given out since the coordinator read it: the
\* mutexes stay with the coordinator from is_pause_completed to resume, and
\* what a scan does outside them raises no version.  It takes that FIM
\* monitors nothing in real time: an event is applied without the mutexes.
FimVersionGrows == [][SetVersion => mod'["fim"].version >= mod["fim"].version]_vars

-----------------------------------------------------------------------------
(* Liveness *)

\* PauseEnds: no module stays paused for ever, whatever fails on the way.
PauseEnds == \A m \in Running : mod[m].paused ~> ~ mod[m].paused

\* MetadataArrives: the manager is eventually told of every change, also of
\* one whose flag was lost in a restart.
MetadataArrives == <>[](known = meta)

\* RowsDelivered: neither pauses nor flushes keep a module's own loop from
\* delivering its differences in the end.
RowsDelivered == <>[](\A m \in enabled : mod[m].sent = mod[m].rows)
==============================================================================
