----------------------- MODULE ModuleCoordinationProofs -----------------------
(***************************************************************************)
(* The inductive invariant of the coordination, and the proof that every   *)
(* step preserves it.                                                      *)
(*                                                                         *)
(* A step of a module's own thread (the scan, the sync loop, the flush     *)
(* worker) changes the record of one module (Local), so it is enough to    *)
(* look at the conjuncts about that module.  The mutexes are FIM's, so     *)
(* they are looked at for FIM only (Good).                                 *)
(*                                                                         *)
(* A query of agent_info's thread leaves the sessions of the module it     *)
(* asks alone (Untouched), so what is owed stays owed and stays covered;   *)
(* what needs an argument is who holds FIM's mutexes afterwards.  The      *)
(* theorems follow: a flush answered with success has delivered what the   *)
(* module had queued, and set_version does not take FIM's version back     *)
(* unless FIM applies real-time or who-data events.                        *)
(***************************************************************************)
EXTENDS ModuleCoordination, FiniteSetTheorems, TLAPS

\* Where the coordinator is, and what it is about there.
Phases ==
  /\ step \in {"sleep", "flag", "decide"} => paused = {} /\ outcome = "none"
  /\ step \in {"pause", "pausing", "fimpoll", "get", "set", "flush"} => outcome = "none"
  /\ step \in {"get", "set", "flush"} => todo # {} /\ todo \subseteq paused
  /\ step \in {"resume", "poll"} => todo \subseteq paused
  /\ step = "poll" => outcome # "none"
  /\ step = "session" => outcome = "flushed" /\ todo = {}
  /\ step = "fimpoll" => "fim" \in enabled /\ mod["fim"].paused
  /\ step = "pausing" => Turn \in enabled
  /\ mod["syscollector"].call # "none" => "syscollector" \in enabled
  /\ Changes <= MaxChanges

\* FIM's scan mutexes have the holder that lock names.
Mutexes ==
  /\ mod["fim"].allowed <=> mod["fim"].lock = "coordinator"
  /\ mod["fim"].allowed => mod["fim"].paused
  /\ mod["fim"].scan \in {"idle", "running"}
  /\ mod["fim"].scan = "running" => mod["fim"].lock = "scan"
  /\ mod["fim"].sync = "repair" => mod["fim"].lock = "sync"

\* The coordinator keeps them between is_pause_completed and resume, and
\* without events nobody raises FIM's version meanwhile.
Held ==
  step \in {"pause", "pausing", "get", "set", "flush"} /\ "fim" \in paused =>
    /\ mod["fim"].allowed
    /\ (step = "get" /\ "fim" \notin todo) \/ step = "set" =>
         "events" \in Faults \/ mod["fim"].version <= newVersion

\* m_syncInProgress belongs to the thread whose session is open.
Sessions(m) ==
  /\ mod[m].sent <= mod[m].rows
  /\ mod[m].open = "sync" <=> mod[m].sync = "session"
  /\ mod[m].open = "worker" <=> mod[m].worker = "session"
  /\ mod[m].open # "none" => mod[m].sent <= mod[m].batch /\ mod[m].batch <= mod[m].rows

\* A flush runs while somebody is at it: the worker, or FIM's loop, which
\* answers for it when it has detected it.
Flushes(m) ==
  /\ m # "fim" => (mod[m].flush = "running" <=> mod[m].worker # "none")
  /\ m = "fim" => mod[m].worker = "none"
  /\ mod[m].detected => m = "fim" /\ mod[m].flush = "running"

\* The session that will answer the flush of m.
Answers(m) ==
  \/ mod[m].worker = "session"
  \/ m = "fim" /\ mod[m].detected /\ mod[m].sync = "session"

\* m has been asked to flush by this coordination.
Asked(m) ==
  /\ m \in paused
  /\ \/ step = "flush" /\ m \notin todo
     \/ outcome = "flushed"

\* What is owed is in the session that will answer, and delivered once a
\* success has been answered.
Owed(m) ==
  Asked(m) /\ m \notin joined =>
    /\ owed[m] <= mod[m].rows
    /\ Answers(m) => owed[m] <= mod[m].batch
    /\ mod[m].flush = "succeeded" => owed[m] <= mod[m].sent
    /\ outcome = "flushed" /\ step \in {"poll", "session"} /\ m \notin todo => owed[m] <= mod[m].sent

\* The inductive invariant.
IInv ==
  /\ TypeOK
  /\ Phases
  /\ Mutexes
  /\ Held
  /\ \A m \in Modules : Sessions(m) /\ Flushes(m) /\ Owed(m)

-----------------------------------------------------------------------------
\* A module whose threads are idle, and a coordinator that is asleep.
LEMMA InitInv == Init => IInv
<1>. SUFFICES ASSUME Init PROVE IInv
  BY Zenon
<1>1. NewModule \in Module
  BY CoordinationAssumption DEF NewModule, Module
<1>2. PICK first \in BOOLEAN :
        mod = [m \in Modules |-> [NewModule EXCEPT !.first = m = "fim" => first]]
  BY Zenon DEF Init
<1>3. \A m \in Modules : mod[m] = [NewModule EXCEPT !.first = m = "fim" => first]
  BY <1>2, Zenon
<1>4. TypeOK
  <2>1. \A r \in Module, b \in BOOLEAN : [r EXCEPT !.first = b] \in Module
    BY ZenonT(30) DEF Module
  <2>2. \A m \in Modules : mod[m] \in Module
    BY <1>1, <1>3, <2>1, Zenon
  <2>3. mod \in [Modules -> Module]
    BY <1>2, <2>2, Zenon
  <2>4. firstRun \in [Tables -> BOOLEAN]
    BY Zenon DEF Init
  <2>. QED  BY <2>3, <2>4, CoordinationAssumption DEF Init, TypeOK, Tables
<1>5. Phases /\ Mutexes /\ Held
  BY <1>3, CoordinationAssumption
     DEF Init, Phases, Mutexes, Held, NewModule, Modules, Changes, Tables
<1>6. \A m \in Modules : Sessions(m) /\ Flushes(m) /\ Owed(m)
  BY <1>3 DEF Init, Sessions, Flushes, Owed, Asked, NewModule, Modules
<1>. QED  BY <1>4, <1>5, <1>6, Zenon DEF IInv

-----------------------------------------------------------------------------
(* Steps of a module *)

\* What no step of a module changes.
LEMMA ModuleFrame ==
  ASSUME TypeOK, NEW m \in Modules, OfModule(m),
         mod' = [mod EXCEPT ![m] = mod'[m]], mod'[m] \in Module,
         mishaps' \in 0..MaxMishaps, joined' \subseteq enabled
  PROVE  /\ TypeOK'
         /\ \A k \in Modules \ {m} : mod'[k] = mod[k]
         /\ <<enabled, step, table, todo, paused, newVersion, outcome, owed, flag, meta>>'
              = <<enabled, step, table, todo, paused, newVersion, outcome, owed, flag, meta>>
<1>1. mod' \in [Modules -> Module]
  BY Zenon DEF TypeOK
<1>2. TypeOK'
  BY <1>1, Zenon DEF TypeOK, OfModule, loop, stored
<1>. QED  BY <1>2, Zenon DEF TypeOK, OfModule, loop, stored

\* What a step of one of its threads may do to a module.
Local(m) ==
  /\ mod' = [mod EXCEPT ![m] = mod'[m]]
  /\ mod'[m] \in Module
  /\ mod'[m].allowed = mod[m].allowed
  /\ m = "fim" => /\ mod'[m].paused = mod[m].paused
                  /\ \/ mod'[m].version = mod[m].version
                     \/ "events" \in Faults
                     \/ ~ mod[m].allowed
                     \/ mod'[m].version <= mod[m].version
  /\ mod'[m].call # "none" => mod[m].call # "none"
  /\ mod[m].rows <= mod'[m].rows
  /\ mod[m].sent <= mod'[m].sent
  /\ Answers(m)' => \/ mod'[m].batch = mod'[m].rows
                    \/ Answers(m) /\ mod'[m].batch = mod[m].batch
  /\ mod'[m].flush = "succeeded" => \/ mod[m].flush = "succeeded"
                                    \/ m \in joined'
                                    \/ mod'[m].sent = mod'[m].rows
                                    \/ Answers(m) /\ mod'[m].sent = mod[m].batch

\* A step of module m that is Local preserves the invariant: nobody else
\* reads what it writes, and what the module owes is still covered.
LEMMA LocalInv ==
  ASSUME IInv, NEW m \in Modules, OfModule(m), Local(m), mishaps' \in 0..MaxMishaps,
         joined \subseteq joined', joined' \subseteq joined \cup {m},
         m = "fim" => Mutexes', Sessions(m)', Flushes(m)'
  PROVE  IInv'
<1>0. mod \in [Modules -> Module] /\ joined' \subseteq enabled
  BY Zenon DEF IInv, TypeOK, OfModule
<1>1. /\ TypeOK'
      /\ \A k \in Modules \ {m} : mod'[k] = mod[k]
      /\ <<enabled, step, table, todo, paused, newVersion, outcome, owed, flag, meta>>'
           = <<enabled, step, table, todo, paused, newVersion, outcome, owed, flag, meta>>
  BY <1>0, ModuleFrame, Zenon DEF IInv, Local
<1>2. Phases'
  <2>1. mod'["syscollector"].call # "none" => mod["syscollector"].call # "none"
    BY <1>1, Zenon DEF Local, Modules
  <2>2. mod'["fim"].paused = mod["fim"].paused
    BY <1>1, Zenon DEF Local, Modules
  <2>. QED  BY <1>1, <2>1, <2>2, Zenon DEF IInv, Phases, Turn, Changes
<1>3. Mutexes'
  BY <1>1 DEF IInv, Mutexes, Modules
<1>4. Held'
  <2>1. mod'["fim"].allowed = mod["fim"].allowed
    BY <1>1, Zenon DEF Local, Modules
  <2>2. \/ mod'["fim"].version = mod["fim"].version
        \/ "events" \in Faults
        \/ ~ mod["fim"].allowed
        \/ mod'["fim"].version <= mod["fim"].version
    BY <1>1, Zenon DEF Local, Modules
  <2>3. mod["fim"].version \in Nat /\ mod'["fim"].version \in Nat /\ newVersion \in Nat
    BY <1>0, <1>1, ZenonT(30) DEF IInv, TypeOK, Modules, Module
  <2>4. mod["fim"].version <= newVersion /\ mod["fim"].allowed =>
          "events" \in Faults \/ mod'["fim"].version <= newVersion
    BY <2>2, <2>3
  <2>. QED  BY <1>1, <2>1, <2>4, Zenon DEF IInv, Held
<1>5. \A k \in Modules : Sessions(k)' /\ Flushes(k)'
  <2>. SUFFICES ASSUME NEW k \in Modules, k # m PROVE Sessions(k)' /\ Flushes(k)'
    BY Zenon
  <2>. QED  BY <1>1, ZenonT(30) DEF IInv, Sessions, Flushes
<1>6. \A k \in Modules : Owed(k)'
  <2>. SUFFICES ASSUME NEW k \in Modules PROVE Owed(k)'
    BY Zenon
  <2>1. CASE k # m
    BY <1>0, <1>1, <2>1, Zenon DEF IInv, Owed, Asked, Answers
  <2>2. CASE k = m
    <3>1. Asked(m)' <=> Asked(m)
      BY <1>1, Zenon DEF Asked
    <3>2. SUFFICES ASSUME Asked(m), m \notin joined'
                   PROVE  /\ owed[m] <= mod'[m].rows
                          /\ Answers(m)' => owed[m] <= mod'[m].batch
                          /\ mod'[m].flush = "succeeded" => owed[m] <= mod'[m].sent
                          /\ outcome = "flushed" /\ step \in {"poll", "session"} /\ m \notin todo
                               => owed[m] <= mod'[m].sent
      BY <1>1, <2>2, <3>1, Zenon DEF Owed
    <3>3. /\ owed[m] <= mod[m].rows
          /\ Answers(m) => owed[m] <= mod[m].batch
          /\ mod[m].flush = "succeeded" => owed[m] <= mod[m].sent
          /\ outcome = "flushed" /\ step \in {"poll", "session"} /\ m \notin todo
               => owed[m] <= mod[m].sent
      BY <3>2, Zenon DEF IInv, Owed
    <3>4. /\ owed[m] \in Nat
          /\ mod[m].rows \in Nat /\ mod[m].batch \in Nat /\ mod[m].sent \in Nat
          /\ mod'[m].rows \in Nat /\ mod'[m].batch \in Nat /\ mod'[m].sent \in Nat
      BY <1>0 DEF IInv, TypeOK, Local, Module
    <3>. QED  BY <3>2, <3>3, <3>4 DEF Local
  <2>. QED  BY <2>1, <2>2, Zenon
<1>. QED  BY <1>1, <1>2, <1>3, <1>4, <1>5, <1>6, Zenon DEF IInv

\* What the lemmas below show of each step, for LocalInv.
Good(m) == Local(m) /\ Sessions(m)' /\ Flushes(m)' /\ (m = "fim" => Mutexes')

\* A difference, from whatever writes the table.
LEMMA DifferenceGood ==
  ASSUME IInv, NEW m \in Modules, NEW v \in 0..(mod[m].version + 1), Difference(m, v),
         m = "fim" => \/ "events" \in Faults
                      \/ ~ mod[m].allowed
                      \/ v <= mod[m].version
  PROVE  Good(m)
<1>0. /\ mod[m] \in Module /\ mod \in [Modules -> Module]
      /\ Sessions(m) /\ Flushes(m) /\ Mutexes
  BY Zenon DEF IInv, TypeOK
<1>1. mod' = [mod EXCEPT ![m] = [mod[m] EXCEPT !.rows = @ + 1, !.version = v]]
  BY Zenon DEF Difference, Set
<1>2. mod[m].rows + 1 \in 0..MaxRows /\ v \in Nat
  BY <1>0, CoordinationAssumption DEF Difference, Module
<1>3. mod' = [mod EXCEPT ![m] = mod'[m]] /\ mod'[m] \in Module
  BY ZenonT(30), <1>0, <1>1, <1>2 DEF Module
<1>4. Local(m) /\ Sessions(m)' /\ Flushes(m)'
  BY <1>0, <1>1, <1>2, <1>3 DEF Local, Answers, Module, Sessions, Flushes
<1>5. m = "fim" => Mutexes'
  BY <1>0, <1>1 DEF Module, Mutexes
<1>. QED  BY <1>4, <1>5, Zenon DEF Good

\* Module::scan of the three modules: it may begin only when it is not paused.
LEMMA ScanGood ==
  ASSUME IInv, NEW m \in Modules, ScanThread(m)
  PROVE  Good(m)
<1>0. /\ mod[m] \in Module /\ mod \in [Modules -> Module]
      /\ Sessions(m) /\ Flushes(m) /\ Mutexes
  BY Zenon DEF IInv, TypeOK
<1>1. Local(m) /\ Sessions(m)' /\ Flushes(m)' /\ (m = "fim" => Mutexes')
  <2>1. CASE ScanStart(m) /\ m = "fim"
    <3>1. mod' = [mod EXCEPT ![m] = [mod[m] EXCEPT !.scan = "running", !.lock = "scan"]]
      BY <2>1, Zenon DEF ScanStart, Set
    <3>2. mod' = [mod EXCEPT ![m] = mod'[m]] /\ mod'[m] \in Module
      BY ZenonT(30), <1>0, <3>1 DEF Module
    <3>3. Local(m) /\ Sessions(m)' /\ Flushes(m)'
      BY <1>0, <3>1, <3>2 DEF Local, Answers, Module, Sessions, Flushes
    <3>4. Mutexes'
      BY <1>0, <2>1, <3>1, ZenonT(30) DEF ScanStart, Module, Mutexes
    <3>. QED  BY <3>3, <3>4, Zenon
  <2>2. CASE ScanStart(m) /\ m # "fim"
    <3>1. mod' = [mod EXCEPT ![m] = [mod[m] EXCEPT !.scan = "checked"]]
      BY <2>2, Zenon DEF ScanStart, Set
    <3>. QED  BY <1>0, <2>2, <3>1 DEF Local, Answers, Module, Sessions, Flushes
  <2>3. CASE ScanBegin(m)
    BY <1>0, <2>3 DEF ScanBegin, Set, Local, Answers, Module, Sessions, Flushes, Mutexes
  <2>4. CASE ScanRow(m)
    <3>1. m = "fim" => ~ mod[m].allowed
      BY <1>0, <2>4, Zenon DEF ScanRow, Mutexes
    <3>. QED  BY <1>0, <2>4, <3>1, DifferenceGood, Zenon DEF ScanRow, Good, IInv
  <2>5. CASE ScanEnd(m)
    <3>1. mod' = [mod EXCEPT ![m] = mod'[m]] /\ mod'[m] \in Module
      BY ZenonT(30), <1>0, <2>5 DEF ScanEnd, Set, Module
    <3>2. Local(m) /\ Sessions(m)' /\ Flushes(m)'
      BY <1>0, <2>5, <3>1 DEF ScanEnd, Set, Local, Answers, Module, Sessions, Flushes
    <3>3. m = "fim" => Mutexes'
      BY <1>0, <2>5 DEF ScanEnd, Set, Module, Mutexes
    <3>. QED  BY <3>2, <3>3, Zenon
  <2>6. CASE ScanNotify(m)
    <3>1. mod' = [mod EXCEPT ![m] = mod'[m]] /\ mod'[m] \in Module
      BY ZenonT(30), <1>0, <2>6 DEF ScanNotify, Set, Module, Woken
    <3>2. Local(m) /\ Sessions(m)' /\ Flushes(m)'
      BY <1>0, <2>6, <3>1 DEF ScanNotify, Set, Woken, Local, Answers, Module, Sessions, Flushes
    <3>3. m = "fim" => Mutexes'
      BY <1>0, <2>6, Zenon DEF ScanNotify, Mutexes
    <3>. QED  BY <3>2, <3>3, Zenon
  <2>7. CASE FimScanOutside(m)
    <3>1. PICK v \in 0..mod[m].version : Difference(m, v)
      BY <2>7, Zenon DEF FimScanOutside
    <3>2. v \in 0..(mod[m].version + 1) /\ v <= mod[m].version
      BY <1>0, <3>1 DEF Module
    <3>. QED  BY <3>1, <3>2, DifferenceGood, Zenon DEF Good
  <2>. QED  BY <2>1, <2>2, <2>3, <2>4, <2>5, <2>6, <2>7, Zenon DEF ScanThread, ScanStep
<1>. QED  BY <1>1, Zenon DEF Good

\* The sync loops of SCA and Syscollector on their way to a session.
LEMMA WaitsGood ==
  ASSUME IInv, NEW m \in Modules,
         \/ m = "sca" /\ (ScaSyncPause \/ ScaSyncBegin \/ ScaSyncResume)
         \/ m = "syscollector" /\ (SysSyncCheck \/ SysSyncBegin \/ SysSyncNotify)
         \/ RecoveryBegin(m)
  PROVE  Good(m)
<1>0. /\ mod[m] \in Module /\ mod \in [Modules -> Module]
      /\ Sessions(m) /\ Flushes(m) /\ Mutexes
  BY Zenon DEF IInv, TypeOK
<1>1. CASE m = "sca" /\ ScaSyncPause
  <2>1. mod' = [mod EXCEPT ![m] = mod'[m]] /\ mod'[m] \in Module
    BY <1>0, <1>1, ZenonT(30) DEF ScaSyncPause, Set, Module
  <2>. QED  BY <1>0, <1>1, <2>1
               DEF ScaSyncPause, Set, Good, Local, Answers, Module, Sessions, Flushes
<1>2. CASE m = "sca" /\ ScaSyncBegin
  BY <1>0, <1>2 DEF ScaSyncBegin, Set, Good, Local, Answers, Module, Sessions, Flushes
<1>3. CASE m = "sca" /\ ScaSyncResume
  <2>1. mod' = [mod EXCEPT ![m] = mod'[m]] /\ mod'[m] \in Module
    BY ZenonT(30), <1>0, <1>3 DEF ScaSyncResume, Set, Module
  <2>. QED  BY <1>0, <1>3, <2>1
               DEF ScaSyncResume, Set, Good, Local, Answers, Module, Sessions, Flushes
<1>4. CASE m = "syscollector" /\ SysSyncCheck
  BY <1>0, <1>4 DEF SysSyncCheck, Set, Good, Local, Answers, Module, Sessions, Flushes
<1>5. CASE m = "syscollector" /\ SysSyncBegin
  BY <1>0, <1>5 DEF SysSyncBegin, Set, Good, Local, Answers, Module, Sessions, Flushes
<1>6. CASE m = "syscollector" /\ SysSyncNotify
  <2>1. PICK to \in {"recovery", "idle"}, c \in {"none", "test", "doze", "asleep"} :
          /\ mod' = [mod EXCEPT ![m] = [mod[m] EXCEPT !.sync = to, !.call = c]]
          /\ c # "none" => mod[m].call # "none"
    <3>1. mod[m].call \in {"none", "test", "doze", "asleep"}
      BY <1>0, Zenon DEF Module
    <3>2. /\ Woken(mod[m].call) \in {"none", "test", "doze", "asleep"}
          /\ Woken(mod[m].call) # "none" => mod[m].call # "none"
      BY <3>1, Zenon DEF Woken
    <3>3. CASE mod[m].result
      BY <1>6, <3>2, <3>3, Zenon DEF SysSyncNotify, Set
    <3>4. CASE ~ mod[m].result
      BY <1>6, <3>2, <3>4, Zenon DEF SysSyncNotify, Set
    <3>. QED  BY <3>3, <3>4, Zenon
  <2>2. [mod[m] EXCEPT !.sync = to, !.call = c] \in Module
    BY ZenonT(30), <1>0 DEF Module
  <2>3. mod' = [mod EXCEPT ![m] = mod'[m]] /\ mod'[m] \in Module
    BY <1>0, <2>1, <2>2, Zenon
  <2>4. mod[m].sync = "notify"
    BY <1>6, Zenon DEF SysSyncNotify
  <2>. QED  BY <1>0, <1>6, <2>1, <2>3, <2>4 DEF Good, Local, Answers, Module, Sessions, Flushes
<1>7. CASE RecoveryBegin(m)
  <2>1. mod' = [mod EXCEPT ![m] = mod'[m]] /\ mod'[m] \in Module
    BY ZenonT(30), <1>0, <1>7 DEF RecoveryBegin, Set, Module
  <2>2. Local(m) /\ Sessions(m)' /\ Flushes(m)'
    BY <1>0, <1>7, <2>1 DEF RecoveryBegin, Set, Local, Answers, Module, Sessions, Flushes
  <2>3. m = "fim" => Mutexes'
    BY <1>0, <1>7 DEF RecoveryBegin, Set, Module, Mutexes
  <2>. QED  BY <2>2, <2>3, Zenon DEF Good
<1>. QED  BY <1>1, <1>2, <1>3, <1>4, <1>5, <1>6, <1>7, Zenon

\* The sync thread of fim_run_integrity, recovery included.
LEMMA FimWaitsGood ==
  ASSUME IInv, FimSyncWake \/ FimSyncBegin
  PROVE  Good("fim")
<1>. DEFINE m == "fim"
<1>0. /\ m \in Modules /\ mod[m] \in Module /\ mod \in [Modules -> Module]
      /\ Sessions(m) /\ Flushes(m) /\ Mutexes
  BY Zenon DEF IInv, TypeOK, Modules
<1>1. CASE FimSyncWake
  <2>1. PICK b \in BOOLEAN :
          /\ mod' = [mod EXCEPT ![m] = [mod[m] EXCEPT !.sync = "checked", !.detected = b]]
          /\ b => mod[m].flush = "running"
    BY <1>1, Zenon DEF FimSyncWake, Set
  <2>2. mod' = [mod EXCEPT ![m] = mod'[m]] /\ mod'[m] \in Module
    BY ZenonT(30), <1>0, <2>1 DEF Module
  <2>3. mod[m].sync = "idle"
    BY <1>1, Zenon DEF FimSyncWake
  <2>4. Local(m) /\ Sessions(m)' /\ Flushes(m)'
    BY <1>0, <2>1, <2>2, <2>3 DEF Local, Answers, Module, Sessions, Flushes
  <2>5. Mutexes'
    BY <1>0, <2>1 DEF Module, Mutexes
  <2>. QED  BY <2>4, <2>5, Zenon DEF Good
<1>2. CASE FimSyncBegin
  <2>1. mod[m].sync = "checked"
    BY <1>2, Zenon DEF FimSyncBegin
  <2>2. CASE mod[m].paused /\ ~ mod[m].detected
    <3>1. mod' = [mod EXCEPT ![m] = [mod[m] EXCEPT !.sync = "idle"]]
      BY <1>2, <2>2, Zenon DEF FimSyncBegin, Set
    <3>2. mod' = [mod EXCEPT ![m] = mod'[m]] /\ mod'[m] \in Module
      BY <1>0, <3>1 DEF Module
    <3>3. Local(m) /\ Sessions(m)' /\ Flushes(m)'
      BY <1>0, <2>1, <3>1, <3>2 DEF Local, Answers, Module, Sessions, Flushes
    <3>4. Mutexes'
      BY <1>0, <2>1, <3>1, ZenonT(30) DEF Module, Mutexes
    <3>. QED  BY <3>3, <3>4, Zenon DEF Good
  <2>3. CASE ~ (mod[m].paused /\ ~ mod[m].detected)
    <3>1. mod' = [mod EXCEPT ![m] = [mod[m] EXCEPT !.sync = "call", !.urgent = mod[m].paused]]
      BY <1>2, <2>3, Zenon DEF FimSyncBegin, Set
    <3>2. mod' = [mod EXCEPT ![m] = mod'[m]] /\ mod'[m] \in Module
      BY ZenonT(30), <1>0, <3>1 DEF Module
    <3>3. Local(m) /\ Sessions(m)' /\ Flushes(m)'
      BY <1>0, <2>1, <3>1, <3>2 DEF Local, Answers, Module, Sessions, Flushes
    <3>4. Mutexes'
      BY <1>0, <2>1, <3>1, ZenonT(30) DEF Module, Mutexes
    <3>. QED  BY <3>3, <3>4, Zenon DEF Good
  <2>. QED  BY <2>2, <2>3, Zenon
<1>. QED  BY <1>1, <1>2, Zenon

\* Assigning one field keeps a module a module.
LEMMA FieldTypes ==
  ASSUME NEW r \in Module
  PROVE  /\ \A b \in BOOLEAN : /\ [r EXCEPT !.first = b] \in Module
                               /\ [r EXCEPT !.detected = b] \in Module
                               /\ [r EXCEPT !.urgent = b] \in Module
         /\ \A f \in {"running", "succeeded", "failed"} : [r EXCEPT !.flush = f] \in Module
         /\ \A to \in {"recovery", "idle"} : [r EXCEPT !.sync = to] \in Module
<1>1. \A b \in BOOLEAN : [r EXCEPT !.first = b] \in Module
  BY ZenonT(30) DEF Module
<1>2. \A b \in BOOLEAN : [r EXCEPT !.detected = b] \in Module
  BY ZenonT(30) DEF Module
<1>3. \A b \in BOOLEAN : [r EXCEPT !.urgent = b] \in Module
  BY ZenonT(30) DEF Module
<1>4. \A f \in {"running", "succeeded", "failed"} : [r EXCEPT !.flush = f] \in Module
  BY ZenonT(30) DEF Module
<1>5. \A to \in {"recovery", "idle"} : [r EXCEPT !.sync = to] \in Module
  BY ZenonT(30) DEF Module
<1>. QED  BY <1>1, <1>2, <1>3, <1>4, <1>5, Zenon

\* The fields that a result leaves alone.
SameButResult(new, r) ==
  /\ new.paused = r.paused /\ new.allowed = r.allowed /\ new.lock = r.lock
  /\ new.scan = r.scan /\ new.call = r.call /\ new.worker = r.worker
  /\ new.open = r.open /\ new.batch = r.batch /\ new.rows = r.rows
  /\ new.sent = r.sent /\ new.version = r.version

\* The record of FIM when its session has returned.
FimRecord(r, b, f, to) ==
  [r EXCEPT !.first = b, !.flush = f, !.sync = to, !.detected = FALSE, !.urgent = FALSE]

\* Sets that the provers need not enumerate.
FlushStates == {"running", "succeeded", "failed"}

LoopEnds == {"recovery", "idle"}

Truth == BOOLEAN

\* What FimReturned makes of the record of FIM.
LEMMA FimRecordFields ==
  ASSUME NEW r \in Module, NEW b \in Truth, NEW f \in FlushStates,
         NEW to \in LoopEnds
  PROVE  /\ FimRecord(r, b, f, to) \in Module
         /\ FimRecord(r, b, f, to).flush = f
         /\ FimRecord(r, b, f, to).sync = to
         /\ FimRecord(r, b, f, to).detected = FALSE
         /\ SameButResult(FimRecord(r, b, f, to), r)
<1>1. FimRecord(r, b, f, to) \in Module
  BY FieldTypes, Zenon DEF FimRecord, Truth, FlushStates, LoopEnds
<1>2. /\ FimRecord(r, b, f, to).flush = f
      /\ FimRecord(r, b, f, to).sync = to
      /\ FimRecord(r, b, f, to).detected = FALSE
      /\ SameButResult(FimRecord(r, b, f, to), r)
  BY DEF Module, SameButResult, FimRecord
<1>. QED  BY <1>1, <1>2, Zenon

\* What the end of Syscollector's session makes of its record.
LEMMA SysRecord ==
  ASSUME NEW r \in Module, NEW b \in BOOLEAN
  PROVE  LET new == [r EXCEPT !.sync = "notify", !.result = b]
         IN  /\ new \in Module
             /\ new.flush = r.flush /\ new.sync = "notify" /\ new.detected = r.detected
             /\ SameButResult(new, r)
BY ZenonT(30) DEF Module, SameButResult

\* synchronizeModule takes the pending differences as its batch.
LEMMA OpenedType ==
  ASSUME NEW r \in Module
  PROVE  /\ [r EXCEPT !.open = "sync", !.batch = r.rows, !.sync = "session"] \in Module
         /\ [r EXCEPT !.open = "worker", !.batch = r.rows, !.worker = "session"] \in Module
<1>1. r.rows \in 0..MaxRows
  BY Zenon DEF Module
<1>2. \A n \in 0..MaxRows :
        /\ [r EXCEPT !.open = "sync", !.batch = n, !.sync = "session"] \in Module
        /\ [r EXCEPT !.open = "worker", !.batch = n, !.worker = "session"] \in Module
  BY ZenonT(30) DEF Module
<1>. QED  BY <1>1, <1>2, Zenon

\* The end of a session keeps a module a module.
LEMMA ClosedType ==
  ASSUME NEW m \in Modules, mod[m] \in Module, NEW ok \in BOOLEAN
  PROVE  Closed(m, ok) \in Module
<1>1. mod[m].batch \in 0..MaxRows /\ mod[m].sent \in 0..MaxRows /\ 0 \in 0..MaxRows
  BY CoordinationAssumption DEF Module
<1>2. \A n \in 0..MaxRows : [mod[m] EXCEPT !.open = "none", !.batch = 0, !.sent = n] \in Module
  BY ZenonT(30), <1>1 DEF Module
<1>. QED  BY <1>1, <1>2, Zenon DEF Closed

\* The loop of m gets its result: from the state it called in, or from its own
\* session, now closed.
LEMMA ReturnedGood ==
  ASSUME IInv, NEW m \in Modules, NEW new \in Module, NEW ok \in BOOLEAN,
         mod' = [mod EXCEPT ![m] = Returned(m, new, ok)],
         \/ mod[m].sync = "call" /\ new = mod[m]
         \/ mod[m].sync = "session" /\ new = Closed(m, ok),
         mod[m].sync = "call" /\ ok /\ m = "fim" => mod[m].sent = mod[m].rows
  PROVE  Good(m)
<1>0. /\ mod[m] \in Module /\ mod \in [Modules -> Module]
      /\ Sessions(m) /\ Flushes(m) /\ Mutexes
  BY Zenon DEF IInv, TypeOK
<1>1. /\ new.paused = mod[m].paused /\ new.allowed = mod[m].allowed
      /\ new.lock = mod[m].lock /\ new.scan = mod[m].scan /\ new.call = mod[m].call
      /\ new.worker = mod[m].worker /\ new.flush = mod[m].flush
      /\ new.rows = mod[m].rows /\ new.version = mod[m].version
      /\ new.detected = mod[m].detected
  <2>1. CASE new = mod[m]
    BY <2>1, Zenon
  <2>2. CASE new = Closed(m, ok)
    BY <1>0, <2>2 DEF Closed, Module
  <2>. QED  BY <2>1, <2>2, Zenon
<1>2. /\ new.open # "sync"
      /\ new.open = "worker" <=> mod[m].worker = "session"
      /\ new.open = "worker" => new.batch = mod[m].batch /\ new.sent = mod[m].sent
      /\ mod[m].sent <= new.sent /\ new.sent <= mod[m].rows
      /\ m = "fim" /\ ok /\ mod[m].detected =>
           \/ new.sent = mod[m].rows
           \/ Answers(m) /\ new.sent = mod[m].batch
  <2>1. CASE mod[m].sync = "call" /\ new = mod[m]
    BY <1>0, <2>1 DEF Module, Sessions, Answers
  <2>2. CASE mod[m].sync = "session" /\ new = Closed(m, ok)
    <3>1. /\ new.open = "none"
          /\ new.sent = IF ok THEN mod[m].batch ELSE mod[m].sent
      BY <1>0, <2>2 DEF Closed, Module
    <3>2. mod[m].sent \in Nat /\ mod[m].batch \in Nat /\ mod[m].rows \in Nat
      BY <1>0 DEF Module
    <3>. QED  BY <1>0, <2>2, <3>1, <3>2 DEF Sessions, Answers
  <2>. QED  BY <2>1, <2>2, Zenon
<1>3. CASE m = "fim"
  <2>b. SUFFICES ASSUME NEW b \in Truth, NEW f \in FlushStates, NEW to \in LoopEnds,
                        mod' = [mod EXCEPT ![m] = FimRecord(new, b, f, to)],
                        f = "succeeded" => new.flush = "succeeded" \/ (ok /\ new.detected)
                 PROVE  Good(m)
    <3>1. new.flush \in {"running", "succeeded", "failed"} /\ new.detected \in BOOLEAN
      BY Zenon DEF Module
    <3>. DEFINE f == IF new.detected THEN IF ok THEN "succeeded" ELSE "failed" ELSE new.flush
                to == IF ok /\ ~ new.urgent THEN "recovery" ELSE "idle"
                b == new.first \/ ok
    <3>2. /\ f \in {"running", "succeeded", "failed"}
          /\ f = "succeeded" => new.flush = "succeeded" \/ (ok /\ new.detected)
      <4>1. CASE new.detected
        BY <4>1, Zenon
      <4>2. CASE ~ new.detected
        <5>1. f = new.flush
          BY <4>2, Zenon
        <5>. HIDE DEF f
        <5>. QED  BY <3>1, <5>1, Zenon
      <4>. QED  BY <4>1, <4>2, Zenon
    <3>3. to \in {"recovery", "idle"} /\ b \in BOOLEAN
      BY Zenon
    <3>4. mod' = [mod EXCEPT ![m] = FimRecord(new, b, f, to)]
      BY <1>3, Zenon DEF Returned, FimReturned, FimRecord
    <3>. HIDE DEF f, to, b
    <3>. QED  BY <3>2, <3>3, <3>4, Zenon DEF Truth, FlushStates, LoopEnds
  <2>. DEFINE q == FimRecord(new, b, f, to)
  <2>a. /\ q \in Module /\ q.flush = f /\ q.sync = to /\ q.detected = FALSE
        /\ SameButResult(q, new)
    BY ZenonT(30), FimRecordFields
  <2>. HIDE DEF q
  <2>2. mod' = [mod EXCEPT ![m] = mod'[m]] /\ mod'[m] = q
    BY <1>0, <2>b, Zenon DEF q
  <2>3. /\ mod'[m] \in Module
        /\ mod'[m].flush = f /\ mod'[m].sync = to /\ mod'[m].detected = FALSE
        /\ SameButResult(mod'[m], new)
    BY <2>2, <2>a, Zenon
  <2>4. Local(m) /\ Sessions(m)' /\ Flushes(m)'
    BY <1>0, <1>1, <1>2, <1>3, <2>b, <2>2, <2>3
       DEF FlushStates, LoopEnds, SameButResult, Local, Answers, Module, Sessions, Flushes
  <2>5. Mutexes'
    BY <1>0, <1>1, <1>3, <2>3 DEF LoopEnds, SameButResult, Mutexes
  <2>. QED  BY <2>4, <2>5, Zenon DEF Good
<1>4. CASE m = "sca"
  <2>1. PICK to \in {"recovery", "resume"} : mod' = [mod EXCEPT ![m] = [new EXCEPT !.sync = to]]
    BY <1>4, Zenon DEF Returned
  <2>2. mod' = [mod EXCEPT ![m] = mod'[m]] /\ mod'[m] \in Module
    BY <1>0, <2>1 DEF Module
  <2>. QED  BY <1>0, <1>1, <1>2, <1>4, <2>1, <2>2
               DEF Good, Local, Answers, Module, Sessions, Flushes
<1>5. CASE m = "syscollector"
  <2>1. mod' = [mod EXCEPT ![m] = [new EXCEPT !.sync = "notify", !.result = ok]]
    BY <1>5, Zenon DEF Returned
  <2>. DEFINE q == [new EXCEPT !.sync = "notify", !.result = ok]
  <2>a. /\ q \in Module /\ q.flush = new.flush /\ q.sync = "notify"
        /\ q.detected = new.detected /\ SameButResult(q, new)
    BY SysRecord, Zenon
  <2>. HIDE DEF q
  <2>2. mod' = [mod EXCEPT ![m] = mod'[m]] /\ mod'[m] = q
    BY <1>0, <2>1, Zenon DEF q
  <2>3. /\ mod'[m] \in Module
        /\ mod'[m].flush = new.flush /\ mod'[m].sync = "notify" /\ mod'[m].detected = new.detected
        /\ SameButResult(mod'[m], new)
    BY <2>2, <2>a, Zenon
  <2>. QED  BY <1>0, <1>1, <1>2, <1>5, <2>2, <2>3
               DEF SameButResult, Good, Local, Answers, Module, Sessions, Flushes
<1>. QED  BY <1>3, <1>4, <1>5, Zenon DEF Modules

\* The count of mishaps stays within its bound.
LEMMA MishapType ==
  ASSUME TypeOK, NEW fault, Smooth \/ Mishap(fault)
  PROVE  mishaps' \in 0..MaxMishaps
BY CoordinationAssumption DEF TypeOK, Smooth, Mishap

\* The sync thread at the call of synchronizeModule and in its session.
LEMMA CallGood ==
  ASSUME IInv, NEW m \in Modules, SyncCall(m) \/ SyncSession(m) \/ RecoveryEnd(m)
  PROVE  Good(m) /\ mishaps' \in 0..MaxMishaps
<1>0. /\ mod[m] \in Module /\ mod \in [Modules -> Module]
      /\ Sessions(m) /\ Flushes(m) /\ Mutexes
  BY Zenon DEF IInv, TypeOK
<1>1. mishaps' \in 0..MaxMishaps
  <2>1. Smooth \/ Mishap("session") \/ Mishap("repair")
    BY Zenon DEF SyncCall, SyncSession, RecoveryEnd, SessionEnds
  <2>. QED  BY <2>1, MishapType, Zenon DEF IInv
<1>2. CASE SyncCall(m)
  <2>1. CASE CallReturnsTrue(m) /\ Set(m, Returned(m, mod[m], TRUE))
    <3>1. mod[m].sync = "call"
      BY <1>2, Zenon DEF SyncCall
    <3>2. m = "fim" => mod[m].sent = mod[m].rows
      BY <1>0, <2>1, <3>1, Zenon DEF CallReturnsTrue, Sessions, Flushes, Module
    <3>. QED  BY <1>0, <1>1, <2>1, <3>1, <3>2, ReturnedGood, Zenon DEF Set
  <2>2. CASE Set(m, [Opened(m, "sync") EXCEPT !.sync = "session"]) /\ ~ CallReturnsTrue(m)
    <3>1. mod' = [mod EXCEPT ![m] = [mod[m] EXCEPT !.open = "sync", !.batch = mod[m].rows,
                                                   !.sync = "session"]]
      BY <1>0, <2>2, Zenon DEF Set, Opened
    <3>2. mod' = [mod EXCEPT ![m] = mod'[m]] /\ mod'[m] \in Module
      <4>1. [mod[m] EXCEPT !.open = "sync", !.batch = mod[m].rows, !.sync = "session"] \in Module
        BY <1>0, OpenedType, Zenon
      <4>. QED  BY <1>0, <3>1, <4>1, Zenon
    <3>3. mod[m].sync = "call" /\ mod[m].open = "none"
      BY <1>2, <2>2, Zenon DEF SyncCall, CallReturnsTrue
    <3>4. Local(m) /\ Sessions(m)' /\ Flushes(m)'
      BY <1>0, <3>1, <3>2, <3>3 DEF Local, Answers, Module, Sessions, Flushes
    <3>5. m = "fim" => Mutexes'
      BY <1>0, <3>1, <3>3 DEF Module, Mutexes
    <3>. QED  BY <1>1, <3>4, <3>5, Zenon DEF Good
  <2>3. CASE Set(m, Returned(m, mod[m], FALSE))
    <3>1. mod[m].sync = "call"
      BY <1>2, Zenon DEF SyncCall
    <3>. QED  BY <1>0, <1>1, <2>3, <3>1, ReturnedGood, Zenon DEF Set
  <2>. QED  BY ZenonT(30), <1>2, <2>1, <2>2, <2>3 DEF SyncCall
<1>3. CASE SyncSession(m)
  <2>1. PICK ok \in BOOLEAN : Set(m, Returned(m, Closed(m, ok), ok))
    BY <1>3, Zenon DEF SyncSession
  <2>2. mod[m].sync = "session"
    BY <1>3, Zenon DEF SyncSession
  <2>3. Closed(m, ok) \in Module
    BY <1>0, ClosedType, Zenon
  <2>. QED  BY <1>0, <1>1, <2>1, <2>2, <2>3, ReturnedGood, Zenon DEF Set
<1>4. CASE RecoveryEnd(m)
  <2>1. PICK v \in Nat, l \in {"free", "scan", "sync", "coordinator"}, to \in {"resume", "idle"} :
          /\ mod' = [mod EXCEPT ![m] = [mod[m] EXCEPT !.sync = to, !.lock = l, !.version = v]]
          /\ l = IF m = "fim" THEN "free" ELSE mod[m].lock
    <3>1. /\ mod[m].version \in Nat /\ mod[m].version + 1 \in Nat
          /\ mod[m].lock \in {"free", "scan", "sync", "coordinator"}
      BY <1>0, SMTT(30) DEF Module
    <3>2. PICK needed \in BOOLEAN :
            mod' = [mod EXCEPT ![m] = [mod[m] EXCEPT
                      !.sync = AfterRecovery(m),
                      !.lock = IF m = "fim" THEN "free" ELSE mod[m].lock,
                      !.version = IF needed /\ mod[m].version > 0
                                  THEN mod[m].version + 1 ELSE mod[m].version]]
      BY <1>4, Zenon DEF RecoveryEnd, Set
    <3>3. PICK to \in {"resume", "idle"} : to = AfterRecovery(m)
      BY Zenon DEF AfterRecovery
    <3>4. PICK l \in {"free", "scan", "sync", "coordinator"} :
            l = IF m = "fim" THEN "free" ELSE mod[m].lock
      BY <3>1, Zenon
    <3>5. PICK v \in Nat : v = IF needed /\ mod[m].version > 0
                               THEN mod[m].version + 1 ELSE mod[m].version
      BY <3>1, Zenon
    <3>. QED  BY <3>2, <3>3, <3>4, <3>5, Zenon
  <2>2. mod[m].sync = "repair"
    BY <1>4, Zenon DEF RecoveryEnd
  <2>3. [mod[m] EXCEPT !.sync = to, !.lock = l, !.version = v] \in Module
    <3>1. v \in Nat /\ l \in {"free", "scan", "sync", "coordinator"} /\ to \in {"resume", "idle"}
      BY <2>1, Zenon
    <3>. QED  BY ZenonT(30), <1>0, <3>1 DEF Module
  <2>4. mod' = [mod EXCEPT ![m] = mod'[m]] /\ mod'[m] \in Module
    BY <1>0, <2>1, <2>3, Zenon
  <2>5. Local(m) /\ Sessions(m)' /\ Flushes(m)'
    BY <1>0, <2>1, <2>2, <2>4 DEF Local, Answers, Module, Sessions, Flushes, Mutexes
  <2>6. m = "fim" => Mutexes'
    BY <1>0, <2>1, <2>2 DEF Module, Mutexes
  <2>. QED  BY <1>1, <2>5, <2>6, Zenon DEF Good
<1>. QED  BY <1>1, <1>2, <1>3, <1>4, Zenon

\* Every step of the sync thread.
LEMMA SyncGood ==
  ASSUME IInv, NEW m \in Modules, SyncThread(m)
  PROVE  Good(m) /\ mishaps' \in 0..MaxMishaps
<1>1. Good(m) /\ mishaps' \in 0..MaxMishaps
  <2>. DEFINE W == \/ m = "sca" /\ (ScaSyncPause \/ ScaSyncBegin \/ ScaSyncResume)
                   \/ m = "syscollector" /\ (SysSyncCheck \/ SysSyncBegin \/ SysSyncNotify)
                   \/ RecoveryBegin(m)
              F == m = "fim" /\ (FimSyncWake \/ FimSyncBegin)
              C == SyncCall(m) \/ SyncSession(m) \/ RecoveryEnd(m)
  <2>0. (W /\ Smooth) \/ (F /\ Smooth) \/ C
    BY Zenon DEF SyncThread, SyncLoop
  <2>1. ASSUME W, Smooth PROVE Good(m) /\ mishaps' \in 0..MaxMishaps
    BY <2>1, WaitsGood, Zenon DEF Smooth, IInv, TypeOK
  <2>2. ASSUME F, Smooth PROVE Good(m) /\ mishaps' \in 0..MaxMishaps
    BY <2>2, FimWaitsGood, Zenon DEF Smooth, IInv, TypeOK
  <2>3. ASSUME C PROVE Good(m) /\ mishaps' \in 0..MaxMishaps
    BY <2>3, CallGood, Zenon
  <2>. HIDE DEF W, F, C
  <2>. QED  BY <2>0, <2>1, <2>2, <2>3, Zenon
<1>. QED  BY <1>1, Zenon

\* An event of the real-time or who-data monitoring.
LEMMA EventGood ==
  ASSUME IInv, NEW m \in Modules, EventThread(m)
  PROVE  Good(m)
<1>1. PICK v \in 0..(mod[m].version + 1) : Difference(m, v)
  BY Zenon DEF EventThread, FimEvent
<1>2. "events" \in Faults
  BY Zenon DEF EventThread, FimEvent
<1>. QED  BY <1>1, <1>2, DifferenceGood, Zenon

\* The scan, the events and the sync thread preserve the invariant.
LEMMA ThreadInv ==
  ASSUME IInv, NEW m \in Modules, ScanThread(m) \/ EventThread(m) \/ SyncThread(m)
  PROVE  IInv'
<1>1. Good(m) /\ mishaps' \in 0..MaxMishaps
  BY ScanGood, EventGood, SyncGood, Zenon DEF ScanThread, EventThread, Smooth, IInv, TypeOK
<1>2. OfModule(m) /\ joined \subseteq joined' /\ joined' \subseteq joined \cup {m}
  BY Zenon DEF ScanThread, EventThread, SyncThread
<1>3. Local(m) /\ Sessions(m)' /\ Flushes(m)' /\ (m = "fim" => Mutexes')
  BY <1>1, Zenon DEF Good
<1>. QED  BY <1>1, <1>2, <1>3, LocalInv, Zenon

\* What the end of a flush makes of the record.
LEMMA WorkerRecord ==
  ASSUME NEW r \in Module, NEW f \in FlushStates
  PROVE  LET new == [r EXCEPT !.worker = "none", !.flush = f]
         IN  /\ new \in Module
             /\ new.worker = "none" /\ new.flush = f
             /\ new.paused = r.paused /\ new.allowed = r.allowed /\ new.version = r.version
             /\ new.call = r.call /\ new.open = r.open /\ new.batch = r.batch
             /\ new.rows = r.rows /\ new.sent = r.sent /\ new.sync = r.sync
             /\ new.detected = r.detected
<1>1. [r EXCEPT !.worker = "none"] \in Module
  BY ZenonT(30) DEF Module
<1>2. [r EXCEPT !.worker = "none", !.flush = f] \in Module
  BY <1>1, FieldTypes, ZenonT(30) DEF FlushStates
<1>. QED  BY <1>2 DEF Module

\* The worker of m ends: at its call, or with its own session, now closed.
LEMMA WorkerDoneGood ==
  ASSUME NEW m \in Modules, mod \in [Modules -> Module], Sessions(m), Flushes(m),
         m # "fim", mod[m].flush = "running", NEW ok \in {TRUE, FALSE},
         \/ /\ mod' = [mod EXCEPT ![m] = WorkerDone(mod[m], ok)]
            /\ mod[m].worker = "call"
            /\ ok => m \in joined' \/ mod[m].rows = mod[m].sent
         \/ /\ mod' = [mod EXCEPT ![m] = WorkerDone(Closed(m, ok), ok)]
            /\ mod[m].worker = "session"
  PROVE  Local(m) /\ Sessions(m)' /\ Flushes(m)'
<1>. DEFINE r == IF mod[m].worker = "call" THEN mod[m] ELSE Closed(m, ok)
            f == IF ok THEN "succeeded" ELSE "failed"
            new == [r EXCEPT !.worker = "none", !.flush = f]
<1>0. mod[m] \in Module /\ f \in FlushStates
  BY Zenon DEF FlushStates
<1>1. mod' = [mod EXCEPT ![m] = new]
  BY ZenonT(30) DEF WorkerDone
<1>2. r \in Module
  BY ZenonT(30), <1>0, ClosedType
<1>3. /\ r.paused = mod[m].paused /\ r.allowed = mod[m].allowed /\ r.version = mod[m].version
      /\ r.call = mod[m].call /\ r.rows = mod[m].rows /\ r.sync = mod[m].sync
      /\ r.detected = mod[m].detected
  BY <1>0, Zenon DEF Closed, Module
<1>4. /\ r.open # "worker"
      /\ r.open = "sync" <=> mod[m].sync = "session"
      /\ r.open = "sync" => r.batch = mod[m].batch /\ r.sent = mod[m].sent
      /\ mod[m].sent <= r.sent /\ r.sent <= mod[m].rows
      /\ ok => \/ m \in joined'
               \/ r.sent = mod[m].rows
               \/ Answers(m) /\ r.sent = mod[m].batch
  <2>1. CASE mod[m].worker = "call"
    BY <1>0, <2>1, SMTT(30) DEF Module, Sessions
  <2>2. CASE mod[m].worker = "session"
    <3>1. /\ r.open = "none"
          /\ r.sent = IF ok THEN mod[m].batch ELSE mod[m].sent
      BY <1>0, <2>2, Zenon DEF Closed, Module
    <3>2. mod[m].sent \in Nat /\ mod[m].batch \in Nat /\ mod[m].rows \in Nat
      BY <1>0 DEF Module
    <3>. QED  BY <2>2, <3>1, <3>2 DEF Sessions, Answers
  <2>. QED  BY <2>1, <2>2, Zenon
<1>. HIDE DEF r, f
<1>5. /\ new \in Module
      /\ new.worker = "none" /\ new.flush = f
      /\ new.paused = r.paused /\ new.allowed = r.allowed /\ new.version = r.version
      /\ new.call = r.call /\ new.open = r.open /\ new.batch = r.batch
      /\ new.rows = r.rows /\ new.sent = r.sent /\ new.sync = r.sync
      /\ new.detected = r.detected
  BY ZenonT(30), <1>0, <1>2, WorkerRecord
<1>. HIDE DEF new
<1>6. mod' = [mod EXCEPT ![m] = mod'[m]] /\ mod'[m] = new
  BY <1>1, Zenon
<1>7. f = IF ok THEN "succeeded" ELSE "failed"
  BY Zenon DEF f
<1>. QED  BY <1>0, <1>3, <1>4, <1>5, <1>6, <1>7 DEF Local, Answers, Module, Sessions, Flushes

\* The flush worker preserves the invariant: what it answers for is in
\* its own session, or another session was running when it was refused.
LEMMA WorkerInv ==
  ASSUME IInv, NEW m \in Modules, FlushWorker(m)
  PROVE  IInv'
<1>0. /\ mod[m] \in Module /\ mod \in [Modules -> Module]
      /\ Sessions(m) /\ Flushes(m) /\ Mutexes
  BY Zenon DEF IInv, TypeOK
<1>1. mishaps' \in 0..MaxMishaps
  <2>1. Smooth \/ Mishap("session")
    BY Zenon DEF FlushWorker, WorkerCall, WorkerSession, SessionEnds
  <2>. QED  BY <2>1, MishapType, Zenon DEF IInv
<1>2. m # "fim" /\ mod[m].flush = "running"
  BY <1>0, Zenon DEF FlushWorker, WorkerCall, WorkerSession, Flushes
<1>3. joined \subseteq joined' /\ joined' \subseteq joined \cup {m}
  BY Zenon DEF FlushWorker, WorkerCall
<1>4. Local(m) /\ Sessions(m)' /\ Flushes(m)'
  <2>1. CASE WorkerCall(m) /\ CallReturnsTrue(m) /\ Set(m, WorkerDone(mod[m], TRUE))
             /\ joined' = IF mod[m].open = "none" THEN joined ELSE joined \cup {m}
    <3>1. mod[m].worker = "call" /\ (m \in joined' \/ mod[m].rows = mod[m].sent)
      BY <2>1, Zenon DEF WorkerCall, CallReturnsTrue
    <3>2. mod[m].open # "worker"
      BY <1>0, <3>1, Zenon DEF Sessions
    <3>. QED  BY <1>0, <1>2, <2>1, <3>1, <3>2, WorkerDoneGood, ZenonT(30) DEF Set
  <2>2. CASE WorkerCall(m) /\ ~ CallReturnsTrue(m)
             /\ Set(m, [Opened(m, "worker") EXCEPT !.worker = "session"])
    <3>1. mod' = [mod EXCEPT ![m] = [mod[m] EXCEPT !.open = "worker", !.batch = mod[m].rows,
                                                   !.worker = "session"]]
      BY <1>0, <2>2, Zenon DEF Set, Opened
    <3>2. mod' = [mod EXCEPT ![m] = mod'[m]] /\ mod'[m] \in Module
      <4>1. [mod[m] EXCEPT !.open = "worker", !.batch = mod[m].rows, !.worker = "session"] \in Module
        BY <1>0, OpenedType, Zenon
      <4>. QED  BY <1>0, <3>1, <4>1, Zenon
    <3>3. mod[m].worker = "call" /\ mod[m].open = "none"
      BY <2>2, Zenon DEF WorkerCall, CallReturnsTrue
    <3>. QED  BY <1>0, <1>2, <3>1, <3>2, <3>3 DEF Local, Answers, Module, Sessions, Flushes
  <2>3. CASE WorkerCall(m) /\ Set(m, WorkerDone(mod[m], FALSE))
    <3>1. mod[m].worker = "call"
      BY <2>3, Zenon DEF WorkerCall
    <3>2. mod[m].open # "worker"
      BY <1>0, <3>1, Zenon DEF Sessions
    <3>. QED  BY <1>0, <1>2, <2>3, <3>1, <3>2, WorkerDoneGood, Zenon DEF Set
  <2>4. CASE WorkerSession(m)
    <3>1. PICK ok \in BOOLEAN : mod' = [mod EXCEPT ![m] = WorkerDone(Closed(m, ok), ok)]
      BY <2>4, Zenon DEF WorkerSession, Set
    <3>2. mod[m].worker = "session" /\ mod[m].open = "worker"
      BY <1>0, <2>4, Zenon DEF WorkerSession, Sessions
    <3>3. CASE ok
      BY ZenonT(30), <1>0, <1>2, <3>1, <3>2, <3>3, WorkerDoneGood
    <3>4. CASE ~ ok
      BY ZenonT(30), <1>0, <1>2, <3>1, <3>2, <3>4, WorkerDoneGood
    <3>. QED  BY <3>3, <3>4, Zenon
  <2>. QED  BY <2>1, <2>2, <2>3, <2>4, Zenon DEF FlushWorker, WorkerCall
<1>. QED  BY <1>1, <1>2, <1>3, <1>4, LocalInv, Zenon DEF FlushWorker

-----------------------------------------------------------------------------
(* Steps of the coordinator *)

\* The module a phase asks next is one it still has to ask.
LEMMA TurnInTodo ==
  ASSUME todo \subseteq Modules, todo # {}
  PROVE  Turn \in todo /\ Turn \in Modules
BY Zenon DEF Turn, Modules

\* The coordinator leaves the sessions and the flush of m alone.
Untouched(m) ==
  /\ mod'[m].sync = mod[m].sync /\ mod'[m].worker = mod[m].worker
  /\ mod'[m].flush = mod[m].flush /\ mod'[m].detected = mod[m].detected
  /\ mod'[m].open = mod[m].open /\ mod'[m].batch = mod[m].batch
  /\ mod'[m].rows = mod[m].rows /\ mod'[m].sent = mod[m].sent

\* Sessions and flushes are as they were.
LEMMA UntouchedInv ==
  ASSUME IInv, NEW m \in Modules, Untouched(m)
  PROVE  Sessions(m)' /\ Flushes(m)'
BY ZenonT(30) DEF IInv, Untouched, Sessions, Flushes

\* What m owes is as it was, and a flush that is ticked off has succeeded.
LEMMA OwedInv ==
  ASSUME IInv, NEW m \in Modules, Untouched(m),
         Asked(m)' /\ m \notin joined' =>
           /\ Asked(m) /\ m \notin joined /\ owed'[m] = owed[m]
           /\ outcome' = "flushed" /\ step' \in {"poll", "session"} /\ m \notin todo' =>
                \/ outcome = "flushed" /\ step \in {"poll", "session"} /\ m \notin todo
                \/ mod[m].flush = "succeeded"
  PROVE  Owed(m)'
<1>1. Answers(m)' <=> Answers(m)
  BY Zenon DEF Answers, Untouched
<1>. QED  BY <1>1, Zenon DEF IInv, Owed, Untouched

\* Steps that look at no module.
LEMMA SameModules ==
  ASSUME IInv, mod' = mod, TypeOK', Phases', Held',
         \A m \in Modules :
           Asked(m)' /\ m \notin joined' =>
             /\ Asked(m) /\ m \notin joined /\ owed'[m] = owed[m]
             /\ outcome' = "flushed" /\ step' \in {"poll", "session"} /\ m \notin todo' =>
                  \/ outcome = "flushed" /\ step \in {"poll", "session"} /\ m \notin todo
                  \/ mod[m].flush = "succeeded"
  PROVE  IInv'
<1>1. \A m \in Modules : Untouched(m)
  BY Zenon DEF Untouched
<1>2. Mutexes'
  BY Zenon DEF IInv, Mutexes
<1>3. \A m \in Modules : Sessions(m)' /\ Flushes(m)'
  BY <1>1, UntouchedInv, Zenon
<1>4. \A m \in Modules : Owed(m)'
  BY <1>1, OwedInv, Zenon
<1>. QED  BY ZenonT(30), <1>2, <1>3, <1>4 DEF IInv

\* The agent_info loop outside a coordination.
LEMMA PopulateInv ==
  ASSUME IInv, NEW ts \in SUBSET Tables, Populate(ts)
  PROVE  IInv'
<1>1. /\ meta \in [Tables -> 0..MaxChanges] /\ meta["metadata"] \in Nat /\ meta["groups"] \in Nat
      /\ MaxChanges \in Nat
  BY CoordinationAssumption DEF IInv, TypeOK, Tables
<1>2. Cardinality(ts) = (IF "metadata" \in ts THEN 1 ELSE 0) + (IF "groups" \in ts THEN 1 ELSE 0)
  <2>1. ts \in {{}, {"metadata"}, {"groups"}, {"metadata", "groups"}}
    BY Zenon DEF Tables
  <2>2. Cardinality({}) = 0 /\ Cardinality({"metadata"}) = 1 /\ Cardinality({"groups"}) = 1
    BY FS_EmptySet, FS_Singleton, Zenon
  <2>3. Cardinality({"metadata", "groups"}) = 2
    <3>1. {"metadata", "groups"} = {"metadata"} \cup {"groups"}
      BY Zenon
    <3>2. IsFiniteSet({"metadata"}) /\ "groups" \notin {"metadata"}
      BY FS_Singleton, Zenon
    <3>. QED  BY <2>2, <3>1, <3>2, FS_AddElement
  <2>. QED  BY <2>1, <2>2, <2>3
<1>3. meta' \in [Tables -> 0..MaxChanges] /\ Changes' <= MaxChanges
  BY <1>1, <1>2 DEF Populate, Changes, Tables
<1>4. TypeOK'
  BY <1>3, Zenon DEF IInv, TypeOK, Populate, coordination, ghosts
<1>5. Phases' /\ Held'
  BY <1>3, Zenon DEF IInv, Phases, Held, Populate, coordination, ghosts, Turn
<1>. QED  BY <1>4, <1>5, SameModules, Zenon DEF IInv, Phases, Asked, Populate, coordination, ghosts

\* The steps of AgentInfoImpl::start between two coordinations.
LEMMA LoopInv ==
  ASSUME IInv, \/ SetFlag \/ SkipTable \/ FirstRun \/ Coordinate
               \/ \E ts \in SUBSET Tables : Integrity(ts)
  PROVE  IInv'
<1>1. CASE SetFlag
  <2>1. TypeOK'
    BY ZenonT(30), <1>1 DEF IInv, TypeOK, SetFlag, coordination, ghosts, Tables
  <2>2. Phases' /\ Held'
    BY <1>1, Zenon DEF IInv, Phases, Held, SetFlag, coordination, ghosts, Turn, Changes
  <2>. QED  BY ZenonT(30), <1>1, <2>1, <2>2, SameModules
               DEF IInv, Phases, Asked, SetFlag, coordination, ghosts
<1>2. CASE SkipTable
  <2>1. TypeOK'
    BY <1>2, Zenon DEF IInv, TypeOK, SkipTable, After, coordination, ghosts, stored, Tables
  <2>2. Phases' /\ Held'
    BY <1>2, Zenon DEF IInv, Phases, Held, SkipTable, coordination, ghosts, stored, Turn, Changes
  <2>. QED  BY <1>2, <2>1, <2>2, SameModules, Zenon DEF IInv, Phases, Asked, SkipTable,
               coordination, ghosts
<1>3. CASE FirstRun
  <2>1. TypeOK'
    BY <1>3, Zenon DEF IInv, TypeOK, FirstRun, Reset, After, coordination, ghosts, Tables
  <2>2. Phases' /\ Held'
    BY <1>3, Zenon DEF IInv, Phases, Held, FirstRun, Reset, coordination, ghosts, Turn, Changes
  <2>. QED  BY ZenonT(30), <1>3, <2>1, <2>2, SameModules
               DEF IInv, Phases, Asked, FirstRun, Reset, coordination, ghosts
<1>4. CASE Coordinate
  <2>1. TypeOK'
    BY <1>4, Zenon DEF IInv, TypeOK, Coordinate, NotFlushing, OutsideCoordination, ghosts, stored
  <2>2. Phases' /\ Held'
    BY <1>4, Zenon DEF IInv, Phases, Held, Coordinate, NotFlushing, OutsideCoordination, stored,
       Changes
  <2>. QED  BY ZenonT(30), <1>4, <2>1, <2>2, SameModules
            DEF IInv, Phases, Asked, Coordinate, NotFlushing, OutsideCoordination, ghosts
<1>5. ASSUME NEW ts \in SUBSET Tables, Integrity(ts) PROVE IInv'
  <2>1. TypeOK'
    BY <1>5, Zenon DEF IInv, TypeOK, Integrity, coordination, ghosts, stored, Tables
  <2>2. Phases' /\ Held'
    BY <1>5, Zenon DEF IInv, Phases, Held, Integrity, coordination, ghosts, stored, Turn, Changes
  <2>. QED  BY ZenonT(30), <1>5, <2>1, <2>2, SameModules
               DEF IInv, Phases, Asked, Integrity, coordination, ghosts
<1>. QED  BY <1>1, <1>2, <1>3, <1>4, <1>5, Zenon

\* Coordination steps that ask no module, or only its version.
LEMMA IdleInv ==
  ASSUME IInv, \/ PauseUnavailable \/ ScaPaused \/ AllPaused \/ AllResumed
               \/ AllFlushed \/ MetadataSession \/ ResetFlag
               \/ \E m \in enabled : PollFlush(m)
  PROVE  IInv'
<1>. USE DEF NotFlushing, OutsideCoordination, ghosts, coordination, stored
<1>0. enabled \subseteq Modules
  BY CoordinationAssumption, Zenon DEF IInv, TypeOK
<1>1. CASE PauseUnavailable
  <2>1. TypeOK'
    BY <1>1, Zenon DEF IInv, TypeOK, PauseUnavailable, Rest
  <2>2. Phases' /\ Held'
    BY <1>1, Zenon DEF IInv, Phases, Held, PauseUnavailable, Changes
  <2>. QED  BY ZenonT(30), <1>1, <2>1, <2>2, SameModules
               DEF IInv, Phases, Asked, PauseUnavailable
<1>2. CASE ScaPaused
  <2>1. Turn = "sca" /\ "sca" \in enabled
    BY <1>2, Zenon DEF ScaPaused, IInv, Phases
  <2>2. TypeOK'
    BY <1>2, <2>1, Zenon DEF IInv, TypeOK, ScaPaused, PauseAgreed, Rest
  <2>3. Phases' /\ Held'
    BY <1>2, Zenon DEF IInv, Phases, Held, ScaPaused, PauseAgreed, Changes
  <2>. QED  BY ZenonT(30), <1>2, <2>2, <2>3, SameModules
               DEF IInv, Phases, Asked, ScaPaused, PauseAgreed
<1>3. CASE AllPaused
  <2>1. TypeOK'
    BY <1>0, <1>3, Zenon DEF IInv, TypeOK, AllPaused
  <2>2. Phases' /\ Held'
    BY <1>3, Zenon DEF IInv, Phases, Held, AllPaused, Changes
  <2>. QED  BY ZenonT(30), <1>3, <2>1, <2>2, SameModules DEF IInv, Phases, Asked, AllPaused
<1>4. CASE AllResumed
  <2>1. TypeOK'
    BY <1>0, <1>4, CoordinationAssumption
       DEF IInv, TypeOK, AllResumed, NoCoordination, After, Tables
  <2>2. Phases' /\ Held'
    BY <1>4, Zenon DEF IInv, Phases, Held, AllResumed, NoCoordination, Changes
  <2>. QED  BY ZenonT(30), <1>4, <2>1, <2>2, SameModules
               DEF IInv, Phases, Asked, AllResumed, NoCoordination
<1>5. CASE AllFlushed
  <2>1. TypeOK'
    BY <1>5, CoordinationAssumption DEF IInv, TypeOK, AllFlushed, NoCoordination, After, Tables
  <2>2. Phases' /\ Held'
    BY <1>5, Zenon DEF IInv, Phases, Held, AllFlushed, NoCoordination, Changes
  <2>. QED  BY ZenonT(30), <1>5, <2>1, <2>2, SameModules
               DEF IInv, Phases, Asked, AllFlushed, NoCoordination
<1>6. CASE MetadataSession
  <2>0. mishaps' \in 0..MaxMishaps
    BY <1>6, MishapType, Zenon DEF MetadataSession, IInv
  <2>1. TypeOK'
    BY <1>6, <2>0, CoordinationAssumption, SMTT(30)
       DEF IInv, TypeOK, MetadataSession, NoCoordination, After, Tables
  <2>2. Phases' /\ Held'
    BY <1>6, Zenon DEF IInv, Phases, Held, MetadataSession, NoCoordination, Changes
  <2>. QED  BY <1>6, <2>1, <2>2, SameModules, Zenon DEF IInv, Phases, Asked, MetadataSession,
               NoCoordination
<1>7. CASE ResetFlag
  <2>1. TypeOK'
    <3>1. flag' \in [Tables -> BOOLEAN] /\ firstRun' \in [Tables -> BOOLEAN]
      BY ZenonT(30), <1>7 DEF IInv, TypeOK, ResetFlag, Reset
    <3>2. owed' \in [Modules -> 0..MaxRows] /\ table' \in Tables \cup {"integrity"}
      BY <1>7, CoordinationAssumption DEF ResetFlag, Reset, NoCoordination, After, Tables
    <3>. QED  BY <1>7, <3>1, <3>2, Zenon DEF IInv, TypeOK, ResetFlag, Reset, NoCoordination
  <2>2. Phases' /\ Held'
    BY <1>7, Zenon DEF IInv, Phases, Held, ResetFlag, Reset, NoCoordination, Changes
  <2>. QED  BY ZenonT(30), <1>7, <2>1, <2>2, SameModules
               DEF IInv, Phases, Asked, ResetFlag, Reset, NoCoordination
<1>8. ASSUME NEW m \in enabled, PollFlush(m) PROVE IInv'
  <2>1. TypeOK'
    BY <1>8, Zenon DEF IInv, TypeOK, PollFlush
  <2>2. Phases' /\ Held'
    BY ZenonT(30), <1>8 DEF IInv, Phases, Held, PollFlush, Changes
  <2>3. ASSUME NEW k \in Modules, Asked(k)', k \notin joined'
        PROVE  /\ Asked(k) /\ k \notin joined /\ owed'[k] = owed[k]
               /\ outcome' = "flushed" /\ step' \in {"poll", "session"} /\ k \notin todo' =>
                    \/ outcome = "flushed" /\ step \in {"poll", "session"} /\ k \notin todo
                    \/ mod[k].flush = "succeeded"
    <3>1. mod[k].flush \in {"running", "succeeded", "failed"}
      BY Zenon DEF IInv, TypeOK, Module
    <3>. QED  BY ZenonT(30), <1>8, <2>3, <3>1 DEF Asked, PollFlush
  <2>. QED  BY <1>8, <2>1, <2>2, <2>3, SameModules, ZenonT(30) DEF PollFlush
<1>. QED  BY <1>1, <1>2, <1>3, <1>4, <1>5, <1>6, <1>7, <1>8, ZenonT(30)

\* r and q differ in no field of their sessions and flush.
SameSessions(r, q) ==
  /\ r.sync = q.sync /\ r.worker = q.worker
  /\ r.flush = q.flush /\ r.detected = q.detected
  /\ r.open = q.open /\ r.batch = q.batch
  /\ r.rows = q.rows /\ r.sent = q.sent

\* A query changes other fields of one module.
LEMMA QueryInv ==
  ASSUME IInv, NEW t \in Modules, NEW STATE r, r \in Module, mod' = [mod EXCEPT ![t] = r],
         SameSessions(r, mod[t]), owed' = owed, joined' = joined,
         \A m \in Modules :
           Asked(m)' => /\ Asked(m)
                        /\ step' \notin {"poll", "session"}
  PROVE  /\ mod' \in [Modules -> Module]
         /\ mod'[t] = r /\ \A m \in Modules \ {t} : mod'[m] = mod[m]
         /\ \A m \in Modules : Sessions(m)' /\ Flushes(m)' /\ Owed(m)'
<1>1. mod \in [Modules -> Module]
  BY Zenon DEF IInv, TypeOK
<1>2. mod' \in [Modules -> Module] /\ mod'[t] = r /\ \A m \in Modules \ {t} : mod'[m] = mod[m]
  BY <1>1, Zenon
<1>3. \A m \in Modules : Untouched(m)
  BY <1>2, Zenon DEF Untouched, SameSessions
<1>4. \A m \in Modules : Sessions(m)' /\ Flushes(m)'
  BY <1>3, UntouchedInv, Zenon
<1>5. \A m \in Modules : Owed(m)'
  BY <1>3, OwedInv, Zenon
<1>. QED  BY <1>2, <1>4, <1>5, Zenon

\* What the queries do to a module.
LEMMA PausingFields ==
  ASSUME IInv, NEW m \in Modules
  PROVE  /\ Pausing(m) \in Module
         /\ SameSessions(Pausing(m), mod[m])
         /\ Pausing(m).paused
         /\ Pausing(m).allowed = mod[m].allowed
         /\ Pausing(m).lock = mod[m].lock
         /\ Pausing(m).scan = mod[m].scan
         /\ Pausing(m).version = mod[m].version
         /\ m # "syscollector" => Pausing(m).call = mod[m].call
<1>1. mod[m] \in Module /\ Mutexes
  BY Zenon DEF IInv, TypeOK
<1>2. CASE m = "fim" /\ mod[m].paused
  BY <1>1, <1>2, ZenonT(30) DEF Pausing, SameSessions, Module
<1>3. CASE m = "fim" /\ ~ mod[m].paused
  <2>1. Pausing(m) = [mod[m] EXCEPT !.paused = TRUE, !.allowed = FALSE]
    BY <1>3, Zenon DEF Pausing
  <2>2. mod[m].allowed = FALSE
    BY <1>1, <1>3, Zenon DEF Mutexes, Module
  <2>3. Pausing(m) \in Module
    BY ZenonT(30), <1>1, <2>1 DEF Module
  <2>4. /\ Pausing(m).paused = TRUE /\ Pausing(m).allowed = FALSE
        /\ Pausing(m).lock = mod[m].lock /\ Pausing(m).scan = mod[m].scan
        /\ Pausing(m).version = mod[m].version /\ Pausing(m).call = mod[m].call
    BY <1>1, <2>1, ZenonT(30) DEF Module
  <2>5. SameSessions(Pausing(m), mod[m])
    BY <1>1, <2>1, ZenonT(30) DEF SameSessions, Module
  <2>. QED  BY <2>2, <2>3, <2>4, <2>5, Zenon
<1>4. CASE m = "sca"
  <2>1. Pausing(m) = [mod[m] EXCEPT !.paused = TRUE]
    BY <1>4, Zenon DEF Pausing
  <2>2. Pausing(m) \in Module
    BY ZenonT(30), <1>1, <2>1 DEF Module
  <2>3. /\ Pausing(m).paused = TRUE /\ Pausing(m).allowed = mod[m].allowed
        /\ Pausing(m).lock = mod[m].lock /\ Pausing(m).scan = mod[m].scan
        /\ Pausing(m).version = mod[m].version /\ Pausing(m).call = mod[m].call
    BY <1>1, <2>1, Zenon DEF Module
  <2>4. SameSessions(Pausing(m), mod[m])
    BY <1>1, <2>1, Zenon DEF SameSessions, Module
  <2>. QED  BY <2>2, <2>3, <2>4, Zenon
<1>5. CASE m = "syscollector"
  <2>1. Pausing(m) = [mod[m] EXCEPT !.paused = TRUE, !.call = "test"]
    BY <1>5, Zenon DEF Pausing
  <2>2. Pausing(m) \in Module
    BY ZenonT(30), <1>1, <2>1 DEF Module
  <2>3. /\ Pausing(m).paused = TRUE
        /\ Pausing(m).allowed = mod[m].allowed
        /\ Pausing(m).lock = mod[m].lock
        /\ Pausing(m).scan = mod[m].scan
        /\ Pausing(m).version = mod[m].version
    BY <1>1, <2>1, ZenonT(30) DEF Module
  <2>4. SameSessions(Pausing(m), mod[m])
    BY <1>1, <2>1, ZenonT(30) DEF SameSessions, Module
  <2>. QED  BY <1>5, <2>2, <2>3, <2>4, ZenonT(30)
<1>. QED  BY <1>2, <1>3, <1>4, <1>5, ZenonT(30) DEF Modules

\* fim_execute_is_pause_completed: FIM hands its mutexes over when it can.
LEMMA AcknowledgedFields ==
  ASSUME IInv
  PROVE  /\ Acknowledged \in Module
         /\ SameSessions(Acknowledged, mod["fim"])
         /\ Acknowledged.paused = mod["fim"].paused
         /\ Acknowledged.scan = mod["fim"].scan
         /\ Acknowledged.version = mod["fim"].version
         /\ Acknowledged.call = mod["fim"].call
         /\ \/ Acknowledged = mod["fim"]
            \/ /\ Acknowledged.allowed /\ Acknowledged.lock = "coordinator"
               /\ mod["fim"].paused /\ mod["fim"].lock = "free"
<1>1. mod["fim"] \in Module
  BY Zenon DEF IInv, TypeOK, Modules
<1>2. CASE mod["fim"].paused /\ ~ mod["fim"].allowed /\ mod["fim"].lock = "free"
  <2>1. Acknowledged = [mod["fim"] EXCEPT !.allowed = TRUE, !.lock = "coordinator"]
    BY <1>2, Zenon DEF Acknowledged
  <2>. QED  BY ZenonT(30), <1>1, <1>2, <2>1 DEF SameSessions, Module
<1>3. CASE ~ (mod["fim"].paused /\ ~ mod["fim"].allowed /\ mod["fim"].lock = "free")
  BY <1>1, <1>3, Zenon DEF Acknowledged, SameSessions
<1>. QED  BY <1>2, <1>3, Zenon

\* set_version changes the version only.
LEMMA VersionedFields ==
  ASSUME IInv, NEW m \in Modules
  PROVE  /\ Versioned(m) \in Module
         /\ SameSessions(Versioned(m), mod[m])
         /\ Versioned(m).paused = mod[m].paused
         /\ Versioned(m).allowed = mod[m].allowed
         /\ Versioned(m).lock = mod[m].lock
         /\ Versioned(m).scan = mod[m].scan
         /\ Versioned(m).call = mod[m].call
         /\ Versioned(m).version \in {0, newVersion}
         /\ mod[m].version <= newVersion => mod[m].version <= Versioned(m).version
BY DEF IInv, TypeOK, Versioned, SameSessions, Module

\* fim_execute_resume gives the mutexes back if it had handed them over.
LEMMA ResumedFields ==
  ASSUME IInv, NEW m \in Modules
  PROVE  /\ Resumed(m) \in Module
         /\ SameSessions(Resumed(m), mod[m])
         /\ Resumed(m).call = mod[m].call
         /\ Resumed(m).scan = mod[m].scan
         /\ Resumed(m).version = mod[m].version
         /\ m = "fim" => /\ ~ Resumed(m).allowed
                         /\ Resumed(m).lock = IF mod[m].allowed THEN "free" ELSE mod[m].lock
<1>1. mod[m] \in Module
  BY Zenon DEF IInv, TypeOK
<1>2. CASE m = "fim" /\ mod[m].allowed
  <2>1. Resumed(m) = [mod[m] EXCEPT !.paused = FALSE, !.allowed = FALSE, !.lock = "free"]
    BY <1>2, Zenon DEF Resumed
  <2>2. Resumed(m) \in Module
    BY ZenonT(30), <1>1, <2>1 DEF Module
  <2>3. /\ Resumed(m).call = mod[m].call
        /\ Resumed(m).scan = mod[m].scan
        /\ Resumed(m).version = mod[m].version
        /\ Resumed(m).allowed = FALSE
        /\ Resumed(m).lock = "free"
    BY <1>1, <2>1, ZenonT(30) DEF Module
  <2>4. SameSessions(Resumed(m), mod[m])
    BY <1>1, <2>1, ZenonT(30) DEF SameSessions, Module
  <2>. QED  BY <1>2, <2>2, <2>3, <2>4, Zenon
<1>3. CASE ~ (m = "fim" /\ mod[m].allowed)
  <2>1. Resumed(m) = [mod[m] EXCEPT !.paused = FALSE]
    BY <1>3, Zenon DEF Resumed
  <2>. QED  BY ZenonT(30), <1>1, <1>3, <2>1 DEF SameSessions, Module
<1>. QED  BY <1>2, <1>3, Zenon

\* A query of the coordinator that fails: the module has acted on it or not.
LEMMA AskFailsRecord ==
  ASSUME IInv, NEW STATE new, AskFails(new)
  PROVE  /\ Turn = "fim" \/ step \in {"get", "set"}
         /\ mishaps' \in 0..MaxMishaps
         /\ \/ mod' = [mod EXCEPT ![Turn] = mod[Turn]]
            \/ mod' = [mod EXCEPT ![Turn] = new]
<1>1. /\ Turn = "fim" \/ step \in {"get", "set"}
      /\ mod' = mod \/ mod' = [mod EXCEPT ![Turn] = new]
  BY Zenon DEF AskFails
<1>2. mod = [mod EXCEPT ![Turn] = mod[Turn]]
  BY Zenon DEF IInv, TypeOK
<1>3. mishaps' \in 0..MaxMishaps
  BY MishapType, Zenon DEF AskFails, IInv
<1>. QED  BY <1>1, <1>2, <1>3, Zenon

\* What giving up leads to.
LEMMA ResumeAllInv ==
  ASSUME IInv, NEW STATE ms, NEW t \in Modules, NEW STATE r, r \in Module,
         mod' = [mod EXCEPT ![t] = r], SameSessions(r, mod[t]), Mutexes',
         r.call = mod[t].call,
         ms \subseteq enabled, ResumeAll(ms, "failed"), NotFlushing, mishaps' \in 0..MaxMishaps
  PROVE  IInv'
<1>. USE DEF NotFlushing, OutsideCoordination, ghosts, stored
<1>1. \A m \in Modules : ~ Asked(m)'
  BY Zenon DEF Asked, ResumeAll
<1>2. /\ mod' \in [Modules -> Module]
      /\ mod'[t] = r /\ \A m \in Modules \ {t} : mod'[m] = mod[m]
      /\ \A m \in Modules : Sessions(m)' /\ Flushes(m)' /\ Owed(m)'
  BY <1>1, QueryInv, Zenon
<1>3. TypeOK'
  BY <1>2, CoordinationAssumption, Zenon DEF IInv, TypeOK, ResumeAll
<1>4. Phases' /\ Held'
  <2>1. mod'["syscollector"].call = mod["syscollector"].call
    BY <1>2, Zenon DEF Modules
  <2>. QED  BY <2>1, Zenon DEF IInv, Phases, Held, ResumeAll, Changes
<1>. QED  BY <1>2, <1>3, <1>4, Zenon DEF IInv

\* pauseCoordinationModules asks a module to pause.
LEMMA PauseModuleInv ==
  ASSUME IInv, PauseModule
  PROVE  IInv'
<1>. DEFINE t == Turn
<1>0. /\ t \in Modules /\ t \in enabled /\ mod \in [Modules -> Module] /\ Mutexes
      /\ step = "pause" /\ outcome = "none" /\ paused \subseteq enabled
      /\ NotFlushing
  BY TurnInTodo, Zenon DEF PauseModule, IInv, TypeOK, Phases
<1>1. /\ Pausing(t) \in Module /\ SameSessions(Pausing(t), mod[t])
      /\ Pausing(t).paused /\ Pausing(t).allowed = mod[t].allowed
      /\ Pausing(t).lock = mod[t].lock /\ Pausing(t).scan = mod[t].scan
      /\ Pausing(t).version = mod[t].version
      /\ t # "syscollector" => Pausing(t).call = mod[t].call
  BY <1>0, PausingFields, Zenon
<1>2. CASE /\ Ask(Pausing(t))
           /\ step' = IF Turn = "fim" THEN "fimpoll" ELSE "pausing"
           /\ UNCHANGED <<todo, paused, newVersion, outcome>>
  <2>1. mod' = [mod EXCEPT ![t] = Pausing(t)] /\ mishaps' = mishaps
    BY <1>2, Zenon DEF Ask, Smooth
  <2>2. \A m \in Modules : ~ Asked(m)'
    BY <1>0, <1>2, Zenon DEF Asked
  <2>3. /\ mod' \in [Modules -> Module]
        /\ mod'[t] = Pausing(t) /\ \A m \in Modules \ {t} : mod'[m] = mod[m]
        /\ \A m \in Modules : Sessions(m)' /\ Flushes(m)' /\ Owed(m)'
    <3>1. owed' = owed /\ joined' = joined
      BY <1>0, Zenon DEF NotFlushing, ghosts
    <3>. QED  BY ZenonT(30), <1>0, <1>1, <2>1, <2>2, <3>1, QueryInv
  <2>4. Mutexes'
    BY <1>0, <1>1, <2>3 DEF Mutexes, SameSessions, Modules
  <2>5. TypeOK'
    BY <1>0, <1>2, <2>1, <2>3, Zenon DEF IInv, TypeOK, NotFlushing, OutsideCoordination, ghosts,
       stored
  <2>6. Phases'
    <3>1. mod'["syscollector"].call # "none" => "syscollector" \in enabled
      BY <1>0, <1>1, <2>3, Zenon DEF IInv, Phases, Modules
    <3>2. Turn = "fim" => mod'["fim"].paused
      BY <1>1, <2>3, Zenon
    <3>. QED  BY <1>0, <1>2, <3>1, <3>2, Zenon DEF IInv, Phases, Turn, Changes, NotFlushing,
                 OutsideCoordination, stored
  <2>7. Held'
    <3>1. mod'["fim"].allowed = mod["fim"].allowed
      BY <1>1, <2>3, Zenon DEF Modules
    <3>. QED  BY <1>0, <1>2, <3>1, Zenon DEF IInv, Held
  <2>. QED  BY <2>3, <2>4, <2>5, <2>6, <2>7, ZenonT(30) DEF IInv
<1>3. CASE AskFails(Pausing(t)) /\ ResumeAll(paused, "failed")
  <2>1. /\ t = "fim" /\ mishaps' \in 0..MaxMishaps
        /\ \/ mod' = [mod EXCEPT ![t] = mod[t]]
           \/ mod' = [mod EXCEPT ![t] = Pausing(t)]
    BY <1>0, <1>3, AskFailsRecord, Zenon
  <2>2. CASE mod' = [mod EXCEPT ![t] = mod[t]]
    <3>1. Mutexes' /\ SameSessions(mod[t], mod[t])
      BY <1>0, <2>2 DEF Mutexes, SameSessions
    <3>. QED  BY <1>0, <1>3, <2>1, <2>2, <3>1, ResumeAllInv, Zenon
  <2>3. CASE mod' = [mod EXCEPT ![t] = Pausing(t)]
    <3>1. mod'["fim"] = Pausing(t)
      BY <1>0, <2>1, <2>3, Zenon
    <3>2. Mutexes'
      BY <1>0, <1>1, <2>1, <3>1 DEF Mutexes, SameSessions
    <3>. QED  BY ZenonT(30), <1>0, <1>1, <1>3, <2>1, <2>3, <3>2, ResumeAllInv
  <2>. QED  BY <2>1, <2>2, <2>3, Zenon
<1>. QED  BY <1>2, <1>3, Zenon DEF PauseModule

\* pollFimPauseCompletion: FIM joins the paused modules with its mutexes
\* handed over, or is given up.
LEMMA PollFimPauseInv ==
  ASSUME IInv, PollFimPause
  PROVE  IInv'
<1>0. /\ "fim" \in Modules /\ "fim" \in enabled /\ mod \in [Modules -> Module] /\ Mutexes
      /\ step = "fimpoll" /\ outcome = "none" /\ paused \subseteq enabled
      /\ mod["fim"].paused /\ NotFlushing
  BY Zenon DEF PollFimPause, IInv, TypeOK, Phases, Modules
<1>1. /\ Acknowledged \in Module /\ SameSessions(Acknowledged, mod["fim"])
      /\ Acknowledged.paused = mod["fim"].paused /\ Acknowledged.scan = mod["fim"].scan
      /\ Acknowledged.version = mod["fim"].version
      /\ Acknowledged.call = mod["fim"].call
      /\ \/ Acknowledged = mod["fim"]
         \/ /\ Acknowledged.allowed /\ Acknowledged.lock = "coordinator"
            /\ mod["fim"].paused /\ mod["fim"].lock = "free"
  BY AcknowledgedFields, Zenon
<1>. DEFINE Stay == UNCHANGED <<step, todo, paused, newVersion, outcome>>
            Agree == PauseAgreed("fim") /\ mod' = [mod EXCEPT !["fim"] = Acknowledged]
                       /\ PauseCompleted(Acknowledged)
            GiveUp == ResumeAll(paused \cup {"fim"}, "failed")
<1>2. /\ mishaps' \in 0..MaxMishaps
      /\ \/ mod' = [mod EXCEPT !["fim"] = mod["fim"]]
         \/ mod' = [mod EXCEPT !["fim"] = Acknowledged]
  <2>1. CASE AskFails(Acknowledged)
    BY <1>0, <2>1, AskFailsRecord, Zenon
  <2>2. CASE Set("fim", Acknowledged) /\ (Smooth \/ Mishap("slow"))
    BY <2>2, MishapType, Zenon DEF Set, IInv
  <2>. QED  BY <2>1, <2>2, Zenon DEF PollFimPause, PollAgain
<1>3. Stay \/ Agree \/ GiveUp
  BY Zenon DEF PollFimPause, PollAgain, Set
<1>4. Mutexes'
  <2>1. CASE mod' = [mod EXCEPT !["fim"] = mod["fim"]]
    BY <1>0, <2>1, Zenon DEF Mutexes
  <2>2. CASE mod' = [mod EXCEPT !["fim"] = Acknowledged]
    <3>1. mod'["fim"] = Acknowledged
      BY <1>0, <2>2, Zenon
    <3>2. CASE Acknowledged = mod["fim"]
      BY <1>0, <3>1, <3>2 DEF Mutexes
    <3>3. CASE /\ Acknowledged.allowed /\ Acknowledged.lock = "coordinator"
               /\ mod["fim"].paused /\ mod["fim"].lock = "free"
      <4>1. mod["fim"].scan = "idle" /\ mod["fim"].sync # "repair"
        BY <1>0, <3>3, ZenonT(30) DEF Mutexes
      <4>2. Acknowledged.scan = "idle" /\ Acknowledged.sync # "repair" /\ Acknowledged.paused
        BY <1>0, <1>1, <4>1, ZenonT(30) DEF SameSessions
      <4>. QED  BY <3>1, <3>3, <4>2, ZenonT(30) DEF Mutexes
    <3>. QED  BY <1>1, <3>2, <3>3, ZenonT(30)
  <2>. QED  BY <1>2, <2>1, <2>2, ZenonT(30)
<1>5. ASSUME GiveUp PROVE IInv'
  <2>1. paused \cup {"fim"} \subseteq enabled /\ SameSessions(mod["fim"], mod["fim"])
    BY <1>0, Zenon DEF SameSessions
  <2>2. CASE mod' = [mod EXCEPT !["fim"] = mod["fim"]]
    BY <1>0, <1>2, <1>4, <1>5, <2>1, <2>2, ResumeAllInv, Zenon
  <2>3. CASE mod' = [mod EXCEPT !["fim"] = Acknowledged]
    BY <1>0, <1>1, <1>2, <1>4, <1>5, <2>1, <2>3, ResumeAllInv, Zenon
  <2>. QED  BY <1>2, <2>2, <2>3, ZenonT(30)
<1>6. ASSUME Stay \/ Agree PROVE IInv'
  <2>1. \A m \in Modules : ~ Asked(m)'
    BY <1>0, <1>6, Zenon DEF Asked, PauseAgreed
  <2>2. owed' = owed /\ joined' = joined
    BY <1>0, Zenon DEF NotFlushing, ghosts
  <2>3. /\ mod' \in [Modules -> Module]
        /\ \A m \in Modules \ {"fim"} : mod'[m] = mod[m]
        /\ mod'["fim"].paused
        /\ \A m \in Modules : Sessions(m)' /\ Flushes(m)' /\ Owed(m)'
    <3>1. CASE mod' = [mod EXCEPT !["fim"] = mod["fim"]]
      <4>1. SameSessions(mod["fim"], mod["fim"])
        BY Zenon DEF SameSessions
      <4>. QED  BY ZenonT(30), <1>0, <2>1, <2>2, <3>1, <4>1, QueryInv
    <3>2. CASE mod' = [mod EXCEPT !["fim"] = Acknowledged]
      BY ZenonT(30), <1>0, <1>1, <2>1, <2>2, <3>2, QueryInv
    <3>. QED  BY <1>2, <3>1, <3>2, ZenonT(30)
  <2>4. TypeOK'
    BY <1>0, <1>2, <1>6, <2>3, ZenonT(30) DEF IInv, TypeOK, PauseAgreed, Rest, NotFlushing,
       OutsideCoordination, ghosts, stored
  <2>5. Phases'
    <3>1. mod'["syscollector"].call = mod["syscollector"].call
      BY <2>3, Zenon DEF Modules
    <3>. QED  BY <1>0, <1>6, <2>3, <3>1, ZenonT(30) DEF IInv, Phases, PauseAgreed, Changes,
                 NotFlushing, OutsideCoordination, stored
  <2>6. Held'
    <3>1. CASE Agree
      <4>1. Acknowledged.allowed /\ mod'["fim"] = Acknowledged
        BY <1>0, <1>1, <3>1, ZenonT(30) DEF PauseCompleted
      <4>. QED  BY <3>1, <4>1, ZenonT(30) DEF Held, PauseAgreed
    <3>2. CASE Stay
      BY <1>0, <3>2, Zenon DEF Held
    <3>. QED  BY <1>6, <3>1, <3>2, ZenonT(30)
  <2>. QED  BY <1>4, <2>3, <2>4, <2>5, <2>6, ZenonT(30) DEF IInv
<1>. QED  BY <1>3, <1>5, <1>6, Zenon

\* Syscollector's pause(), which answers when both flags were seen down.
LEMMA SysPauseInv ==
  ASSUME IInv, SysPauseTest \/ SysPauseSleep
  PROVE  IInv'
<1>. DEFINE t == "syscollector"
<1>0. /\ t \in Modules /\ t \in enabled /\ mod \in [Modules -> Module] /\ Mutexes
      /\ step = "pausing" /\ outcome = "none" /\ paused \subseteq enabled
      /\ NotFlushing /\ mishaps' = mishaps
  BY Zenon DEF SysPauseTest, SysPauseSleep, IInv, TypeOK, Phases, Modules
<1>1. PICK c \in {"none", "doze", "asleep"} : mod' = [mod EXCEPT ![t] = [mod[t] EXCEPT !.call = c]]
  BY Zenon DEF SysPauseTest, SysPauseSleep, Set
<1>2. \/ UNCHANGED <<step, todo, paused, newVersion, outcome>>
      \/ PauseAgreed(t)
  BY Zenon DEF SysPauseTest, SysPauseSleep
<1>3. /\ [mod[t] EXCEPT !.call = c] \in Module
      /\ SameSessions([mod[t] EXCEPT !.call = c], mod[t])
  BY <1>0 DEF Module, SameSessions
<1>4. \A m \in Modules : ~ Asked(m)'
  BY <1>0, <1>2, Zenon DEF Asked, PauseAgreed
<1>5. /\ mod' \in [Modules -> Module]
      /\ \A m \in Modules \ {t} : mod'[m] = mod[m]
      /\ \A m \in Modules : Sessions(m)' /\ Flushes(m)' /\ Owed(m)'
  <2>1. owed' = owed /\ joined' = joined
    BY <1>0, Zenon DEF NotFlushing, ghosts
  <2>. QED  BY <1>0, <1>1, <1>3, <1>4, <2>1, QueryInv, ZenonT(30)
<1>6. mod'["fim"] = mod["fim"]
  BY <1>5, Zenon DEF Modules
<1>7. TypeOK'
  BY <1>0, <1>2, <1>5, ZenonT(30) DEF IInv, TypeOK, PauseAgreed, Rest, NotFlushing,
     OutsideCoordination, ghosts, stored
<1>8. Phases'
  BY <1>0, <1>2, <1>6, Zenon DEF IInv, Phases, PauseAgreed, Turn, Changes, NotFlushing,
     OutsideCoordination, stored
<1>9. Mutexes' /\ Held'
  BY <1>0, <1>2, <1>6 DEF IInv, Mutexes, Held, PauseAgreed
<1>. QED  BY <1>5, <1>7, <1>8, <1>9, ZenonT(30) DEF IInv

\* A query that fails, and has done new or nothing, is given up.
LEMMA AskFailsInv ==
  ASSUME IInv, NEW t \in Modules, t = Turn,
         NEW STATE new, new \in Module, SameSessions(new, mod[t]),
         /\ new.call = mod[t].call /\ new.paused = mod[t].paused
         /\ new.allowed = mod[t].allowed /\ new.lock = mod[t].lock
         /\ new.scan = mod[t].scan,
         AskFails(new), ResumeAll(paused, "failed"), NotFlushing
  PROVE  IInv'
<1>0. /\ mod \in [Modules -> Module] /\ Mutexes
      /\ paused \subseteq enabled /\ SameSessions(mod[t], mod[t])
  BY Zenon DEF IInv, TypeOK, SameSessions
<1>1. /\ mishaps' \in 0..MaxMishaps
      /\ \/ mod' = [mod EXCEPT ![t] = mod[t]]
         \/ mod' = [mod EXCEPT ![t] = new]
  BY AskFailsRecord, Zenon
<1>2. CASE mod' = [mod EXCEPT ![t] = mod[t]]
  <2>1. mod' = mod
    BY <1>0, <1>2, Zenon
  <2>2. Mutexes'
    BY <1>0, <2>1, Zenon DEF Mutexes
  <2>. QED  BY ZenonT(30), <1>0, <1>1, <1>2, <2>2, ResumeAllInv
<1>3. CASE mod' = [mod EXCEPT ![t] = new]
  <2>1. mod'[t] = new /\ \A m \in Modules \ {t} : mod'[m] = mod[m]
    BY <1>0, <1>3, Zenon
  <2>2. CASE t = "fim"
    <3>1. Mutexes'
      BY <1>0, <2>1, <2>2, ZenonT(30) DEF Mutexes, SameSessions
    <3>. QED  BY ZenonT(30), <1>0, <1>1, <1>3, <3>1, ResumeAllInv
  <2>3. CASE t # "fim"
    <3>1. mod'["fim"] = mod["fim"]
      BY <2>1, <2>3, Zenon DEF Modules
    <3>2. Mutexes'
      BY <1>0, <3>1 DEF Mutexes
    <3>. QED  BY ZenonT(30), <1>0, <1>1, <1>3, <3>2, ResumeAllInv
  <2>. QED  BY <2>2, <2>3, Zenon
<1>. QED  BY <1>1, <1>2, <1>3, Zenon

\* calculateNewVersion: the maximum so far is not below FIM's version
\* once FIM has been asked.
LEMMA GetVersionInv ==
  ASSUME IInv, GetVersion
  PROVE  IInv'
<1>0. /\ Turn \in Modules /\ Turn \in todo /\ mod \in [Modules -> Module]
      /\ step = "get" /\ outcome = "none" /\ todo \subseteq paused /\ paused \subseteq enabled
      /\ NotFlushing /\ paused \subseteq Modules
  BY TurnInTodo, CoordinationAssumption, Zenon DEF GetVersion, IInv, TypeOK, Phases
<1>1. CASE /\ Ask(mod[Turn])
           /\ IF Rest = {}
              THEN /\ newVersion' = Max2(newVersion, mod[Turn].version) + Increment
                   /\ step' = "set"
                   /\ todo' = paused
              ELSE /\ newVersion' = Max2(newVersion, mod[Turn].version)
                   /\ todo' = Rest
                   /\ UNCHANGED step
           /\ UNCHANGED <<paused, outcome>>
  <2>1. mod' = mod /\ mishaps' = mishaps
    BY <1>0, <1>1, Zenon DEF Ask, Smooth
  <2>2. /\ newVersion \in Nat /\ newVersion' \in Nat
        /\ newVersion <= newVersion' /\ mod[Turn].version <= newVersion'
    <3>1. newVersion \in Nat /\ mod[Turn].version \in Nat /\ Increment \in {0, 1}
      BY <1>0, Zenon DEF IInv, TypeOK, Module, Increment
    <3>2. /\ Max2(newVersion, mod[Turn].version) \in Nat
          /\ newVersion <= Max2(newVersion, mod[Turn].version)
          /\ mod[Turn].version <= Max2(newVersion, mod[Turn].version)
      BY <3>1 DEF Max2
    <3>. QED  BY <1>1, <3>1, <3>2, SMTT(30)
  <2>3. TypeOK'
    BY <1>0, <1>1, <2>1, <2>2, ZenonT(30) DEF IInv, TypeOK, Rest, NotFlushing,
       OutsideCoordination, ghosts, stored
  <2>4. Phases'
    BY <1>0, <1>1, <2>1, ZenonT(30) DEF IInv, Phases, Rest, Changes, NotFlushing,
       OutsideCoordination, stored
  <2>5. Held'
    <3>. SUFFICES ASSUME "fim" \in paused
                  PROVE  /\ mod["fim"].allowed
                         /\ "fim" \notin todo' \/ step' = "set" =>
                              "events" \in Faults \/ mod["fim"].version <= newVersion'
      BY <1>1, <2>1, Zenon DEF Held
    <3>1. /\ mod["fim"].allowed
          /\ "fim" \notin todo => "events" \in Faults \/ mod["fim"].version <= newVersion
      BY <1>0, Zenon DEF IInv, Held
    <3>2. mod["fim"].version \in Nat
      BY <1>0, Zenon DEF Module, Modules
    <3>3. "fim" \in todo => Turn = "fim"
      BY Zenon DEF Turn
    <3>4. CASE "fim" \in todo
      BY <2>2, <3>1, <3>3, <3>4, ZenonT(30)
    <3>5. CASE "fim" \notin todo
      BY <2>2, <3>1, <3>2, <3>5
    <3>. QED  BY <3>4, <3>5, Zenon
  <2>6. \A m \in Modules : ~ Asked(m)'
    BY <1>0, <1>1, Zenon DEF Asked
  <2>. QED  BY <2>1, <2>3, <2>4, <2>5, <2>6, SameModules, ZenonT(30)
<1>2. CASE AskFails(mod[Turn]) /\ ResumeAll(paused, "failed")
  <2>0. PICK t \in Modules : t = Turn
    BY <1>0, Zenon
  <2>1. mod[t] \in Module /\ SameSessions(mod[t], mod[t]) /\ AskFails(mod[t])
    BY <1>0, <1>2, <2>0, Zenon DEF SameSessions
  <2>. QED  BY <1>0, <1>2, <2>0, <2>1, AskFailsInv, Zenon
<1>. QED  BY <1>1, <1>2, Zenon DEF GetVersion

\* set_version with the maximum plus one.
LEMMA SetVersionInv ==
  ASSUME IInv, SetVersion
  PROVE  IInv'
<1>0. /\ Turn \in Modules /\ Turn \in todo /\ mod \in [Modules -> Module] /\ Mutexes
      /\ step = "set" /\ outcome = "none" /\ todo \subseteq paused /\ paused \subseteq enabled
      /\ NotFlushing /\ paused \subseteq Modules /\ newVersion \in Nat
  BY TurnInTodo, CoordinationAssumption, Zenon DEF SetVersion, IInv, TypeOK, Phases
<1>. DEFINE r == Versioned(Turn)
<1>1. /\ r \in Module /\ SameSessions(r, mod[Turn])
      /\ r.paused = mod[Turn].paused /\ r.allowed = mod[Turn].allowed
      /\ r.lock = mod[Turn].lock /\ r.scan = mod[Turn].scan
      /\ r.call = mod[Turn].call /\ r.version \in {0, newVersion}
  BY <1>0, VersionedFields, Zenon
<1>2. CASE Ask(Versioned(Turn)) /\ Proceed("flush")
  <2>1. mod' = [mod EXCEPT ![Turn] = r] /\ mishaps' = mishaps
    BY <1>2, Zenon DEF Ask, Smooth
  <2>2. \A m \in Modules : ~ Asked(m)'
    BY <1>0, <1>2, Zenon DEF Asked, Proceed
  <2>3. /\ mod' \in [Modules -> Module]
        /\ mod'[Turn] = r /\ \A m \in Modules \ {Turn} : mod'[m] = mod[m]
        /\ \A m \in Modules : Sessions(m)' /\ Flushes(m)' /\ Owed(m)'
    <3>1. owed' = owed /\ joined' = joined
      BY <1>0, Zenon DEF NotFlushing, ghosts
    <3>. QED  BY ZenonT(30), <1>0, <1>1, <2>1, <2>2, <3>1, QueryInv
  <2>4. Mutexes'
    BY <1>0, <1>1, <2>3, SMTT(30) DEF Mutexes, SameSessions, Modules
  <2>5. TypeOK'
    BY <1>0, <1>2, <2>1, <2>3, Zenon DEF IInv, TypeOK, Proceed, Rest, NotFlushing,
       OutsideCoordination, ghosts, stored
  <2>6. Phases'
    <3>1. mod'["syscollector"].call = mod["syscollector"].call
      BY <1>1, <2>3, Zenon DEF Modules
    <3>. QED  BY <1>0, <1>2, <3>1, Zenon DEF IInv, Phases, Proceed, Rest, Changes, NotFlushing,
                 OutsideCoordination, stored
  <2>7. Held'
    <3>1. mod'["fim"].allowed = mod["fim"].allowed
      BY <1>1, <2>3, Zenon DEF Modules
    <3>2. mod'["fim"].version \in {0, newVersion, mod["fim"].version}
      BY <1>1, <2>3, Zenon DEF Modules
    <3>3. mod["fim"].version <= newVersion => mod'["fim"].version <= newVersion
      BY <1>0, <3>2
    <3>4. "fim" \in paused =>
            mod["fim"].allowed /\ ("events" \in Faults \/ mod["fim"].version <= newVersion)
      BY <1>0, Zenon DEF IInv, Held
    <3>5. newVersion' = newVersion /\ paused' = paused /\ step' \in {"set", "flush"}
      BY <1>0, <1>2, Zenon DEF Proceed
    <3>. QED  BY <3>1, <3>3, <3>4, <3>5, Zenon DEF Held
  <2>. QED  BY <2>3, <2>4, <2>5, <2>6, <2>7, ZenonT(30) DEF IInv
<1>3. CASE AskFails(Versioned(Turn)) /\ ResumeAll(paused, "failed")
  <2>0. PICK t \in Modules : t = Turn
    BY <1>0, Zenon
  <2>. QED  BY <1>0, <1>1, <1>3, <2>0, AskFailsInv, ZenonT(30)
<1>. QED  BY <1>2, <1>3, Zenon DEF SetVersion

-----------------------------------------------------------------------------
(* The flush, the resume and the restart of the agent, and the theorems *)

\* Requesting a flush keeps a module a module.
LEMMA FlushTypes ==
  ASSUME NEW r \in Module
  PROVE  /\ [r EXCEPT !.flush = "running", !.worker = "call"] \in Module
         /\ [r EXCEPT !.flush = "running", !.worker = r.worker] \in Module
<1>1. r.worker \in {"none", "call", "session"}
  BY Zenon DEF Module
<1>2. \A w \in {"none", "call", "session"} : [r EXCEPT !.flush = "running", !.worker = w] \in Module
  <2>1. \A q \in Module, w \in {"none", "call", "session"} : [q EXCEPT !.worker = w] \in Module
    BY DEF Module
  <2>. QED  BY <2>1, FieldTypes, ZenonT(30)
<1>. QED  BY <1>1, <1>2, Zenon

\* A flush request touches neither the sessions nor the mutexes.
LEMMA FlushRequestedFields ==
  ASSUME IInv, NEW m \in Modules
  PROVE  /\ FlushRequested(m) \in Module
         /\ FlushRequested(m).flush = "running"
         /\ FlushRequested(m).worker =
              IF m # "fim" /\ mod[m].flush # "running" THEN "call" ELSE mod[m].worker
         /\ FlushRequested(m).sync = mod[m].sync
         /\ FlushRequested(m).detected = mod[m].detected
         /\ FlushRequested(m).open = mod[m].open
         /\ FlushRequested(m).batch = mod[m].batch
         /\ FlushRequested(m).rows = mod[m].rows
         /\ FlushRequested(m).sent = mod[m].sent
         /\ FlushRequested(m).paused = mod[m].paused
         /\ FlushRequested(m).allowed = mod[m].allowed
         /\ FlushRequested(m).lock = mod[m].lock
         /\ FlushRequested(m).scan = mod[m].scan
         /\ FlushRequested(m).call = mod[m].call
         /\ FlushRequested(m).version = mod[m].version
<1>1. mod[m] \in Module
  BY Zenon DEF IInv, TypeOK
<1>2. CASE m # "fim" /\ mod[m].flush # "running"
  <2>1. FlushRequested(m) = [mod[m] EXCEPT !.flush = "running", !.worker = "call"]
    BY <1>2, Zenon DEF FlushRequested
  <2>2. FlushRequested(m) \in Module
    BY ZenonT(30), <1>1, <2>1, FlushTypes
  <2>. QED  BY <1>1, <1>2, <2>1, <2>2, SMTT(30) DEF Module
<1>3. CASE ~ (m # "fim" /\ mod[m].flush # "running")
  <2>1. FlushRequested(m) = [mod[m] EXCEPT !.flush = "running", !.worker = mod[m].worker]
    BY ZenonT(30), <1>3 DEF FlushRequested
  <2>2. FlushRequested(m) \in Module
    BY <1>1, <2>1, FlushTypes, ZenonT(30)
  <2>. QED  BY <1>1, <1>3, <2>1, <2>2, SMTT(30) DEF Module
<1>. QED  BY <1>2, <1>3, Zenon

\* triggerModuleFlush: what is pending now is owed from here on.
LEMMA TriggerFlushInv ==
  ASSUME IInv, TriggerFlush
  PROVE  IInv'
<1>t. PICK t \in Modules : t = Turn
  BY TurnInTodo, Zenon DEF TriggerFlush, IInv, TypeOK, Phases
<1>0. /\ t \in Modules /\ t \in todo /\ mod \in [Modules -> Module] /\ Mutexes
      /\ step = "flush" /\ outcome = "none" /\ todo \subseteq paused /\ paused \subseteq enabled
      /\ OutsideCoordination /\ paused \subseteq Modules
      /\ Sessions(t) /\ Flushes(t) /\ mod[t] \in Module
  BY <1>t, TurnInTodo, CoordinationAssumption, Zenon DEF TriggerFlush, IInv, TypeOK, Phases
<1>. DEFINE r == FlushRequested(t)
<1>1. /\ r \in Module /\ r.flush = "running"
      /\ r.worker = IF t # "fim" /\ mod[t].flush # "running" THEN "call" ELSE mod[t].worker
      /\ r.sync = mod[t].sync /\ r.detected = mod[t].detected /\ r.open = mod[t].open
      /\ r.batch = mod[t].batch /\ r.rows = mod[t].rows /\ r.sent = mod[t].sent
      /\ r.paused = mod[t].paused /\ r.allowed = mod[t].allowed /\ r.lock = mod[t].lock
      /\ r.scan = mod[t].scan /\ r.call = mod[t].call /\ r.version = mod[t].version
  BY <1>0, FlushRequestedFields, Zenon
<1>. HIDE DEF r
<1>2. /\ owed' \in [Modules -> 0..MaxRows] /\ joined' \subseteq enabled
      /\ owed'[t] = mod[t].rows /\ \A m \in Modules \ {t} : owed'[m] = owed[m]
      /\ joined \subseteq joined' /\ (t \notin joined' => mod[t].flush # "running")
  BY <1>0, <1>t, ZenonT(30) DEF TriggerFlush, IInv, TypeOK, Module
<1>3. \/ /\ mod' = [mod EXCEPT ![t] = r]
         /\ IF Rest = {} THEN ResumeAll(paused, "flushed") ELSE Proceed("flush")
         /\ mishaps' \in 0..MaxMishaps
      \/ /\ mod' = [mod EXCEPT ![t] = r]
         /\ ResumeAll(paused, "failed")
         /\ mishaps' \in 0..MaxMishaps
      \/ /\ mod' = mod
         /\ ResumeAll(paused, "failed")
         /\ mishaps' \in 0..MaxMishaps
  <2>1. CASE Ask(FlushRequested(Turn))
             /\ IF Rest = {} THEN ResumeAll(paused, "flushed") ELSE Proceed("flush")
    BY <1>t, <2>1, Zenon DEF Ask, Smooth, IInv, TypeOK, r
  <2>2. CASE AskFails(FlushRequested(Turn)) /\ ResumeAll(paused, "failed")
    <3>1. mishaps' \in 0..MaxMishaps
      BY <2>2, AskFailsRecord, Zenon
    <3>. QED  BY <1>t, <2>2, <3>1, Zenon DEF AskFails, r
  <2>. QED  BY <2>1, <2>2, Zenon DEF TriggerFlush
<1>4. /\ mod' \in [Modules -> Module] /\ \A m \in Modules \ {t} : mod'[m] = mod[m]
      /\ mod'[t] \in {r, mod[t]}
  BY <1>0, <1>1, <1>3, Zenon
<1>5. \A m \in Modules : Sessions(m)' /\ Flushes(m)'
  <2>1. mod'[t].flush = "running" \/ mod'[t] = mod[t]
    BY <1>1, <1>4, Zenon
  <2>2. CASE mod'[t] = r
    <3>1. Sessions(t)'
      BY <1>0, <1>1, <2>2, ZenonT(30) DEF Sessions, Flushes
    <3>2. Flushes(t)'
      BY <1>0, <1>1, <2>2, ZenonT(30) DEF Flushes
    <3>3. \A m \in Modules \ {t} : Sessions(m)' /\ Flushes(m)'
      BY <1>4 DEF IInv, Sessions, Flushes
    <3>. QED  BY <3>1, <3>2, <3>3, ZenonT(30)
  <2>3. CASE mod'[t] = mod[t]
    BY <1>4, <2>3 DEF IInv, Sessions, Flushes
  <2>. QED  BY <1>4, <2>2, <2>3, ZenonT(30)
<1>6. /\ mod'["fim"].allowed = mod["fim"].allowed /\ mod'["fim"].paused = mod["fim"].paused
      /\ mod'["fim"].lock = mod["fim"].lock /\ mod'["fim"].scan = mod["fim"].scan
      /\ mod'["fim"].sync = mod["fim"].sync
      /\ mod'["syscollector"].call = mod["syscollector"].call
  BY <1>1, <1>4, ZenonT(30) DEF Modules
<1>7. Mutexes'
  BY <1>0, <1>6, Zenon DEF Mutexes
<1>8. TypeOK'
  BY <1>0, <1>t, <1>2, <1>3, <1>4, ZenonT(30) DEF IInv, TypeOK, ResumeAll, Proceed, Rest,
     OutsideCoordination, stored
<1>9. Phases'
  BY <1>0, <1>t, <1>3, <1>6, ZenonT(30) DEF IInv, Phases, ResumeAll, Proceed, Rest, Changes,
     OutsideCoordination, stored
<1>10. Held'
  BY <1>0, <1>3, <1>6, ZenonT(30) DEF IInv, Held, ResumeAll, Proceed
<1>11. ASSUME NEW m \in Modules PROVE Owed(m)'
  <2>. SUFFICES ASSUME Asked(m)', m \notin joined'
                PROVE  /\ owed'[m] <= mod'[m].rows
                       /\ Answers(m)' => owed'[m] <= mod'[m].batch
                       /\ mod'[m].flush = "succeeded" => owed'[m] <= mod'[m].sent
                       /\ step' \notin {"poll", "session"}
    BY Zenon DEF Owed
  <2>1. /\ mod' = [mod EXCEPT ![t] = r]
        /\ IF Rest = {} THEN ResumeAll(paused, "flushed") ELSE Proceed("flush")
    BY <1>3, Zenon DEF Asked, ResumeAll
  <2>2. step' \notin {"poll", "session"}
    BY <1>0, <2>1, Zenon DEF ResumeAll, Proceed
  <2>3. CASE m = t
    <3>1. mod'[t] = r /\ mod[t].flush # "running" /\ mod[t].rows \in Nat
      BY <1>0, <1>2, <2>1, <2>3, SMTT(30) DEF Module
    <3>2. ~ Answers(m)'
      BY <1>0, <1>1, <2>3, <3>1, Zenon DEF Answers, Flushes
    <3>. QED  BY <1>1, <1>2, <2>2, <2>3, <3>1, <3>2, SMTT(30)
  <2>4. CASE m # t
    <3>1. Asked(m) /\ m \notin joined
      BY <1>0, <1>t, <1>2, <2>1, <2>4, ZenonT(30) DEF Asked, ResumeAll, Proceed, Rest
    <3>2. mod'[m] = mod[m] /\ owed'[m] = owed[m]
      BY <1>2, <1>4, <2>4, ZenonT(30)
    <3>. QED  BY <2>2, <3>1, <3>2, ZenonT(30) DEF IInv, Owed, Answers
  <2>. QED  BY <2>3, <2>4, Zenon
<1>. QED  BY <1>5, <1>7, <1>8, <1>9, <1>10, <1>11, ZenonT(30) DEF IInv

\* resumePausedModules gives FIM its mutexes back.
LEMMA ResumeModuleInv ==
  ASSUME IInv, ResumeModule
  PROVE  IInv'
<1>t. PICK t \in Modules : t = Turn
  BY TurnInTodo, Zenon DEF ResumeModule, IInv, TypeOK, Phases
<1>0. /\ mod \in [Modules -> Module] /\ Mutexes /\ mod[t] \in Module
      /\ step = "resume" /\ step' = "resume" /\ todo \subseteq paused /\ todo' \subseteq todo
      /\ UNCHANGED <<paused, newVersion, outcome>> /\ NotFlushing
  BY Zenon DEF ResumeModule, IInv, TypeOK, Phases, Rest
<1>. DEFINE r == Resumed(t)
<1>1. /\ r \in Module /\ SameSessions(r, mod[t]) /\ r.call = mod[t].call
      /\ r.scan = mod[t].scan /\ r.version = mod[t].version
      /\ t = "fim" => /\ ~ r.allowed
                      /\ r.lock = IF mod[t].allowed THEN "free" ELSE mod[t].lock
  BY ResumedFields, Zenon
<1>. HIDE DEF r
<1>2. /\ mishaps' \in 0..MaxMishaps
      /\ mod' = [mod EXCEPT ![t] = mod[t]] \/ mod' = [mod EXCEPT ![t] = r]
  <2>1. CASE Ask(Resumed(Turn))
    BY <1>t, <2>1, ZenonT(30) DEF Ask, Smooth, IInv, TypeOK, r
  <2>2. CASE AskFails(Resumed(Turn))
    BY <1>t, <2>2, AskFailsRecord, ZenonT(30) DEF r
  <2>. QED  BY <2>1, <2>2, ZenonT(30) DEF ResumeModule
<1>3. /\ mod' \in [Modules -> Module]
      /\ mod'[t] \in {r, mod[t]} /\ \A m \in Modules \ {t} : mod'[m] = mod[m]
      /\ \A m \in Modules : Sessions(m)' /\ Flushes(m)' /\ Owed(m)'
  <2>1. owed' = owed /\ joined' = joined
    BY <1>0, ZenonT(30) DEF NotFlushing, ghosts
  <2>2. \A m \in Modules : Asked(m)' => Asked(m) /\ step' \notin {"poll", "session"}
    BY <1>0, ZenonT(30) DEF Asked
  <2>3. CASE mod' = [mod EXCEPT ![t] = mod[t]]
    <3>1. SameSessions(mod[t], mod[t])
      BY Zenon DEF SameSessions
    <3>. QED  BY ZenonT(30), <1>0, <2>1, <2>2, <2>3, <3>1, QueryInv
  <2>4. CASE mod' = [mod EXCEPT ![t] = r]
    BY ZenonT(30), <1>0, <1>1, <2>1, <2>2, <2>4, QueryInv
  <2>. QED  BY <1>2, <2>3, <2>4, ZenonT(30)
<1>4. Mutexes'
  <2>1. CASE mod'["fim"] = mod["fim"]
    BY <1>0, <2>1 DEF Mutexes
  <2>2. CASE t = "fim" /\ mod'["fim"] = r
    <3>1. mod["fim"].lock # "coordinator" \/ r.lock = "free"
      BY <1>0, <1>1, <2>2, Zenon DEF Mutexes
    <3>2. r.lock # "coordinator"
      BY <1>1, <2>2, <3>1, Zenon
    <3>3. mod["fim"].allowed => mod["fim"].scan = "idle" /\ mod["fim"].sync # "repair"
      BY <1>0, Zenon DEF Mutexes
    <3>4. r.sync = mod["fim"].sync
      BY <1>1, <2>2, ZenonT(30) DEF SameSessions
    <3>. QED  BY <1>0, <1>1, <2>2, <3>2, <3>3, <3>4, ZenonT(30) DEF Mutexes
  <2>. QED  BY <1>3, <2>1, <2>2, Zenon DEF Modules
<1>5. TypeOK'
  BY <1>0, <1>2, <1>3, ZenonT(30) DEF IInv, TypeOK, NotFlushing, OutsideCoordination, ghosts, stored
<1>6. Phases' /\ Held'
  <2>1. mod'["syscollector"].call = mod["syscollector"].call
    BY <1>1, <1>3, ZenonT(30) DEF Modules
  <2>. QED  BY <1>0, <2>1, ZenonT(30) DEF IInv, Phases, Held, Changes, NotFlushing,
               OutsideCoordination, stored
<1>. QED  BY <1>3, <1>4, <1>5, <1>6, ZenonT(30) DEF IInv

\* A restart of the agent loses everything but the databases.
LEMMA RestartInv ==
  ASSUME IInv, Restart
  PROVE  IInv'
<1>. DEFINE r(m) == [NewModule EXCEPT !.rows = mod[m].rows, !.sent = mod[m].sent,
                                      !.version = mod[m].version]
<1>a. NewModule \in Module
  BY CoordinationAssumption DEF NewModule, Module
<1>b. mod \in [Modules -> Module] /\ Mutexes
  BY ZenonT(30) DEF IInv, TypeOK
<1>0. mod \in [Modules -> Module] /\ Mutexes /\ NewModule \in Module
  BY <1>a, <1>b, ZenonT(30)
<1>1. ASSUME NEW m \in Modules
      PROVE  /\ r(m) \in Module
             /\ r(m).sync = "idle" /\ r(m).worker = "none" /\ r(m).open = "none"
             /\ r(m).flush = "succeeded" /\ r(m).detected = FALSE /\ r(m).call = "none"
             /\ r(m).rows = mod[m].rows /\ r(m).sent = mod[m].sent
  BY ZenonT(30), <1>0 DEF Module, NewModule
<1>. HIDE DEF r
<1>2. \A m \in Modules : mod'[m] = IF m = "fim" THEN mod[m] ELSE r(m)
  BY Zenon DEF Restart, r
<1>3. mod' \in [Modules -> Module]
  <2>1. mod' = [m \in Modules |-> IF m = "fim" THEN mod[m] ELSE r(m)]
    BY Zenon DEF Restart, r
  <2>2. \A m \in Modules : (IF m = "fim" THEN mod[m] ELSE r(m)) \in Module
    BY ZenonT(30), <1>0, <1>1
  <2>. QED  BY <2>1, <2>2, Zenon
<1>4. ASSUME NEW m \in Modules PROVE Sessions(m)' /\ Flushes(m)'
  <2>1. CASE m = "fim"
    BY <1>2, <2>1, ZenonT(30) DEF IInv, Sessions, Flushes
  <2>2. CASE m # "fim"
    <3>1. mod'[m] = r(m) /\ Sessions(m)
      BY <1>2, <2>2, ZenonT(30) DEF IInv
    <3>. QED  BY ZenonT(30), <1>1, <2>2, <3>1 DEF Sessions, Flushes
  <2>. QED  BY <2>1, <2>2, Zenon
<1>5. \A m \in Modules : Owed(m)'
  BY ZenonT(30) DEF Restart, NoCoordination, Owed, Asked
<1>6. Mutexes'
  BY <1>0, <1>2 DEF Mutexes, Modules
<1>7. mishaps' \in 0..MaxMishaps
  BY ZenonT(30), MishapType DEF Restart, IInv
<1>8. TypeOK'
  <2>1. owed' \in [Modules -> 0..MaxRows]
    <3>1. owed' = [m \in Modules |-> 0]
      BY Zenon DEF Restart, NoCoordination
    <3>. QED  BY <3>1, CoordinationAssumption
  <2>2. /\ enabled' = enabled /\ step' = "sleep" /\ table' = "metadata" /\ todo' = {} /\ paused' = {}
        /\ newVersion' = 0 /\ outcome' = "none" /\ joined' = {} /\ changed' = {}
        /\ <<flag, firstRun, meta, known>>' = <<flag, firstRun, meta, known>>
    BY ZenonT(30) DEF Restart, NoCoordination, stored
  <2>. QED  BY <1>3, <1>7, <2>1, <2>2, Zenon DEF IInv, TypeOK, Tables
<1>9. Phases' /\ Held'
  <2>1. mod'["syscollector"].call = "none"
    BY <1>1, <1>2, ZenonT(30) DEF Modules
  <2>. QED  BY ZenonT(30), <2>1 DEF IInv, Phases, Held, Restart, NoCoordination, Changes, stored
<1>. QED  BY <1>4, <1>5, <1>6, <1>8, <1>9, ZenonT(30) DEF IInv

-----------------------------------------------------------------------------
\* Every step preserves the invariant.
LEMMA NextInv == IInv /\ [Next]_vars => IInv'
<1>. SUFFICES ASSUME IInv, [Next]_vars PROVE IInv'
  BY ZenonT(30)
<1>1. CASE AgentInfoStep
  BY <1>1, PopulateInv, LoopInv, IdleInv, PauseModuleInv, PollFimPauseInv, SysPauseInv,
     GetVersionInv, SetVersionInv, TriggerFlushInv, ResumeModuleInv, Zenon DEF AgentInfoStep
<1>2. ASSUME NEW m \in Modules, ModuleStep(m) PROVE IInv'
  BY <1>2, ThreadInv, WorkerInv, Zenon DEF ModuleStep
<1>3. CASE Restart
  BY <1>3, RestartInv, ZenonT(30)
<1>4. CASE UNCHANGED vars
  <2>1. /\ mod' = mod /\ TypeOK' /\ Phases' /\ Held'
        /\ <<step, todo, paused, outcome, owed, joined>>' = <<step, todo, paused, outcome, owed, joined>>
    BY <1>4
       DEF IInv, TypeOK, Phases, Held, Turn, Changes, vars, loop, coordination, ghosts, stored
  <2>. QED  BY <2>1, SameModules, ZenonT(30) DEF Asked
<1>. QED  BY <1>1, <1>2, <1>3, <1>4, ZenonT(30) DEF Next

\* The invariant holds throughout.
LEMMA Invariance == Spec => []IInv
<1>. QED  BY InitInv, NextInv, PTL DEF Spec

\* The coordination is well typed: in particular a version is a natural
\* number, and only modules that are running are paused or relied on.
THEOREM CoordinationTypeOK == Spec => []TypeOK
<1>1. IInv => TypeOK
  BY ZenonT(30) DEF IInv
<1>. QED  BY <1>1, Invariance, PTL

\* coordinateModules opens the session that hands the new version to the
\* manager only when every module it has paused has delivered the differences
\* that were pending at its flush, unless the flush was answered on the
\* strength of a session or flush that was running already.
THEOREM CoordinationFlushCovers == Spec => []FlushCovers
<1>1. IInv => FlushCovers
  <2>. SUFFICES ASSUME IInv, step = "session", NEW m \in paused, m \notin joined
                PROVE  mod[m].sent >= owed[m]
    BY Zenon DEF FlushCovers
  <2>1. m \in Modules /\ outcome = "flushed" /\ m \notin todo
    BY CoordinationAssumption, ZenonT(30) DEF IInv, TypeOK, Phases
  <2>2. owed[m] <= mod[m].sent
    BY ZenonT(30), <2>1 DEF IInv, Owed, Asked
  <2>3. owed[m] \in Nat /\ mod[m].sent \in Nat
    BY <2>1 DEF IInv, TypeOK, Module
  <2>. QED  BY <2>2, <2>3, ZenonT(30)
<1>. QED  BY <1>1, Invariance, PTL

\* set_version never takes back a version that FIM's scans or its recovery
\* have given out, where FIM applies no real-time or who-data events: from the
\* moment FIM grants the pause until it is resumed the coordinator holds its
\* scan mutexes, and what a scan does without them raises no version, so the
\* version read is still not exceeded when the new one is written.
THEOREM CoordinationFimVersionGrows ==
  ASSUME "events" \notin Faults
  PROVE  Spec => FimVersionGrows
<1>1. IInv /\ [Next]_vars => [SetVersion => mod'["fim"].version >= mod["fim"].version]_vars
  <2>. SUFFICES ASSUME IInv, SetVersion PROVE mod'["fim"].version >= mod["fim"].version
    BY Zenon DEF vars
  <2>0. "fim" \in Modules /\ mod \in [Modules -> Module] /\ mod["fim"].version \in Nat
    BY ZenonT(30) DEF IInv, TypeOK, Modules, Module
  <2>1. Turn \in Modules /\ Turn \in todo /\ todo \subseteq paused /\ step = "set"
    BY TurnInTodo, ZenonT(30) DEF SetVersion, IInv, TypeOK, Phases
  <2>2. mod' = mod \/ mod' = [mod EXCEPT ![Turn] = Versioned(Turn)]
    BY Zenon DEF SetVersion, Ask, AskFails
  <2>3. CASE mod'["fim"] = mod["fim"]
    BY <2>0, <2>3
  <2>4. CASE Turn = "fim" /\ mod'["fim"] = Versioned("fim")
    <3>1. mod["fim"].version <= newVersion
      BY <2>1, <2>4, ZenonT(30) DEF IInv, Held
    <3>2. mod["fim"].version <= Versioned("fim").version
      BY <2>0, <3>1, VersionedFields, Zenon
    <3>3. Versioned("fim").version \in Nat
      BY <2>0, VersionedFields, Zenon DEF Module
    <3>. QED  BY <2>0, <2>4, <3>2, <3>3
  <2>. QED  BY <2>0, <2>1, <2>2, <2>3, <2>4, ZenonT(30)
<1>. QED  BY <1>1, Invariance, PTL DEF Spec, FimVersionGrows
=============================================================================
