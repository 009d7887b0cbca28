--------------------------- MODULE MiningControl ---------------------------
(***************************************************************************)
(* Starting and stopping the miner of a node: the front end                 *)
(* (dashboard/mining_standalone.py), the engine and the backend it drives   *)
(* (mods/mining_engine/engine.py, backends.py) and the fleet governor that  *)
(* drives the front end (mods/mine_governor).  A thread is one of           *)
(*   Callers     HTTP threads in request_start / request_stop,              *)
(*   Governor    the agent that applies the command left in the store,      *)
(*   Starters    the background threads request_start launches (_bg_start), *)
(*   Loops       the supervising loop of an engine, one for each,           *)
(*   Poller      _bg_poll.                                                  *)
(* Of a miner (StratumCpuMiner) only what its running() looks at is kept:   *)
(* its stop flag, whether it has a socket, whether its processes live;      *)
(* StratumClient has the rest.                                              *)
(***************************************************************************)
EXTENDS Naturals, FiniteSets

CONSTANTS
    Callers,    \* HTTP threads
    MaxStarts,  \* background starts ever launched
    MaxEngines, \* engines ever built
    MaxMiners,  \* miners ever built
    MaxCalls    \* requests and commands

Engines  == 1..MaxEngines
Miners   == 1..MaxMiners
None     == 0
Governor == <<"governor", 1>>
Users    == Callers \union {Governor}
Starters == {<<"starter", n>> : n \in 1..MaxStarts}
Loops    == {<<"loop", e>> : e \in Engines}
Threads  == Users \union Starters \union Loops

VARIABLES
    userStopped, starting, running,  \* the flags of mining_standalone
    engine,   \* _miner of mining_standalone: the engine in use, or None
    engines,  \* of each engine: paused, stop, backend's miner, start lock
    miners,   \* of each miner: stop, sock, hashing
    at,       \* where a thread stands: pc, its engine, its miner
    command,  \* minecmd:<node> in the store
    used      \* engines, miners, starters and calls so far

vars == <<userStopped, starting, running, engine, engines, miners, at, command, used>>
flags == <<userStopped, starting, running>>

Idle == [pc |-> "idle", eng |-> None, mnr |-> None, todo |-> "none"]
NoCommand == "none"

Init ==
    /\ userStopped = TRUE /\ starting = FALSE /\ running = FALSE
    /\ engine = None
    /\ engines = [e \in Engines |->
          [paused |-> FALSE, stop |-> FALSE, miner |-> None, lock |-> "none"]]
    /\ miners = [m \in Miners |-> [stop |-> FALSE, sock |-> FALSE, hashing |-> FALSE]]
    /\ at = [t \in Threads |-> Idle]
    /\ command = NoCommand
    /\ used = [engines |-> 0, miners |-> 0, starters |-> 0, calls |-> 0]

Goes(t, pc) == at' = [at EXCEPT ![t].pc = pc]

(* StratumCpuMiner.running with the guard of stratum_guard, and the         *)
(* backend's running()                                                      *)
MinerRunning(m) == ~miners[m].stop /\ (miners[m].hashing \/ miners[m].sock)
BackendRunning(e) ==
    engines[e].miner # None /\ MinerRunning(engines[e].miner)

----------------------------------------------------------------------------
(* request_start and request_stop: the flags, under the front end's lock.   *)

StartFlags(t) ==
    /\ at[t].pc = "start"
    /\ userStopped' = FALSE
    /\ IF starting \/ running
       THEN Goes(t, "done") /\ UNCHANGED <<starting, running, used>>
       ELSE /\ starting' = TRUE /\ running' = TRUE
            /\ used.starters < MaxStarts
            /\ used' = [used EXCEPT !.starters = @ + 1]
            /\ at' = [at EXCEPT ![t].pc = "done",
                                ![<<"starter", used.starters + 1>>].pc = "ensure"]
    /\ UNCHANGED <<engine, engines, miners, command>>

StopFlags(t) ==
    /\ at[t].pc = "stop"
    /\ userStopped' = TRUE /\ starting' = FALSE /\ running' = FALSE
    /\ Goes(t, "stopEngine")
    /\ UNCHANGED <<engine, engines, miners, command, used>>

(* _miner.stop() of request_stop and of rebuild_engine: the engine the      *)
(* front end knows now, if any                                              *)
AfterStop(t) ==
    CASE at[t].todo = "threads" -> "rebuild"
      [] at[t].todo = "restart" -> "start"
      [] OTHER -> "done"

StopEngine(t) ==
    /\ at[t].pc \in {"stopEngine", "rebuild"}
    /\ IF engine = None
       THEN /\ Goes(t, IF at[t].pc = "rebuild" THEN "dropEngine" ELSE AfterStop(t))
            /\ UNCHANGED engines
       ELSE /\ engines' = [engines EXCEPT ![engine].paused = TRUE, ![engine].stop = TRUE]
            /\ at' = [at EXCEPT ![t].pc = IF @ = "rebuild" THEN "rebuildMiner" ELSE "stopMiner",
                                ![t].eng = engine]
    /\ UNCHANGED <<flags, engine, miners, command, used>>

(* CpuStratumBackend.stop: the miner is stopped ...                         *)
StopMiner(t) ==
    /\ at[t].pc \in {"stopMiner", "rebuildMiner"}
    /\ LET m == engines[at[t].eng].miner
       IN  miners' = IF m = None THEN miners
                     ELSE [miners EXCEPT ![m] = [stop |-> TRUE, sock |-> FALSE, hashing |-> FALSE]]
    /\ Goes(t, IF at[t].pc = "rebuildMiner" THEN "rebuildForget" ELSE "forgetMiner")
    /\ UNCHANGED <<flags, engine, engines, command, used>>

(* ... and then forgotten, whichever miner the backend has by now           *)
ForgetMiner(t) ==
    /\ at[t].pc \in {"forgetMiner", "rebuildForget"}
    /\ engines' = [engines EXCEPT ![at[t].eng].miner = None]
    /\ Goes(t, IF at[t].pc = "rebuildForget" THEN "dropEngine" ELSE AfterStop(t))
    /\ UNCHANGED <<flags, engine, miners, command, used>>

(* rebuild_engine: the cached engine is dropped, the front end starts anew  *)
DropEngine(t) ==
    /\ at[t].pc = "dropEngine"
    /\ engine' = None
    /\ Goes(t, "start")
    /\ UNCHANGED <<flags, engines, miners, command, used>>

----------------------------------------------------------------------------
(* _bg_start.                                                               *)

(* _ensure_miner: without a lock, so two starters may each build an engine  *)
EnsureEngine(t) ==
    /\ at[t].pc = "ensure"
    /\ at' = [at EXCEPT ![t].pc = IF engine = None THEN "build" ELSE "lock",
                        ![t].eng = engine]
    /\ UNCHANGED <<flags, engine, engines, miners, command, used>>

BuildEngine(t) ==
    /\ at[t].pc = "build" /\ used.engines < MaxEngines
    /\ used' = [used EXCEPT !.engines = @ + 1]
    /\ engine' = used.engines + 1
    /\ at' = [at EXCEPT ![t].pc = "lock", ![t].eng = used.engines + 1]
    /\ UNCHANGED <<flags, engines, miners, command>>

(* MiningEngine.start, under the engine's start lock                        *)
LockEngine(t) ==
    /\ at[t].pc = "lock" /\ engines[at[t].eng].lock = "none"
    /\ engines' = [engines EXCEPT ![at[t].eng] =
                      [@ EXCEPT !.lock = "held", !.paused = FALSE, !.stop = FALSE]]
    /\ Goes(t, "check")
    /\ UNCHANGED <<flags, engine, miners, command, used>>

(* The loop thread is started only when none is alive.                      *)
LoopAlive(e) == at[<<"loop", e>>].pc # "idle"

UnlockEngine(t) ==
    /\ at[t].pc = "unlock"
    /\ engines' = [engines EXCEPT ![at[t].eng].lock = "none"]
    /\ at' = [at EXCEPT ![t].pc = "report",
                        ![<<"loop", at[t].eng>>] =
                           IF LoopAlive(at[t].eng) THEN @
                           ELSE [Idle EXCEPT !.pc = "supervise", !.eng = at[t].eng]]
    /\ UNCHANGED <<flags, engine, miners, command, used>>

(* The end of _bg_start: start() of the CPU miner always returns true, so   *)
(* the flags say running, whatever was requested meanwhile                  *)
ReportStart(t) ==
    /\ at[t].pc = "report"
    /\ running' = TRUE /\ starting' = FALSE
    /\ at' = [at EXCEPT ![t] = Idle]
    /\ UNCHANGED <<userStopped, engine, engines, miners, command, used>>

----------------------------------------------------------------------------
(* backend.running() and backend.start(), by a starter under the start lock *)
(* and by the engine's loop without it.                                     *)

AfterBackend(t) == IF t \in Loops THEN "supervise" ELSE "unlock"

CheckBackend(t) ==
    /\ at[t].pc = "check"
    /\ Goes(t, IF BackendRunning(at[t].eng) THEN AfterBackend(t) ELSE "new")
    /\ UNCHANGED <<flags, engine, engines, miners, command, used>>

(* CpuStratumBackend.start looks again, and makes a miner of its own        *)
NewMiner(t) ==
    /\ at[t].pc = "new"
    /\ IF BackendRunning(at[t].eng)
       THEN Goes(t, AfterBackend(t)) /\ UNCHANGED <<engines, used>>
       ELSE /\ used.miners < MaxMiners
            /\ used' = [used EXCEPT !.miners = @ + 1]
            /\ engines' = [engines EXCEPT ![at[t].eng].miner = used.miners + 1]
            /\ at' = [at EXCEPT ![t].pc = "connect", ![t].mnr = used.miners + 1]
    /\ UNCHANGED <<flags, engine, miners, command>>

(* StratumCpuMiner.start: its stop flag was clear; connect() takes up to    *)
(* twelve seconds and may fail; then the processes are spawned all the same *)
ConnectMiner(t) ==
    /\ at[t].pc = "connect"
    /\ \E ok \in BOOLEAN : miners' = [miners EXCEPT ![at[t].mnr].sock = ok]
    /\ Goes(t, "spawn")
    /\ UNCHANGED <<flags, engine, engines, command, used>>

SpawnWorkers(t) ==
    /\ at[t].pc = "spawn"
    /\ miners' = [miners EXCEPT ![at[t].mnr].hashing = TRUE]
    /\ at' = [at EXCEPT ![t].pc = AfterBackend(t), ![t].mnr = None]
    /\ UNCHANGED <<flags, engine, engines, command, used>>

(* MiningEngine._loop: it ends when stopped, idles while paused, and starts *)
(* a backend that does not run                                              *)
Supervise(t) ==
    /\ at[t].pc = "supervise"
    /\ IF engines[at[t].eng].stop
       THEN at' = [at EXCEPT ![t] = Idle]
       ELSE ~engines[at[t].eng].paused /\ Goes(t, "check")
    /\ UNCHANGED <<flags, engine, engines, miners, command, used>>

(* A connection lost, or processes that died                                *)
MinerFails(m) ==
    /\ miners[m].sock \/ miners[m].hashing
    /\ \E s \in SUBSET {"sock", "hashing"} :
          miners' = [miners EXCEPT ![m].sock = @ /\ "sock" \notin s,
                                   ![m].hashing = @ /\ "hashing" \notin s]
    /\ UNCHANGED <<flags, engine, engines, at, command, used>>

----------------------------------------------------------------------------
(* _bg_poll, the requests and the governor.                                 *)

Poll ==
    /\ ~userStopped /\ running /\ engine # None
    /\ running' = (BackendRunning(engine) /\ ~engines[engine].paused)
    /\ UNCHANGED <<userStopped, starting, engine, engines, miners, at, command, used>>

Request(t, pc) ==
    /\ at[t].pc = "idle" /\ used.calls < MaxCalls
    /\ used' = [used EXCEPT !.calls = @ + 1]
    /\ at' = [at EXCEPT ![t] = [Idle EXCEPT !.pc = pc]]
    /\ UNCHANGED <<flags, engine, engines, miners, command>>

Return(t) ==
    /\ at[t].pc = "done"
    /\ at' = [at EXCEPT ![t] = IF t = Governor THEN [Idle EXCEPT !.pc = "mark"] ELSE Idle]
    /\ UNCHANGED <<flags, engine, engines, miners, command, used>>

(* The coordinator leaves a command for the node, over the last one         *)
LeaveCommand ==
    /\ used.calls < MaxCalls
    /\ used' = [used EXCEPT !.calls = @ + 1]
    /\ command' \in {"start", "stop", "restart", "threads"}
    /\ UNCHANGED <<flags, engine, engines, miners, at>>

(* apply_command: what plan() makes of the action                           *)
TakeCommand ==
    /\ at[Governor].pc = "idle" /\ command # NoCommand
    /\ at' = [at EXCEPT ![Governor] =
                 [Idle EXCEPT !.pc = IF command = "start" THEN "start" ELSE "stop",
                              !.todo = command]]
    /\ UNCHANGED <<flags, engine, engines, miners, command, used>>

(* The command read is written back as done, over a newer one               *)
MarkDone ==
    /\ at[Governor].pc = "mark"
    /\ command' = NoCommand
    /\ at' = [at EXCEPT ![Governor] = Idle]
    /\ UNCHANGED <<flags, engine, engines, miners, used>>

Next ==
    \/ \E c \in Callers : Request(c, "start") \/ Request(c, "stop")
    \/ \E t \in Users : StartFlags(t) \/ StopFlags(t) \/ StopEngine(t) \/ StopMiner(t)
                        \/ ForgetMiner(t) \/ DropEngine(t) \/ Return(t)
    \/ \E t \in Starters : EnsureEngine(t) \/ BuildEngine(t) \/ LockEngine(t)
                           \/ UnlockEngine(t) \/ ReportStart(t)
    \/ \E t \in Starters \union Loops : CheckBackend(t) \/ NewMiner(t)
                                        \/ ConnectMiner(t) \/ SpawnWorkers(t)
    \/ \E t \in Loops : Supervise(t)
    \/ \E m \in Miners : MinerFails(m)
    \/ Poll \/ LeaveCommand \/ TakeCommand \/ MarkDone

Spec == Init /\ [][Next]_vars

----------------------------------------------------------------------------
(* Properties.                                                              *)

TypeOK ==
    /\ {userStopped, starting, running} \subseteq BOOLEAN
    /\ engine \in Engines \union {None}
    /\ \A e \in Engines : engines[e].miner \in Miners \union {None}
    /\ \A t \in Threads : at[t].eng \in Engines \union {None}
    /\ command \in {NoCommand, "start", "stop", "restart", "threads"}

(* engine.py:87 says of start(): "Idempotent - never stack duplicate worker *)
(* threads."  It does when a stop falls between a miner's connect() and the *)
(* spawning of its processes: no engine holds that miner any more, and the  *)
(* next start spawns a second set (engine.py 86-103, 105-112, backends.py   *)
(* 122-148, stratum_cpu.py 409-447).                                        *)
NeverStacked == Cardinality({m \in Miners : miners[m].hashing}) <= 1
=============================================================================
