--------------------------- MODULE SystemLifecycle ---------------------------
(****************************************************************************)
(* The server process: main() of main.c, the system manager of              *)
(* system/system.c and the signal handler that interrupts main().           *)
(*                                                                          *)
(* There is one thread.  A signal handler runs on top of main(), or on top  *)
(* of another handler, and what it interrupted goes on only when it has     *)
(* returned: `stack' holds the handler invocations, the running one last,   *)
(* and main() takes a step only while it is empty.                          *)
(*                                                                          *)
(* A subsystem is its position in init_order (which is the order of the     *)
(* enumeration mm_subsystem_type); stop_order is the same order reversed.   *)
(****************************************************************************)
EXTENDS Integers, Sequences

CONSTANTS
    N,                 \* MM_SUBSYSTEM_MAX, the number of subsystems
    Uses,              \* Uses[s]: subsystems whose instance the creation of s is handed
    Derefs,            \* Derefs[s]: those of Uses[s] it dereferences, NULL or not
    ShutdownSignals,   \* SIGINT and SIGTERM
    OtherSignals,      \* SIGHUP, SIGUSR1 and SIGUSR2
    ResetHand          \* signal() of the build restores SIG_DFL at each delivery

Subsystem == 1..N
Signal == ShutdownSignals \cup OtherSignals

\* init_order lists every subsystem after the ones its creation is handed.
ASSUME LifecycleAssumption ==
    /\ N \in Nat \ {0}
    /\ Uses \in [Subsystem -> SUBSET Subsystem]
    /\ Derefs \in [Subsystem -> SUBSET Subsystem]
    /\ \A s \in Subsystem : /\ Derefs[s] \subseteq Uses[s]
                            /\ \A d \in Uses[s] : d < s
    /\ ShutdownSignals \cap OtherSignals = {}
    /\ ResetHand \in BOOLEAN

VARIABLES
    pc,           \* where main() is
    k,            \* loop counter of mm_system_start
    state,        \* system_mgr->state
    initialized,  \* subsystems[s].initialized
    started,      \* subsystems[s].started
    instance,     \* subsystems[s].instance is not NULL
    global,       \* global_mm_system points to the manager
    allocated,    \* the manager's memory is not freed
    disposition,  \* what the process does on each signal
    stack,        \* the handler invocations, innermost last
    pid           \* the PID file

managerVars == <<state, initialized, started, instance, global, allocated>>
vars == <<pc, k, managerVars, disposition, stack, pid>>

BeforeManager == {"args", "daemon", "pidfile", "config", "manager"}
Serving == {"poll", "pausing", "blocked"}
Ended == {"exited", "killed"}
MainPC == BeforeManager \cup Serving \cup Ended
              \cup {"handlers", "start", "init", "startsub", "clear", "free", "cleanup"}

SystemState == {"UNINITIALIZED", "INITIALIZING", "RUNNING", "SHUTTING_DOWN", "SHUTDOWN"}

\* One invocation of mm_system_handle_signal that called mm_system_shutdown.
Frame == [sig : ShutdownSignals, at : {"entry", "checked", "stopping"}, next : 0..N]

TypeOK ==
    /\ pc \in MainPC
    /\ k \in 1..(N + 1)
    /\ state \in SystemState
    /\ initialized \in [Subsystem -> BOOLEAN]
    /\ started \in [Subsystem -> BOOLEAN]
    /\ instance \in [Subsystem -> BOOLEAN]
    /\ global \in BOOLEAN
    /\ allocated \in BOOLEAN
    /\ disposition \in [Signal -> {"default", "handler"}]
    /\ stack \in Seq(Frame)
    /\ pid \in {"none", "absent", "present", "kept"}

None == [s \in Subsystem |-> FALSE]

Init ==
    /\ pc = "args"
    /\ k = 1
    /\ state = "UNINITIALIZED"
    /\ initialized = None
    /\ started = None
    /\ instance = None
    /\ global = FALSE
    /\ allocated = FALSE
    /\ disposition = [sig \in Signal |-> "default"]
    /\ stack = <<>>
    /\ pid \in {"none", "absent"}

-----------------------------------------------------------------------------
(* main().  "none" is a run without a PID file argument.                    *)

At(label) == pc = label /\ stack = <<>>

\* Bad arguments and --help end the process at once.
ParseArgs ==
    /\ At("args")
    /\ pc' \in {"daemon", "exited"}
    /\ UNCHANGED <<k, managerVars, disposition, stack, pid>>

\* fork() or setsid() may fail; the parents that exit are not modelled.
Daemonize ==
    /\ At("daemon")
    /\ pc' \in {"pidfile", "exited"}
    /\ UNCHANGED <<k, managerVars, disposition, stack, pid>>

WritePidFile ==
    /\ At("pidfile")
    /\ \/ /\ pid' = IF pid = "none" THEN "none" ELSE "present"
          /\ pc' = "config"
       \/ /\ pid # "none"
          /\ pc' = "exited"
          /\ UNCHANGED pid
    /\ UNCHANGED <<k, managerVars, disposition, stack>>

InitConfig ==
    /\ At("config")
    /\ pc' \in {"manager", "cleanup"}
    /\ UNCHANGED <<k, managerVars, disposition, stack, pid>>

InitManager ==
    /\ At("manager")
    /\ \/ /\ pc' = "handlers"
          /\ global' = TRUE
          /\ allocated' = TRUE
       \/ /\ pc' = "cleanup"
          /\ UNCHANGED <<global, allocated>>
    /\ UNCHANGED <<k, state, initialized, started, instance, disposition, stack, pid>>

SetupSignalHandlers ==
    /\ At("handlers")
    /\ disposition' = [sig \in Signal |-> "handler"]
    /\ pc' = "start"
    /\ UNCHANGED <<k, managerVars, stack, pid>>

StartSystem ==
    /\ At("start")
    /\ IF state = "UNINITIALIZED"
         THEN state' = "INITIALIZING" /\ k' = 1 /\ pc' = "init"
         ELSE pc' = "clear" /\ UNCHANGED <<state, k>>
    /\ UNCHANGED <<initialized, started, instance, global, allocated,
                   disposition, stack, pid>>

\* The subsystem counts as initialized whether or not its instance was
\* created; dereferencing a NULL configuration kills the process.
InitSubsystem ==
    /\ At("init") /\ k <= N
    /\ \/ /\ \E created \in BOOLEAN :
                /\ created => \A d \in Derefs[k] : instance[d]
                /\ instance' = [instance EXCEPT ![k] = created]
          /\ initialized' = [initialized EXCEPT ![k] = TRUE]
          /\ k' = k + 1
          /\ UNCHANGED pc
       \/ /\ \E d \in Derefs[k] : ~instance[d]
          /\ pc' = "killed"
          /\ UNCHANGED <<instance, initialized, k>>
    /\ UNCHANGED <<state, started, global, allocated, disposition, stack, pid>>

AllInitialized ==
    /\ At("init") /\ k = N + 1
    /\ pc' = "startsub"
    /\ k' = 1
    /\ UNCHANGED <<managerVars, disposition, stack, pid>>

StartSubsystem ==
    /\ At("startsub") /\ k <= N
    /\ IF initialized[k]
         THEN /\ started' = [started EXCEPT ![k] = TRUE]
              /\ k' = k + 1
              /\ UNCHANGED <<pc, state>>
         ELSE /\ state' = "SHUTDOWN"
              /\ pc' = "clear"
              /\ UNCHANGED <<started, k>>
    /\ UNCHANGED <<initialized, instance, global, allocated, disposition, stack, pid>>

\* Slip: the start loop leaves out the last subsystem.
AllStartedEarly ==
    /\ At("startsub") /\ k = N
    /\ state' = "RUNNING"
    /\ pc' = "poll"
    /\ UNCHANGED <<k, initialized, started, instance, global, allocated,
                   disposition, stack, pid>>

AllStarted ==
    /\ At("startsub") /\ k = N + 1
    /\ state' = "RUNNING"
    /\ pc' = "poll"
    /\ UNCHANGED <<k, initialized, started, instance, global, allocated,
                   disposition, stack, pid>>

\* The condition of the wait loop.
Poll ==
    /\ At("poll")
    /\ pc' = IF state = "RUNNING" THEN "pausing" ELSE "clear"
    /\ UNCHANGED <<k, managerVars, disposition, stack, pid>>

\* pause() blocks until a handler returns that began after this step.
Pause ==
    /\ At("pausing")
    /\ pc' = "blocked"
    /\ UNCHANGED <<k, managerVars, disposition, stack, pid>>

\* Slip: the manager is freed while handlers still find it.
ClearGlobalLate ==
    /\ At("clear")
    /\ pc' = "free"
    /\ UNCHANGED <<k, managerVars, disposition, stack, pid>>

\* mm_system_destroy up to the point where handlers no longer find the manager.
ClearGlobal ==
    /\ At("clear")
    /\ IF state = "RUNNING"
         THEN state' = "SHUTDOWN" /\ started' = None
         ELSE UNCHANGED <<state, started>>
    /\ global' = FALSE
    /\ pc' = "free"
    /\ UNCHANGED <<k, initialized, instance, allocated, disposition, stack, pid>>

FreeManager ==
    /\ At("free")
    /\ allocated' = FALSE
    /\ pc' = "cleanup"
    /\ UNCHANGED <<k, state, initialized, started, instance, global,
                   disposition, stack, pid>>

\* remove() may fail, which is reported and leaves the file ("kept").
RemovePidFile ==
    /\ At("cleanup")
    /\ pid' \in IF pid = "present" THEN {"absent", "kept"} ELSE {pid}
    /\ pc' = "exited"
    /\ UNCHANGED <<k, managerVars, disposition, stack>>

Main ==
    \/ ParseArgs \/ Daemonize \/ WritePidFile \/ InitConfig \/ InitManager
    \/ SetupSignalHandlers \/ StartSystem \/ InitSubsystem \/ AllInitialized
    \/ StartSubsystem \/ AllStarted \/ Poll \/ Pause
    \/ ClearGlobal \/ FreeManager \/ RemovePidFile

-----------------------------------------------------------------------------
(* Signals.                                                                 *)

\* Slip: pause() is restarted when the handler has returned.
ReturnToPause(rest) ==
    /\ stack' = rest
    /\ UNCHANGED pc

\* Control goes back below the handlers on rest; a return to main() ends its
\* pause().
ReturnTo(rest) ==
    /\ stack' = rest
    /\ pc' = IF rest = <<>> /\ pc = "blocked" THEN "poll" ELSE pc

\* No handler is installed, or a delivery has removed it.
Kill(sig) ==
    /\ pc \notin Ended
    /\ disposition[sig] = "default"
    /\ pc' = "killed"
    /\ stack' = <<>>
    /\ UNCHANGED <<k, managerVars, disposition, pid>>

\* A handler invocation begins: those of SIGINT and SIGTERM call
\* mm_system_shutdown if there is a manager, the others return at once.
\* Without ResetHand the signal is blocked while its handler runs.
Deliver(sig) ==
    /\ pc \notin Ended
    /\ disposition[sig] = "handler"
    /\ \A i \in DOMAIN stack : stack[i].sig # sig
    /\ disposition' = IF ResetHand THEN [disposition EXCEPT ![sig] = "default"]
                                   ELSE disposition
    /\ IF sig \in ShutdownSignals /\ global
         THEN /\ stack' = Append(stack, [sig |-> sig, at |-> "entry", next |-> N])
              /\ UNCHANGED pc
         ELSE ReturnTo(stack)
    /\ UNCHANGED <<k, managerVars, pid>>

Top == stack[Len(stack)]
Below == SubSeq(stack, 1, Len(stack) - 1)
Running(label) == stack # <<>> /\ Top.at = label

\* The guard of mm_system_shutdown: only a running system is shut down.
CheckRunning ==
    /\ Running("entry")
    /\ IF state = "RUNNING"
         THEN /\ stack' = [stack EXCEPT ![Len(stack)].at = "checked"]
              /\ UNCHANGED pc
         ELSE ReturnTo(Below)
    /\ UNCHANGED <<k, managerVars, disposition, pid>>

BeginShutdown ==
    /\ Running("checked")
    /\ state' = "SHUTTING_DOWN"
    /\ stack' = [stack EXCEPT ![Len(stack)].at = "stopping"]
    /\ UNCHANGED <<pc, k, initialized, started, instance, global, allocated,
                   disposition, pid>>

\* Slip: the subsystems stop in the order they were started in.
StopSubsystemAscending ==
    /\ Running("stopping") /\ Top.next > 0
    /\ started' = [started EXCEPT ![N + 1 - Top.next] = FALSE]
    /\ stack' = [stack EXCEPT ![Len(stack)].next = @ - 1]
    /\ UNCHANGED <<pc, k, state, initialized, instance, global, allocated,
                   disposition, pid>>

\* Slip: the stop loop runs past the first subsystem.
StopSubsystemPastEnd ==
    /\ Running("stopping")
    /\ stack' = [stack EXCEPT ![Len(stack)].next = @ - 1]
    /\ started' = [started EXCEPT ![Top.next] = FALSE]
    /\ UNCHANGED <<pc, k, state, initialized, instance, global, allocated,
                   disposition, pid>>

StopSubsystem ==
    /\ Running("stopping") /\ Top.next > 0
    /\ started' = [started EXCEPT ![Top.next] = FALSE]
    /\ stack' = [stack EXCEPT ![Len(stack)].next = @ - 1]
    /\ UNCHANGED <<pc, k, state, initialized, instance, global, allocated,
                   disposition, pid>>

\* Slip: the stop loop ends one subsystem early.
FinishShutdownEarly ==
    /\ Running("stopping") /\ Top.next = 1
    /\ state' = "SHUTDOWN"
    /\ ReturnTo(Below)
    /\ UNCHANGED <<k, initialized, started, instance, global, allocated,
                   disposition, pid>>

\* Slip: the state is not set when all subsystems are stopped.
FinishShutdownUnmarked ==
    /\ Running("stopping") /\ Top.next = 0
    /\ ReturnTo(Below)
    /\ UNCHANGED <<k, managerVars, disposition, pid>>

FinishShutdown ==
    /\ Running("stopping") /\ Top.next = 0
    /\ state' = "SHUTDOWN"
    /\ ReturnTo(Below)
    /\ UNCHANGED <<k, initialized, started, instance, global, allocated,
                   disposition, pid>>

Handler == CheckRunning \/ BeginShutdown \/ StopSubsystem \/ FinishShutdown

Next ==
    \/ Main
    \/ Handler
    \/ \E sig \in Signal : Kill(sig) \/ Deliver(sig)

Spec == Init /\ [][Next]_vars

\* The kernel schedules the process; nobody is obliged to send a signal.
FairSpec == Spec /\ WF_vars(Main) /\ WF_vars(Handler)

-----------------------------------------------------------------------------
(* Properties.                                                              *)

\* Whenever the state reads RUNNING every subsystem is initialized and
\* started, at whatever point a handler interrupted main() (system.c:145-163).
RunningIsComplete ==
    state = "RUNNING" => \A s \in Subsystem : initialized[s] /\ started[s]

\* A handler invocation never works on a manager that mm_system_destroy has
\* freed (system.c:93-110 against 553-572).
NoUseAfterFree == stack # <<>> => allocated

\* The manager leaves the reach of the handlers with all subsystems stopped,
\* although two handler invocations may have interleaved their stop loops.
StoppedBeforeDestroy ==
    pc \in {"free", "cleanup", "exited"} => \A s \in Subsystem : ~started[s]

\* A subsystem stops only after all that were handed its instance have
\* stopped ("按相反依赖顺序", system.c:180).
StopsInReverseDependencyOrder ==
    [][\A s, t \in Subsystem :
          started[s] /\ ~started'[s] /\ s \in Uses[t] => ~started[t]]_vars

\* A subsystem is initialized only after all whose instance it is handed
\* ("按依赖顺序", system.c:124).
InitializesInDependencyOrder ==
    [][\A s \in Subsystem :
          ~initialized[s] /\ initialized'[s] => \A d \in Uses[s] : initialized[d]]_vars

\* A shutdown signal that finds main() blocked in pause() on a running system
\* ends the process.
SignalInPauseEndsProcess ==
    (pc = "blocked" /\ state = "RUNNING" /\ stack # <<>>) ~> (pc \in Ended)

\* Every shutdown a handler begins is finished: the state does not stay
\* SHUTTING_DOWN unless the process is killed.
ShutdownCompletes ==
    (state = "SHUTTING_DOWN") ~> (state = "SHUTDOWN" \/ pc = "killed")

\* What the wait loop is for ("等待信号", main.c:331): a shutdown signal
\* handled after the system began to start ends the process.
ShutdownSignalEndsProcess ==
    (stack # <<>> /\ state \in {"INITIALIZING", "RUNNING"}) ~> (pc \in Ended)

=============================================================================
