------------------------ MODULE SystemLifecycleProofs ------------------------
(* The safety properties of SystemLifecycle, for any number of subsystems,  *)
(* any dependency relation that init_order respects, any set of signals and *)
(* both signal() semantics.                                                 *)
EXTENDS SystemLifecycle, TLAPS

\* The manager exists exactly while main() is between its creation and its
\* destruction, and handlers reach it only then.
ManagerInv ==
    /\ pc \in BeforeManager => ~global /\ ~allocated
    /\ pc \in Serving \cup {"handlers", "start", "init", "startsub", "clear"}
          => global /\ allocated
    /\ pc = "free" => ~global /\ allocated
    /\ pc \in {"cleanup", "exited"} => ~global /\ ~allocated
    /\ stack # <<>> => global /\ allocated /\ pc \notin Ended

\* Before the start nothing is up; the two loops of mm_system_start raise the
\* subsystems from the first to the last.
StartInv ==
    /\ pc \in BeforeManager \cup {"handlers", "start"}
          => state = "UNINITIALIZED" /\ \A s \in Subsystem : ~initialized[s] /\ ~started[s]
    /\ pc = "init" => state = "INITIALIZING"
                      /\ \A s \in Subsystem : (s < k => initialized[s]) /\ ~started[s]
    /\ pc = "startsub" => state = "INITIALIZING"
                          /\ \A s \in Subsystem : initialized[s] /\ (s < k => started[s])
    /\ pc \in Serving => /\ state \in {"RUNNING", "SHUTTING_DOWN", "SHUTDOWN"}
                         /\ \A s \in Subsystem : initialized[s]
    /\ pc \in {"clear", "free", "cleanup", "exited"} => state \in {"UNINITIALIZED", "SHUTDOWN"}
    /\ state \in {"UNINITIALIZED", "SHUTDOWN"} => \A s \in Subsystem : ~started[s]
    /\ state = "UNINITIALIZED" => pc \notin Serving \cup {"clear"}
    /\ state = "RUNNING" => \A s \in Subsystem : initialized[s] /\ started[s]

\* Handler invocations past their guard find a system that has been running,
\* and one that stops subsystems has stopped all from its counter up.
HandlerInv ==
    /\ \A i \in DOMAIN stack : stack[i].at # "entry" => pc \in Serving
    /\ \A i \in DOMAIN stack : stack[i].at # "stopping" => stack[i].next = N
    /\ \A i \in DOMAIN stack : stack[i].at = "stopping" =>
          /\ state # "RUNNING"
          /\ \A s \in Subsystem : s > stack[i].next => ~started[s]
    /\ state = "SHUTTING_DOWN" /\ pc # "killed" =>
          \E i \in DOMAIN stack : stack[i].at = "stopping"

IInv == TypeOK /\ ManagerInv /\ StartInv /\ HandlerInv

-----------------------------------------------------------------------------
\* What the handlers' steps do to the stack of invocations.
LEMMA StackOperations ==
    ASSUME NEW q \in Seq(Frame), NEW f \in Frame
    PROVE  /\ Append(q, f) \in Seq(Frame)
           /\ DOMAIN Append(q, f) = 1..(Len(q) + 1)
           /\ \A i \in 1..Len(q) : Append(q, f)[i] = q[i]
           /\ Append(q, f)[Len(q) + 1] = f
           /\ Append(q, f) # <<>>
  OBVIOUS

LEMMA StackPop ==
    ASSUME NEW q \in Seq(Frame), q # <<>>
    PROVE  /\ Len(q) \in Nat \ {0}
           /\ DOMAIN q = 1..Len(q)
           /\ q[Len(q)] \in Frame
           /\ SubSeq(q, 1, Len(q) - 1) \in Seq(Frame)
           /\ DOMAIN SubSeq(q, 1, Len(q) - 1) = 1..(Len(q) - 1)
           /\ \A i \in 1..(Len(q) - 1) : SubSeq(q, 1, Len(q) - 1)[i] = q[i]
  OBVIOUS

LEMMA StackReplaceTop ==
    ASSUME NEW q \in Seq(Frame), q # <<>>, NEW f \in Frame
    PROVE  LET r == [q EXCEPT ![Len(q)] = f]
           IN  /\ r \in Seq(Frame)
               /\ DOMAIN r = DOMAIN q
               /\ Len(r) = Len(q)
               /\ r # <<>>
               /\ r[Len(q)] = f
               /\ \A i \in DOMAIN q : i # Len(q) => r[i] = q[i]
  OBVIOUS

LEMMA NType == N \in Nat \ {0}
  BY LifecycleAssumption

LEMMA InitIInv == Init => IInv
  <1> SUFFICES ASSUME Init PROVE IInv
    OBVIOUS
  <1> USE DEF Init, None
  <1>1. TypeOK
    <2>1. k \in 1..(N + 1)
      BY NType
    <2>2. stack \in Seq(Frame)
      OBVIOUS
    <2>3. QED
      BY <2>1, <2>2 DEF TypeOK, MainPC, BeforeManager, SystemState
  <1>2. ManagerInv
    BY DEF ManagerInv, BeforeManager, Serving, Ended
  <1>3. StartInv
    BY DEF StartInv, BeforeManager, Serving
  <1>4. HandlerInv
    BY DEF HandlerInv
  <1>5. QED
    BY <1>1, <1>2, <1>3, <1>4 DEF IInv

\* main() runs with no handler on top of it: its steps leave the stack empty.
LEMMA MainStep == IInv /\ Main => IInv'
  <1> SUFFICES ASSUME IInv, Main PROVE IInv'
    OBVIOUS
  <1> USE NType DEF IInv, At, managerVars, MainPC, BeforeManager, Serving, Ended, SystemState
  <1>1. CASE ParseArgs
    <2>1. TypeOK'
      BY <1>1 DEF TypeOK, ParseArgs, Subsystem
    <2>2. ManagerInv'
      BY <1>1 DEF TypeOK, ManagerInv, ParseArgs
    <2>3. StartInv'
      BY <1>1 DEF TypeOK, StartInv, HandlerInv, ParseArgs, Subsystem
    <2>4. HandlerInv'
      BY <1>1 DEF TypeOK, StartInv, HandlerInv, ParseArgs
    <2>5. QED
      BY <2>1, <2>2, <2>3, <2>4
  <1>2. CASE Daemonize
    <2>1. TypeOK'
      BY <1>2 DEF TypeOK, Daemonize, Subsystem
    <2>2. ManagerInv'
      BY <1>2 DEF TypeOK, ManagerInv, Daemonize
    <2>3. StartInv'
      BY <1>2 DEF TypeOK, StartInv, HandlerInv, Daemonize, Subsystem
    <2>4. HandlerInv'
      BY <1>2 DEF TypeOK, StartInv, HandlerInv, Daemonize
    <2>5. QED
      BY <2>1, <2>2, <2>3, <2>4
  <1>3. CASE WritePidFile
    <2>1. TypeOK'
      BY <1>3 DEF TypeOK, WritePidFile, Subsystem
    <2>2. ManagerInv'
      BY <1>3 DEF TypeOK, ManagerInv, WritePidFile
    <2>3. StartInv'
      BY <1>3 DEF TypeOK, StartInv, HandlerInv, WritePidFile, Subsystem
    <2>4. HandlerInv'
      BY <1>3 DEF TypeOK, StartInv, HandlerInv, WritePidFile
    <2>5. QED
      BY <2>1, <2>2, <2>3, <2>4
  <1>4. CASE InitConfig
    <2>1. TypeOK'
      BY <1>4 DEF TypeOK, InitConfig, Subsystem
    <2>2. ManagerInv'
      BY <1>4 DEF TypeOK, ManagerInv, InitConfig
    <2>3. StartInv'
      BY <1>4 DEF TypeOK, StartInv, HandlerInv, InitConfig, Subsystem
    <2>4. HandlerInv'
      BY <1>4 DEF TypeOK, StartInv, HandlerInv, InitConfig
    <2>5. QED
      BY <2>1, <2>2, <2>3, <2>4
  <1>5. CASE InitManager
    <2>1. TypeOK'
      BY <1>5 DEF TypeOK, InitManager, Subsystem
    <2>2. ManagerInv'
      BY <1>5 DEF TypeOK, ManagerInv, InitManager
    <2>3. StartInv'
      BY <1>5 DEF TypeOK, StartInv, HandlerInv, InitManager, Subsystem
    <2>4. HandlerInv'
      BY <1>5 DEF TypeOK, StartInv, HandlerInv, InitManager
    <2>5. QED
      BY <2>1, <2>2, <2>3, <2>4
  <1>6. CASE SetupSignalHandlers
    <2>1. TypeOK'
      BY <1>6 DEF TypeOK, SetupSignalHandlers, Subsystem
    <2>2. ManagerInv'
      BY <1>6 DEF TypeOK, ManagerInv, SetupSignalHandlers
    <2>3. StartInv'
      BY <1>6 DEF TypeOK, StartInv, HandlerInv, SetupSignalHandlers, Subsystem
    <2>4. HandlerInv'
      BY <1>6 DEF TypeOK, StartInv, HandlerInv, SetupSignalHandlers
    <2>5. QED
      BY <2>1, <2>2, <2>3, <2>4
  <1>7. CASE StartSystem
    <2>1. TypeOK'
      BY <1>7 DEF TypeOK, StartSystem, Subsystem
    <2>2. ManagerInv'
      BY <1>7 DEF TypeOK, ManagerInv, StartSystem
    <2>3. StartInv'
      BY <1>7 DEF TypeOK, StartInv, HandlerInv, StartSystem, Subsystem
    <2>4. HandlerInv'
      BY <1>7 DEF TypeOK, StartInv, HandlerInv, StartSystem
    <2>5. QED
      BY <2>1, <2>2, <2>3, <2>4
  <1>8. CASE InitSubsystem
    <2>1. TypeOK'
      <3>1. k \in Subsystem /\ k + 1 \in 1..(N + 1)
        BY <1>8 DEF TypeOK, InitSubsystem, Subsystem
      <3>2. QED
        BY <1>8, <3>1 DEF TypeOK, InitSubsystem
    <2>2. ManagerInv'
      BY <1>8 DEF TypeOK, ManagerInv, InitSubsystem
    <2>3. StartInv'
      BY <1>8 DEF TypeOK, StartInv, HandlerInv, InitSubsystem, Subsystem
    <2>4. HandlerInv'
      BY <1>8 DEF TypeOK, StartInv, HandlerInv, InitSubsystem
    <2>5. QED
      BY <2>1, <2>2, <2>3, <2>4
  <1>9. CASE AllInitialized
    <2>1. TypeOK'
      BY <1>9 DEF TypeOK, AllInitialized, Subsystem
    <2>2. ManagerInv'
      BY <1>9 DEF TypeOK, ManagerInv, AllInitialized
    <2>3. StartInv'
      BY <1>9 DEF TypeOK, StartInv, HandlerInv, AllInitialized, Subsystem
    <2>4. HandlerInv'
      BY <1>9 DEF TypeOK, StartInv, HandlerInv, AllInitialized
    <2>5. QED
      BY <2>1, <2>2, <2>3, <2>4
  <1>10. CASE StartSubsystem
    <2>1. TypeOK'
      <3>1. k \in Subsystem /\ k + 1 \in 1..(N + 1)
        BY <1>10 DEF TypeOK, StartSubsystem, Subsystem
      <3>2. QED
        BY <1>10, <3>1 DEF TypeOK, StartSubsystem
    <2>2. ManagerInv'
      BY <1>10 DEF TypeOK, ManagerInv, StartSubsystem
    <2>3. StartInv'
      BY <1>10 DEF TypeOK, StartInv, HandlerInv, StartSubsystem, Subsystem
    <2>4. HandlerInv'
      BY <1>10 DEF TypeOK, StartInv, HandlerInv, StartSubsystem
    <2>5. QED
      BY <2>1, <2>2, <2>3, <2>4
  <1>11. CASE AllStarted
    <2>1. TypeOK'
      BY <1>11 DEF TypeOK, AllStarted, Subsystem
    <2>2. ManagerInv'
      BY <1>11 DEF TypeOK, ManagerInv, AllStarted
    <2>3. StartInv'
      BY <1>11 DEF TypeOK, StartInv, HandlerInv, AllStarted, Subsystem
    <2>4. HandlerInv'
      BY <1>11 DEF TypeOK, StartInv, HandlerInv, AllStarted
    <2>5. QED
      BY <2>1, <2>2, <2>3, <2>4
  <1>12. CASE Poll
    <2>1. TypeOK'
      BY <1>12 DEF TypeOK, Poll, Subsystem
    <2>2. ManagerInv'
      BY <1>12 DEF TypeOK, ManagerInv, Poll
    <2>3. StartInv'
      BY <1>12 DEF TypeOK, StartInv, HandlerInv, Poll, Subsystem
    <2>4. HandlerInv'
      BY <1>12 DEF TypeOK, StartInv, HandlerInv, Poll
    <2>5. QED
      BY <2>1, <2>2, <2>3, <2>4
  <1>13. CASE Pause
    <2>1. TypeOK'
      BY <1>13 DEF TypeOK, Pause, Subsystem
    <2>2. ManagerInv'
      BY <1>13 DEF TypeOK, ManagerInv, Pause
    <2>3. StartInv'
      BY <1>13 DEF TypeOK, StartInv, HandlerInv, Pause, Subsystem
    <2>4. HandlerInv'
      BY <1>13 DEF TypeOK, StartInv, HandlerInv, Pause
    <2>5. QED
      BY <2>1, <2>2, <2>3, <2>4
  <1>14. CASE ClearGlobal
    <2>1. TypeOK'
      BY <1>14 DEF TypeOK, ClearGlobal, Subsystem, None
    <2>2. ManagerInv'
      BY <1>14 DEF TypeOK, ManagerInv, ClearGlobal
    <2>3. StartInv'
      BY <1>14 DEF TypeOK, StartInv, HandlerInv, ClearGlobal, Subsystem, None
    <2>4. HandlerInv'
      BY <1>14 DEF TypeOK, StartInv, HandlerInv, ClearGlobal
    <2>5. QED
      BY <2>1, <2>2, <2>3, <2>4
  <1>15. CASE FreeManager
    <2>1. TypeOK'
      BY <1>15 DEF TypeOK, FreeManager, Subsystem
    <2>2. ManagerInv'
      BY <1>15 DEF TypeOK, ManagerInv, FreeManager
    <2>3. StartInv'
      BY <1>15 DEF TypeOK, StartInv, HandlerInv, FreeManager, Subsystem
    <2>4. HandlerInv'
      BY <1>15 DEF TypeOK, StartInv, HandlerInv, FreeManager
    <2>5. QED
      BY <2>1, <2>2, <2>3, <2>4
  <1>16. CASE RemovePidFile
    <2>1. TypeOK'
      BY <1>16 DEF TypeOK, RemovePidFile, Subsystem
    <2>2. ManagerInv'
      BY <1>16 DEF TypeOK, ManagerInv, RemovePidFile
    <2>3. StartInv'
      BY <1>16 DEF TypeOK, StartInv, HandlerInv, RemovePidFile, Subsystem
    <2>4. HandlerInv'
      BY <1>16 DEF TypeOK, StartInv, HandlerInv, RemovePidFile
    <2>5. QED
      BY <2>1, <2>2, <2>3, <2>4
  <1>17. QED
    BY <1>1, <1>2, <1>3, <1>4, <1>5, <1>6, <1>7, <1>8, <1>9, <1>10, <1>11, <1>12, <1>13, <1>14, <1>15, <1>16 DEF Main

\* The invocations of handlers.
LEMMA SignalStep == IInv /\ (\E sig \in Signal : Kill(sig) \/ Deliver(sig)) => IInv'
  <1> SUFFICES ASSUME IInv, NEW sig \in Signal, Kill(sig) \/ Deliver(sig) PROVE IInv'
    OBVIOUS
  <1> USE NType DEF IInv, managerVars, Ended
  <1>1. CASE Kill(sig)
    <2>1. TypeOK'
      BY <1>1 DEF TypeOK, Kill, MainPC
    <2>2. ManagerInv' /\ HandlerInv'
      BY <1>1 DEF TypeOK, ManagerInv, HandlerInv, Kill, BeforeManager, Serving
    <2>3. StartInv'
      BY <1>1 DEF TypeOK, StartInv, Kill, BeforeManager, Serving
    <2>4. QED
      BY <2>1, <2>2, <2>3
  <1>2. CASE Deliver(sig) /\ ~(sig \in ShutdownSignals /\ global)
    <2>1. stack' = stack /\ (pc' = pc \/ (pc = "blocked" /\ pc' = "poll"))
      BY <1>2 DEF Deliver, ReturnTo
    <2>2. TypeOK'
      <3>1. pc' \in MainPC
        BY <2>1 DEF TypeOK, MainPC, Serving
      <3>2. disposition' \in [Signal -> {"default", "handler"}]
        BY <1>2 DEF TypeOK, Deliver
      <3>3. QED
        BY <1>2, <2>1, <3>1, <3>2 DEF TypeOK, Deliver
    <2>3. ManagerInv' /\ StartInv' /\ HandlerInv'
      BY <1>2, <2>1 DEF ManagerInv, StartInv, HandlerInv, Deliver, BeforeManager, Serving
    <2>4. QED
      BY <2>2, <2>3
  <1>3. CASE Deliver(sig) /\ sig \in ShutdownSignals /\ global
    <2> DEFINE f == [sig |-> sig, at |-> "entry", next |-> N]
    <2>1. f \in Frame
      BY <1>3 DEF Frame
    <2>2. stack' = Append(stack, f) /\ pc' = pc /\ UNCHANGED <<k, managerVars, pid>>
      BY <1>3 DEF Deliver
    <2>3. stack \in Seq(Frame)
      BY DEF TypeOK
    <2> HIDE DEF f
    <2>4. /\ stack' \in Seq(Frame)
          /\ DOMAIN stack' = 1..(Len(stack) + 1)
          /\ \A i \in DOMAIN stack : stack'[i] = stack[i]
          /\ stack'[Len(stack) + 1] = f
          /\ stack' # <<>>
      BY <2>1, <2>2, <2>3, StackOperations
    <2>5. f.at = "entry" /\ f.next = N
      BY DEF f
    <2>6. TypeOK'
      BY <1>3, <2>2, <2>4 DEF TypeOK, Deliver
    <2>7. ManagerInv' /\ StartInv'
      BY <1>3, <2>2 DEF TypeOK, ManagerInv, StartInv, Deliver, BeforeManager, Serving, MainPC
    <2>8. DOMAIN stack = 1..Len(stack) /\ Len(stack) \in Nat
      BY <2>3
    <2>9. HandlerInv'
      BY <2>2, <2>4, <2>5, <2>8 DEF HandlerInv
    <2>10. QED
      BY <2>6, <2>7, <2>9
  <1>4. QED
    BY <1>1, <1>2, <1>3

\* The innermost invocation of a handler makes one step.
LEMMA HandlerStep == IInv /\ Handler => IInv'
  <1> SUFFICES ASSUME IInv, Handler PROVE IInv'
    OBVIOUS
  <1> USE NType DEF IInv, managerVars
  <1> DEFINE n == Len(stack)
  <1>1. stack \in Seq(Frame) /\ stack # <<>> /\ global /\ allocated /\ pc \notin Ended
    BY DEF Handler, CheckRunning, BeginShutdown, StopSubsystem, FinishShutdown, Running,
           TypeOK, ManagerInv
  <1>2. /\ n \in Nat \ {0} /\ DOMAIN stack = 1..n /\ stack[n] \in Frame
        /\ Below \in Seq(Frame) /\ DOMAIN Below = 1..(n - 1)
        /\ \A i \in 1..(n - 1) : Below[i] = stack[i]
    BY <1>1, StackPop DEF Below
  <1>3. ASSUME NEW f \in Frame, stack' = [stack EXCEPT ![n] = f]
        PROVE  /\ stack' \in Seq(Frame) /\ DOMAIN stack' = 1..n
               /\ stack' # <<>> /\ stack'[n] = f
               /\ \A i \in 1..(n - 1) : stack'[i] = stack[i]
    <2> DEFINE r == [stack EXCEPT ![n] = f]
    <2>1. /\ r \in Seq(Frame) /\ DOMAIN r = DOMAIN stack /\ r # <<>> /\ r[n] = f
          /\ \A i \in DOMAIN stack : i # n => r[i] = stack[i]
      BY <1>1, <1>3, StackReplaceTop
    <2> HIDE DEF r
    <2>2. stack' = r
      BY <1>3 DEF r
    <2>3. \A i \in 1..(n - 1) : i \in DOMAIN stack /\ i # n
      <3>1. n \in Nat /\ DOMAIN stack = 1..n
        BY <1>2
      <3> HIDE DEF n
      <3>2. QED
        BY <3>1
    <2>4. QED
      BY <1>2, <2>1, <2>2, <2>3
  <1>4. Top = stack[n] /\ Top \in Frame
    BY <1>2 DEF Top
  <1>5. \/ Below = <<>> /\ n = 1
        \/ Below # <<>>
    BY <1>2
  <1>6. CASE CheckRunning /\ state = "RUNNING"
    <2> DEFINE f == [Top EXCEPT !.at = "checked"]
    <2>1. f \in Frame /\ f.at = "checked" /\ f.next = Top.next /\ Top.at = "entry"
      BY <1>4, <1>6 DEF Frame, CheckRunning, Running
    <2>2. stack' = [stack EXCEPT ![n] = f] /\ pc' = pc
          /\ UNCHANGED <<k, managerVars, disposition, pid>>
      BY <1>4, <1>6 DEF CheckRunning
    <2> HIDE DEF f
    <2>3. TypeOK'
      BY <1>3, <2>1, <2>2 DEF TypeOK
    <2>4. ManagerInv' /\ StartInv'
      BY <1>1, <2>2 DEF ManagerInv, StartInv
    <2>5. pc \in Serving
      BY <1>1, <1>6 DEF TypeOK, MainPC, StartInv, BeforeManager, Serving, Ended
    <2>6. HandlerInv'
      BY <1>2, <1>3, <1>4, <1>6, <2>1, <2>2, <2>5 DEF HandlerInv
    <2>7. QED
      BY <2>3, <2>4, <2>6
  <1>7. CASE CheckRunning /\ state # "RUNNING"
    <2>1. stack' = Below /\ (pc' = pc \/ (pc = "blocked" /\ pc' = "poll"))
          /\ UNCHANGED <<k, managerVars, disposition, pid>> /\ Top.at = "entry"
      BY <1>7 DEF CheckRunning, ReturnTo, Running
    <2>2. TypeOK'
      <3>1. pc' \in MainPC
        BY <2>1 DEF TypeOK, MainPC, Serving
      <3>2. QED
        BY <1>2, <2>1, <3>1 DEF TypeOK
    <2>3. ManagerInv' /\ StartInv'
      BY <1>1, <2>1 DEF ManagerInv, StartInv, BeforeManager, Serving, Ended
    <2>4. HandlerInv'
      BY <1>1, <1>2, <1>4, <2>1 DEF HandlerInv, Serving, Ended
    <2>5. QED
      BY <2>2, <2>3, <2>4
  <1>8. CASE BeginShutdown
    <2> DEFINE f == [Top EXCEPT !.at = "stopping"]
    <2>1. f \in Frame /\ f.at = "stopping" /\ f.next = Top.next /\ Top.at = "checked"
      BY <1>4, <1>8 DEF Frame, BeginShutdown, Running
    <2>2. stack' = [stack EXCEPT ![n] = f] /\ pc' = pc /\ state' = "SHUTTING_DOWN"
          /\ UNCHANGED <<k, initialized, started, instance, global, allocated, disposition, pid>>
      BY <1>4, <1>8 DEF BeginShutdown
    <2> HIDE DEF f
    <2>3. TypeOK'
      BY <1>3, <2>1, <2>2 DEF TypeOK, SystemState
    <2>4. pc \in Serving /\ Top.next = N
      BY <1>2, <1>4, <2>1 DEF HandlerInv
    <2>5. ManagerInv' /\ StartInv'
      BY <1>1, <2>2, <2>4 DEF ManagerInv, StartInv, BeforeManager, Serving, Ended
    <2>6. HandlerInv'
      <3>1. \A s \in Subsystem : ~(s > N)
        BY DEF Subsystem
      <3>2. DOMAIN stack' = 1..n /\ stack'[n] = f
            /\ \A i \in 1..(n - 1) : stack'[i] = stack[i]
        BY <1>3, <2>1, <2>2
      <3>3. \A i \in 1..n : i = n \/ i \in 1..(n - 1)
        <4>1. n \in Nat
          BY <1>2
        <4> HIDE DEF n
        <4>2. QED
          BY <4>1
      <3>4. \E i \in DOMAIN stack' : stack'[i].at = "stopping"
        BY <1>2, <2>1, <3>2
      <3>5. QED
        BY <1>2, <2>1, <2>2, <2>4, <3>1, <3>2, <3>3, <3>4 DEF HandlerInv
    <2>7. QED
      BY <2>3, <2>5, <2>6
  <1>9. CASE StopSubsystem
    <2> DEFINE f == [Top EXCEPT !.next = @ - 1]
    <2>1. Top.next \in Subsystem /\ Top.at = "stopping"
      BY <1>4, <1>9 DEF Frame, StopSubsystem, Running, Subsystem
    <2>2. f \in Frame /\ f.at = "stopping" /\ f.next = Top.next - 1
      BY <1>4, <2>1 DEF Frame, Subsystem
    <2>3. stack' = [stack EXCEPT ![n] = f] /\ pc' = pc
          /\ started' = [started EXCEPT ![Top.next] = FALSE]
          /\ UNCHANGED <<k, state, initialized, instance, global, allocated, disposition, pid>>
      BY <1>4, <1>9 DEF StopSubsystem
    <2> HIDE DEF f
    <2>4. TypeOK'
      BY <1>3, <2>1, <2>2, <2>3 DEF TypeOK
    <2>5. pc \in Serving /\ state # "RUNNING"
          /\ \A s \in Subsystem : s > Top.next => ~started[s]
      BY <1>2, <1>4, <2>1 DEF HandlerInv
    <2>6. \A s \in Subsystem : ~started[s] \/ s = Top.next => ~started'[s]
      BY <2>1, <2>3 DEF TypeOK
    <2>7. ManagerInv' /\ StartInv'
      BY <1>1, <2>3, <2>5, <2>6 DEF ManagerInv, StartInv, BeforeManager, Serving, Ended
    <2>8. HandlerInv'
      <3>1. \A s \in Subsystem : s > Top.next - 1 => ~started'[s]
        BY <2>1, <2>5, <2>6 DEF Subsystem
      <3>2. DOMAIN stack' = DOMAIN stack /\ stack'[n] = f
            /\ \A i \in DOMAIN stack : i # n => stack'[i] = stack[i]
        BY <1>2, <1>3, <2>2, <2>3
      <3>3. \A i \in DOMAIN stack' : stack'[i].at # "entry" => pc' \in Serving
        BY <2>3, <2>5
      <3>4. \A i \in DOMAIN stack' : stack'[i].at # "stopping" => stack'[i].next = N
        BY <1>2, <2>2, <3>2 DEF HandlerInv
      <3>5. ASSUME NEW i \in DOMAIN stack', stack'[i].at = "stopping"
            PROVE  /\ state' # "RUNNING"
                   /\ \A s \in Subsystem : s > stack'[i].next => ~started'[s]
        <4>1. CASE i = n
          BY <2>2, <2>3, <2>5, <3>1, <3>2, <4>1
        <4>2. CASE i # n
          <5>1. \A s \in Subsystem : s > stack[i].next => ~started[s]
            BY <1>2, <3>2, <3>5, <4>2 DEF HandlerInv
          <5>2. QED
            BY <2>3, <2>5, <2>6, <3>2, <4>2, <5>1
        <4>3. QED
          BY <4>1, <4>2
      <3>6. \E i \in DOMAIN stack' : stack'[i].at = "stopping"
        BY <1>2, <1>3, <2>2, <3>2
      <3>7. QED
        BY <3>3, <3>4, <3>5, <3>6 DEF HandlerInv
    <2>9. QED
      BY <2>4, <2>7, <2>8
  <1>10. CASE FinishShutdown
    <2>1. stack' = Below /\ (pc' = pc \/ (pc = "blocked" /\ pc' = "poll"))
          /\ state' = "SHUTDOWN" /\ Top.at = "stopping" /\ Top.next = 0
          /\ UNCHANGED <<k, initialized, started, instance, global, allocated, disposition, pid>>
      BY <1>10 DEF FinishShutdown, ReturnTo, Running
    <2>2. TypeOK'
      <3>1. pc' \in MainPC
        BY <2>1 DEF TypeOK, MainPC, Serving
      <3>2. QED
        BY <1>2, <2>1, <3>1 DEF TypeOK, SystemState
    <2>3. pc \in Serving
      BY <1>2, <1>4, <2>1 DEF HandlerInv
    <2>4. \A s \in Subsystem : ~started[s]
      BY <1>2, <1>4, <2>1 DEF HandlerInv, Subsystem
    <2>5. ManagerInv' /\ StartInv'
      BY <1>1, <2>1, <2>3, <2>4 DEF ManagerInv, StartInv, BeforeManager, Serving, Ended
    <2>6. HandlerInv'
      BY <1>2, <2>1, <2>3, <2>4 DEF HandlerInv, Serving, Ended
    <2>7. QED
      BY <2>2, <2>5, <2>6
  <1>11. QED
    BY <1>6, <1>7, <1>8, <1>9, <1>10 DEF Handler

\* Every reachable state satisfies the inductive invariant.
THEOREM Invariance == Spec => []IInv
  <1>1. IInv /\ UNCHANGED vars => IInv'
    BY DEF vars, managerVars, IInv, TypeOK, ManagerInv, StartInv, HandlerInv
  <1>2. IInv /\ [Next]_vars => IInv'
    BY <1>1, MainStep, HandlerStep, SignalStep DEF Next
  <1>3. QED
    BY InitIInv, <1>2, PTL DEF Spec

\* The variables of the process have their types.
THEOREM TypeCorrect == Spec => []TypeOK
  BY Invariance, PTL DEF IInv

\* A system that reads RUNNING has every subsystem initialized and started,
\* also while a handler runs on top of main().
THEOREM RunningComplete == Spec => []RunningIsComplete
  <1>1. IInv => RunningIsComplete
    BY DEF IInv, StartInv, RunningIsComplete
  <1>2. QED
    BY Invariance, <1>1, PTL

\* No handler works on a manager that was freed.
THEOREM HandlersSafe == Spec => []NoUseAfterFree
  <1>1. IInv => NoUseAfterFree
    BY DEF IInv, ManagerInv, NoUseAfterFree
  <1>2. QED
    BY Invariance, <1>1, PTL

\* The manager is destroyed only with every subsystem stopped.
THEOREM StoppedFirst == Spec => []StoppedBeforeDestroy
  <1>1. IInv => StoppedBeforeDestroy
    BY DEF IInv, StartInv, StoppedBeforeDestroy
  <1>2. QED
    BY Invariance, <1>1, PTL

\* Only the two stop loops lower `started', and the loop of a handler has
\* already stopped every subsystem above the one it is at.
THEOREM ReverseOrder == Spec => StopsInReverseDependencyOrder
  <1> DEFINE A == \A s, t \in Subsystem :
                    started[s] /\ ~started'[s] /\ s \in Uses[t] => ~started[t]
  <1>1. ASSUME IInv, Next PROVE A
    <2> SUFFICES ASSUME NEW s \in Subsystem, NEW t \in Subsystem,
                        started[s], ~started'[s], s \in Uses[t]
                 PROVE  ~started[t]
      OBVIOUS
    <2> USE <1>1
    <2>1. s < t
      BY LifecycleAssumption
    <2>2. CASE StopSubsystem
      <3>1. stack \in Seq(Frame) /\ stack # <<>>
        BY <2>2 DEF IInv, TypeOK, StopSubsystem, Running
      <3>2. Len(stack) \in DOMAIN stack /\ Top \in Frame
        BY <3>1, StackPop DEF Top
      <3>3. Top.next \in Subsystem
        BY <2>2, <3>2 DEF StopSubsystem, Frame, Subsystem
      <3>4. s = Top.next
        BY <2>2, <3>3 DEF StopSubsystem, IInv, TypeOK
      <3>5. \A u \in Subsystem : u > Top.next => ~started[u]
        BY <2>2, <3>2 DEF StopSubsystem, Running, Top, IInv, HandlerInv
      <3>6. QED
        BY <2>1, <3>3, <3>4, <3>5 DEF Subsystem
    <2>3. CASE StartSubsystem
      <3>1. started' = started \/ started' = [started EXCEPT ![k] = TRUE]
        BY <2>3 DEF StartSubsystem
      <3>2. QED
        BY <3>1 DEF IInv, TypeOK
    <2>4. CASE ClearGlobal
      BY <2>4 DEF ClearGlobal, At, IInv, StartInv
    <2>5. CASE started' = started
      BY <2>5
    <2>6. QED
      BY <2>2, <2>3, <2>4, <2>5
      DEF Next, Main, Handler, ParseArgs, Daemonize, WritePidFile, InitConfig, InitManager,
          SetupSignalHandlers, StartSystem, InitSubsystem, AllInitialized, AllStarted, Poll,
          Pause, FreeManager, RemovePidFile, Kill, Deliver, CheckRunning, BeginShutdown,
          FinishShutdown, managerVars
  <1>2. IInv /\ [Next]_vars => [A]_vars
    BY <1>1
  <1>3. QED
    BY Invariance, <1>2, PTL DEF Spec, StopsInReverseDependencyOrder

\* mm_system_start initializes a subsystem only after all those whose instance
\* its creation is handed.
THEOREM DependencyOrder == Spec => InitializesInDependencyOrder
  <1> DEFINE A == \A s \in Subsystem : ~initialized[s] /\ initialized'[s]
                                        => \A d \in Uses[s] : initialized[d]
  <1>1. ASSUME IInv, Next PROVE A
    <2> SUFFICES ASSUME NEW s \in Subsystem, ~initialized[s], initialized'[s],
                        NEW d \in Uses[s]
                 PROVE  initialized[d]
      OBVIOUS
    <2> USE <1>1
    <2>1. d \in Subsystem /\ d < s
      BY LifecycleAssumption
    <2>2. CASE InitSubsystem
      <3>1. s = k
        BY <2>2 DEF InitSubsystem, IInv, TypeOK
      <3>2. QED
        BY <2>1, <2>2, <3>1 DEF InitSubsystem, At, IInv, StartInv
    <2>3. CASE initialized' = initialized
      BY <2>3
    <2>4. QED
      BY <2>2, <2>3
      DEF Next, Main, Handler, ParseArgs, Daemonize, WritePidFile, InitConfig, InitManager,
          SetupSignalHandlers, StartSystem, AllInitialized, StartSubsystem, AllStarted, Poll,
          Pause, ClearGlobal, FreeManager, RemovePidFile, Kill, Deliver, CheckRunning,
          BeginShutdown, StopSubsystem, FinishShutdown, managerVars
  <1>2. IInv /\ [Next]_vars => [A]_vars
    BY <1>1
  <1>3. QED
    BY Invariance, <1>2, PTL DEF Spec, InitializesInDependencyOrder
=============================================================================
