---------------------------- MODULE Supervisor ----------------------------
(***************************************************************************)
(* peisinit (src/peisinit/G6/src/peisinit.c): one of its commands.  The    *)
(* main thread sets the state that is requested, an exec thread (execFn)   *)
(* keeps the program running while it is to be on and stops it when it is  *)
(* not, and for each start a spawn thread (spawnFn) forks and waits for    *)
(* the process.  They share the fields of the InitCommand without a lock,  *)
(* so one action is what a thread does between two accesses that another   *)
(* may come between.                                                       *)
(***************************************************************************)
EXTENDS Naturals, FiniteSets, Sequences

CONSTANTS
  Execs,    \* exec threads there may be at a time
  Spawns,   \* spawn threads
  Pids,     \* processes
  Races     \* does a thread run while another is not asleep

ASSUME SupervisorAssumption ==
  /\ 0 \notin Pids \cup Spawns
  /\ Races \in BOOLEAN

VARIABLES
  reqState, currState, pid,  \* fields of the command
  spawnSem,     \* its semaphore
  spawnThread,  \* the spawn thread created last
  exec,         \* where each exec thread is, and how far it is in stopping
  spawn,        \* where each spawn thread is, and what it waits for
  process,      \* "none", "running", "writing" or "zombie"
  announced,    \* the tuples currState and pid
  crowded       \* history: has a second exec thread been created

command == <<reqState, currState, pid, spawnSem, spawnThread>>
vars == <<command, exec, spawn, process, announced, crowded>>

NoPid == 0
NoThread == 0
States == {"off", "on", "abort", "start"}

\* What is tried in turn: quit tuples, two signals that a process may ignore (SIGABRT
\* is like SIGTERM), and one it may not.
Stages == <<"do-quit", "SIGINT", "SIGTERM", "SIGKILL">>

\* A process that is "writing" fills its pipes faster than they are read; one that is
\* "running" leaves them empty for long enough to be noticed.
Alive == {"running", "writing"}

Init ==
  /\ reqState = "off" /\ currState = "off" /\ pid = NoPid
  /\ spawnSem = 0 /\ spawnThread = NoThread
  /\ exec = [e \in Execs |-> [pc |-> "none", stage |-> 1]]
  /\ spawn = [s \in Spawns |-> [pc |-> "none", awaits |-> NoPid]]
  /\ process = [p \in Pids |-> "none"]
  /\ announced = [state |-> "off", pid |-> NoPid]
  /\ crowded = FALSE

----------------------------------------------------------------------------
(* Threads *)

\* A thread that sleeps, waits or is gone.  While it reads the pipes it looks at no
\* field that others change, so they come and go as while it sleeps.
ExecAsleep(e) ==
  \/ exec[e].pc \in {"none", "delay", "watch", "drain", "stop", "pause"}
  \/ exec[e].pc = "await" /\ spawnSem = 0
SpawnAsleep(s) == spawn[s].pc \in {"none", "wait", "reaped"}

\* Unless Races, a thread wakes only while all others are asleep: sleeps last
\* 100 ms and more, what comes between them some system calls.
ExecMay(e) ==
  \/ Races
  \/ /\ \A d \in Execs \ {e} : ExecAsleep(d)
     /\ ExecAsleep(e) => \A s \in Spawns : SpawnAsleep(s)
SpawnMay(s) ==
  \/ Races
  \/ /\ \A t \in Spawns \ {s} : SpawnAsleep(t)
     /\ SpawnAsleep(s) => \A e \in Execs : ExecAsleep(e)

Idle(e) == exec[e].pc = "none"
Goes(e, pc) == exec' = [exec EXCEPT ![e].pc = pc]
SpawnGoes(s, pc) == spawn' = [spawn EXCEPT ![s].pc = pc]

ToRun == reqState \in {"on", "start"}

\* Seeded fault: only a restart stops the process.
ToStopOnlyToRestart == reqState = "start"

ToStop == reqState \in {"off", "start"}

----------------------------------------------------------------------------
(* The main thread *)

\* tupleCallback_reqState: what is requested is off or on already, or an exec
\* thread is created, without a look at those that are there.
Request(r) ==
  /\ \/ Races
     \/ (\A e \in Execs : ExecAsleep(e)) /\ (\A s \in Spawns : SpawnAsleep(s))
  /\ reqState' = r
  /\ IF r = "on" /\ currState # "on"
     THEN /\ \E e \in Execs : Idle(e) /\ Goes(e, "test")
          /\ crowded' = (crowded \/ \E e \in Execs : ~ Idle(e))
     ELSE UNCHANGED <<exec, crowded>>
  /\ UNCHANGED <<currState, pid, spawnSem, spawnThread, spawn, process, announced>>

----------------------------------------------------------------------------
(* execFn *)

Test(e) ==
  /\ exec[e].pc = "test"
  /\ Goes(e, IF ToRun THEN "delay" ELSE "none")
  /\ UNCHANGED <<command, spawn, process, announced, crowded>>

Create(e) ==
  /\ exec[e].pc = "delay"
  /\ \E s \in Spawns :
       /\ spawn[s].pc = "none"
       /\ SpawnGoes(s, "fork")
       /\ spawnThread' = s
  /\ Goes(e, "await")
  /\ UNCHANGED <<reqState, currState, pid, spawnSem, process, announced, crowded>>

Await(e) ==
  /\ exec[e].pc = "await"
  /\ spawnSem > 0
  /\ spawnSem' = spawnSem - 1
  /\ Goes(e, IF reqState = "start" THEN "again" ELSE "begun")
  /\ UNCHANGED <<reqState, currState, pid, spawnThread, spawn, process, announced, crowded>>

\* What was requested since it was read is overwritten.
Again(e) ==
  /\ exec[e].pc = "again"
  /\ reqState' = "on"
  /\ Goes(e, "begun")
  /\ UNCHANGED <<currState, pid, spawnSem, spawnThread, spawn, process, announced, crowded>>

\* updateCommandTuple
updateCommandTuple == announced' = [state |-> currState', pid |-> pid]

Begin(e) ==
  /\ exec[e].pc = "begun"
  /\ currState' = "on"
  /\ updateCommandTuple
  /\ Goes(e, "watch")
  /\ UNCHANGED <<reqState, pid, spawnSem, spawnThread, spawn, process, crowded>>

\* A pass of the loop begins, every 100 ms.
Watch(e) ==
  /\ exec[e].pc = "watch"
  /\ Goes(e, IF currState = "on" THEN "drain" ELSE "leave")
  /\ UNCHANGED <<command, spawn, process, announced, crowded>>

\* It reads until the pipes are empty, however long that takes, and then looks whether
\* the process is to be stopped.
Drain(e) ==
  /\ exec[e].pc = "drain"
  /\ pid # NoPid => process[pid] # "writing"
  /\ \/ ~ ToStop /\ Goes(e, "watch")
     \/ ToStop /\ pid = NoPid /\ Goes(e, "leave")
     \/ ToStop /\ pid # NoPid /\ exec' = [exec EXCEPT ![e] = [pc |-> "stop", stage |-> 1]]
  /\ UNCHANGED <<command, spawn, process, announced, crowded>>

\* Was the last stage without effect?
Stop(e) ==
  /\ exec[e].pc = "stop"
  /\ IF exec[e].stage = Len(Stages) THEN Goes(e, "watch")
     ELSE exec' = [exec EXCEPT ![e] = [pc |-> IF currState = "on" THEN "aim" ELSE "stop",
                                       stage |-> exec[e].stage + 1]]
  /\ UNCHANGED <<command, spawn, process, announced, crowded>>

\* The signal goes to what pid is by now.  If that was waited for already kill fails,
\* and execFn, which means to skip the sleep, sets currState.
Signal(e) ==
  /\ exec[e].pc = "aim"
  /\ process' = IF pid # NoPid /\ process[pid] \in Alive /\ Stages[exec[e].stage] = "SIGKILL"
                THEN [process EXCEPT ![pid] = "zombie"] ELSE process
  /\ currState' = IF pid # NoPid /\ process[pid] = "none" /\ Stages[exec[e].stage] = "SIGINT"
                  THEN "on" ELSE currState
  /\ Goes(e, "stop")
  /\ UNCHANGED <<reqState, pid, spawnSem, spawnThread, spawn, announced, crowded>>

\* pthread_cancel: where the thread sleeps, waits or closes a file.
Cancelled(s) ==
  IF s # NoThread /\ spawn[s].pc \in {"fork", "forked", "started", "wait", "reaped"}
  THEN spawn' = [spawn EXCEPT ![s] = [pc |-> "none", awaits |-> NoPid]]
  ELSE UNCHANGED spawn

\* Seeded fault: the end of the process is not announced.
LeaveSilently(e) ==
  /\ exec[e].pc = "leave"
  /\ UNCHANGED announced
  /\ Cancelled(spawnThread)
  /\ Goes(e, IF ToRun THEN "pause" ELSE "test")
  /\ UNCHANGED <<command, process, crowded>>

\* Seeded fault: the process is not started again.
LeaveForGood(e) ==
  /\ exec[e].pc = "leave"
  /\ announced' = [state |-> currState, pid |-> pid]
  /\ Cancelled(spawnThread)
  /\ Goes(e, "none")
  /\ UNCHANGED <<command, process, crowded>>

Leave(e) ==
  /\ exec[e].pc = "leave"
  /\ announced' = [state |-> currState, pid |-> pid]
  /\ Cancelled(spawnThread)
  /\ Goes(e, IF ToRun THEN "pause" ELSE "test")
  /\ UNCHANGED <<command, process, crowded>>

Pause(e) ==
  /\ exec[e].pc = "pause"
  /\ Goes(e, "test")
  /\ UNCHANGED <<command, spawn, process, announced, crowded>>

ExecStep(e) ==
  /\ ExecMay(e)
  /\ \/ Test(e) \/ Create(e) \/ Await(e) \/ Again(e) \/ Begin(e)
     \/ Watch(e) \/ Drain(e) \/ Stop(e) \/ Signal(e) \/ Leave(e) \/ Pause(e)

----------------------------------------------------------------------------
(* spawnFn *)

Fork(s) ==
  /\ spawn[s].pc = "fork"
  /\ \E p \in Pids :
       /\ process[p] = "none"
       /\ process' = [process EXCEPT ![p] = "running"]
       /\ pid' = p
  /\ SpawnGoes(s, "forked")
  /\ UNCHANGED <<reqState, currState, spawnSem, spawnThread, exec, announced, crowded>>

Started(s) ==
  /\ spawn[s].pc = "forked"
  /\ currState' = "on"
  /\ spawnSem' = spawnSem + 1
  /\ SpawnGoes(s, "started")
  /\ UNCHANGED <<reqState, pid, spawnThread, exec, process, announced, crowded>>

\* waitpid is called with what pid is by now.
Wait(s) ==
  /\ spawn[s].pc = "started"
  /\ spawn' = [spawn EXCEPT ![s] = [pc |-> "wait", awaits |-> pid]]
  /\ UNCHANGED <<command, exec, process, announced, crowded>>

\* Seeded fault: the process is not waited for.
ReapedAlive(s) ==
  /\ spawn[s].pc = "wait"
  /\ SpawnGoes(s, "reaped")
  /\ UNCHANGED <<command, exec, process, announced, crowded>>

\* The process has ended, or was waited for by another thread; for pid 0 any will do.
Reaped(s) ==
  LET theirs == IF spawn[s].awaits = NoPid THEN Pids ELSE {spawn[s].awaits} IN
  /\ spawn[s].pc = "wait"
  /\ \E p \in theirs :
       /\ process[p] = "zombie" \/ \A q \in theirs : process[q] = "none"
       /\ process' = [process EXCEPT ![p] = "none"]
  /\ SpawnGoes(s, "reaped")
  /\ UNCHANGED <<command, exec, announced, crowded>>

\* After 100 ms.
Ended(s) ==
  /\ spawn[s].pc = "reaped"
  /\ currState' = "off"
  /\ SpawnGoes(s, "ended")
  /\ UNCHANGED <<reqState, pid, spawnSem, spawnThread, exec, process, announced, crowded>>

Gone(s) ==
  /\ spawn[s].pc = "ended"
  /\ pid' = NoPid
  /\ spawn' = [spawn EXCEPT ![s] = [pc |-> "none", awaits |-> NoPid]]
  /\ UNCHANGED <<reqState, currState, spawnSem, spawnThread, exec, process, announced, crowded>>

SpawnStep(s) ==
  /\ SpawnMay(s)
  /\ Fork(s) \/ Started(s) \/ Wait(s) \/ Reaped(s) \/ Ended(s) \/ Gone(s)

----------------------------------------------------------------------------
\* A process may end at any time, asked to or not.
Die(p) ==
  /\ process[p] \in Alive
  /\ process' = [process EXCEPT ![p] = "zombie"]
  /\ UNCHANGED <<command, exec, spawn, announced, crowded>>

\* It begins to write without pause, or pauses.
Write(p) ==
  /\ \E q \in Alive :
       process[p] \in Alive \ {q} /\ process' = [process EXCEPT ![p] = q]
  /\ UNCHANGED <<command, exec, spawn, announced, crowded>>

Next ==
  \/ \E r \in States : Request(r)
  \/ \E e \in Execs : ExecStep(e)
  \/ \E s \in Spawns : SpawnStep(s)
  \/ \E p \in Pids : Die(p) \/ Write(p)

Spec == Init /\ [][Next]_vars

\* Sleeps end, however often other threads wake before; nothing is assumed of users
\* and of processes: Drain is not enabled while a process is writing.
Fairness ==
  /\ \A e \in Execs : SF_vars(ExecStep(e))
  /\ \A s \in Spawns : SF_vars(SpawnStep(s))

FairSpec == Spec /\ Fairness

----------------------------------------------------------------------------
(* Properties *)

Running == {p \in Pids : process[p] \in Alive}

\* As long as one exec thread serves it, a command has one process at most, and
\* while it has one that thread is there and pid is its process: the respawn waits for
\* the end of the last process, also when requests come in between.
OneProcess ==
  ~ crowded =>
    /\ Cardinality(Running) <= 1
    /\ Running # {} => /\ \E e \in Execs : ~ Idle(e)
                       /\ pid \in Running

\* As long as that is so and no thread serves it, a command is off, is announced as off
\* and may be started again: no pid, no process to be waited for and no count of the
\* semaphore is left of its last run.
OffWhenIdle ==
  ~ crowded /\ (\A e \in Execs : Idle(e)) =>
    /\ currState = "off" /\ pid = NoPid
    /\ announced = [state |-> "off", pid |-> NoPid]
    /\ \A p \in Pids : process[p] = "none"
    /\ spawnSem = 0

\* A command that is to be on for good runs again and again, however often it ends.
KeepsRunning ==
  <>[](reqState = "on") /\ [](~ crowded) => []<>(Running # {})

\* Again and again the process leaves its pipes empty for a while, or is none.
Pausing == []<>(\A p \in Pids : process[p] # "writing")

\* A command that is to be off for good is stopped in the end, and announced as off,
\* unless its process writes for ever without a pause: execFn looks at what is requested
\* only when there is nothing left to read.
StopsInTheEnd ==
  <>[](reqState = "off") /\ [](~ crowded) /\ Pausing =>
    <>[](Running = {} /\ announced.state = "off")
=============================================================================
