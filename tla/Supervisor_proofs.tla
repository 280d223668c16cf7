------------------------- MODULE Supervisor_proofs -------------------------
(***************************************************************************)
(* Theorems about Supervisor, for any number of threads and processes, when *)
(* a thread wakes only while the others are asleep (~ Races).              *)
(***************************************************************************)
EXTENDS Supervisor, FiniteSetTheorems, TLAPS

ExecPcs == {"none", "test", "delay", "await", "again", "begun", "watch", "drain", "stop",
            "aim", "leave", "pause"}
SpawnPcs == {"none", "fork", "forked", "started", "wait", "reaped", "ended"}

ExecType == [pc : ExecPcs, stage : 1 .. Len(Stages)]
SpawnType == [pc : SpawnPcs, awaits : Pids \cup {NoPid}]

TypeOK ==
  /\ reqState \in States
  /\ currState \in {"off", "on"}
  /\ pid \in Pids \cup {NoPid}
  /\ spawnSem \in Nat
  /\ spawnThread \in Spawns \cup {NoThread}
  /\ exec \in [Execs -> ExecType]
  /\ spawn \in [Spawns -> SpawnType]
  /\ process \in [Pids -> {"none", "running", "writing", "zombie"}]
  /\ announced \in [state : {"off", "on"}, pid : Pids \cup {NoPid}]
  /\ crowded \in BOOLEAN

----------------------------------------------------------------------------
(* However many exec threads there are *)

\* Of each kind one thread is awake at most, and one of each only between the
\* start of a process and the time the exec thread has noted it.
OneAwake ==
  /\ \A e, d \in Execs : ~ ExecAsleep(e) /\ ~ ExecAsleep(d) => e = d
  /\ \A s, t \in Spawns : ~ SpawnAsleep(s) /\ ~ SpawnAsleep(t) => s = t
  /\ \A e \in Execs, s \in Spawns : ~ ExecAsleep(e) /\ ~ SpawnAsleep(s) =>
       exec[e].pc \in {"await", "again", "begun"} /\ spawn[s].pc = "started"

\* The semaphore is that of the one exec thread that awaits a start, and of the
\* spawn thread that starts.
SemaphorePaired ==
  /\ \A e, d \in Execs : exec[e].pc = "await" /\ exec[d].pc = "await" => e = d
  /\ spawnSem = 0 \/ (spawnSem = 1 /\ \E e \in Execs : exec[e].pc = "await")
  /\ \A e \in Execs : exec[e].pc = "await" /\ spawnSem = 0 =>
       \E s \in Spawns : spawn[s].pc \in {"fork", "forked"}
  /\ \A s \in Spawns : spawn[s].pc \in {"fork", "forked"} =>
       spawnSem = 0 /\ \E e \in Execs : exec[e].pc = "await"

\* Where the command is on or off for certain, and has a pid as long as it is on.
StateKnown ==
  /\ currState = "on" => pid # NoPid
  /\ \A s \in Spawns :
       /\ spawn[s].pc = "forked" => pid # NoPid
       /\ spawn[s].pc = "started" => currState = "on"
       /\ spawn[s].pc = "ended" => currState = "off"
  /\ spawnSem = 1 => currState = "on"
  /\ \A e \in Execs : exec[e].pc \in {"again", "begun", "aim"} => currState = "on"

ThreadsInv == OneAwake /\ SemaphorePaired /\ StateKnown

----------------------------------------------------------------------------
(* As long as there is one exec thread *)

Free(s) == spawn[s].pc = "none"

OneExec == \A e, d \in Execs : ~ Idle(e) /\ ~ Idle(d) => e = d

\* The exec thread watches over the spawn thread that was created last, the only one.
Watched ==
  \A s \in Spawns : ~ Free(s) =>
    /\ s = spawnThread
    /\ \E e \in Execs : exec[e].pc \in {"await", "again", "begun", "watch", "drain", "stop", "aim"}

\* Without a spawn thread, and before it forks, nothing is left of a run.
NothingLeft ==
  (\A s \in Spawns : spawn[s].pc \in {"none", "fork"}) =>
    /\ currState = "off" /\ pid = NoPid
    /\ \A p \in Pids : process[p] = "none"

\* Until it is waited for, the process is the one of pid; then there is none.
ProcessKnown ==
  \A s \in Spawns :
    /\ spawn[s].pc = "forked" => currState = "off"
    /\ spawn[s].pc \in {"forked", "started", "wait", "reaped", "ended"} => pid \in Pids
    /\ spawn[s].pc \in {"forked", "started", "wait"} =>
         /\ process[pid] \in Alive \cup {"zombie"}
         /\ \A p \in Pids \ {pid} : process[p] = "none"
    /\ spawn[s].pc = "wait" => spawn[s].awaits = pid
    /\ spawn[s].pc \in {"wait", "reaped"} => currState = "on"
    /\ spawn[s].pc \in {"reaped", "ended"} => \A p \in Pids : process[p] = "none"

\* The end of a run is announced before the next.
EndAnnounced ==
  (\A e \in Execs : exec[e].pc \in {"none", "test", "delay", "pause"}) =>
    announced = [state |-> "off", pid |-> NoPid]

ServedInv == OneExec /\ Watched /\ NothingLeft /\ ProcessKnown /\ EndAnnounced

IInv == TypeOK /\ ThreadsInv /\ (~ crowded => ServedInv)

----------------------------------------------------------------------------
(* Steps *)

\* There are four stages.
LEMMA StagesShape == Len(Stages) = 4
BY DEF Stages

\* What a step of an exec thread changes of the exec threads.
LEMMA ExecUpdate ==
  ASSUME TypeOK, NEW e \in Execs, NEW pc \in ExecPcs, NEW n \in 1 .. Len(Stages),
         \/ Goes(e, pc)
         \/ exec' = [exec EXCEPT ![e] = [pc |-> pc, stage |-> n]]
  PROVE  /\ exec' \in [Execs -> ExecType]
         /\ exec'[e].pc = pc
         /\ \A d \in Execs \ {e} : exec'[d] = exec[d]
<1>1. exec \in [Execs -> ExecType] /\ exec[e] \in ExecType
  BY DEF TypeOK
<1>2. [exec[e] EXCEPT !.pc = pc] \in ExecType /\ [exec[e] EXCEPT !.pc = pc].pc = pc
  <2>1. exec[e] = [pc |-> exec[e].pc, stage |-> exec[e].stage]
    BY <1>1 DEF ExecType
  <2>2. exec[e].stage \in 1 .. Len(Stages)
    BY <1>1 DEF ExecType
  <2>3. [exec[e] EXCEPT !.pc = pc] = [pc |-> pc, stage |-> exec[e].stage]
    BY <2>1
  <2> QED BY <2>2, <2>3 DEF ExecType
<1>3. [pc |-> pc, stage |-> n] \in ExecType /\ [pc |-> pc, stage |-> n].pc = pc
  BY DEF ExecType
<1>4. PICK r \in ExecType : r.pc = pc /\ exec' = [exec EXCEPT ![e] = r]
  <2>1. CASE Goes(e, pc)
    <3>1. exec' = [exec EXCEPT ![e] = [exec[e] EXCEPT !.pc = pc]]
      BY <2>1 DEF Goes
    <3> QED BY <1>2, <3>1
  <2>2. CASE exec' = [exec EXCEPT ![e] = [pc |-> pc, stage |-> n]]
    BY <1>3, <2>2
  <2> QED BY <2>1, <2>2
<1> QED BY <1>1, <1>4

\* The same of the spawn threads.
LEMMA SpawnUpdate ==
  ASSUME TypeOK, NEW s \in Spawns, NEW pc \in SpawnPcs, NEW p \in Pids \cup {NoPid},
         \/ SpawnGoes(s, pc) /\ p = spawn[s].awaits
         \/ spawn' = [spawn EXCEPT ![s] = [pc |-> pc, awaits |-> p]]
  PROVE  /\ spawn' \in [Spawns -> SpawnType]
         /\ spawn'[s].pc = pc
         /\ spawn'[s].awaits = p
         /\ \A t \in Spawns \ {s} : spawn'[t] = spawn[t]
<1>1. spawn \in [Spawns -> SpawnType] /\ spawn[s] \in SpawnType
  BY DEF TypeOK
<1>2. /\ [spawn[s] EXCEPT !.pc = pc] \in SpawnType
      /\ [spawn[s] EXCEPT !.pc = pc].pc = pc
      /\ [spawn[s] EXCEPT !.pc = pc].awaits = spawn[s].awaits
  <2>1. spawn[s] = [pc |-> spawn[s].pc, awaits |-> spawn[s].awaits]
    BY <1>1 DEF SpawnType
  <2>2. spawn[s].awaits \in Pids \cup {NoPid}
    BY <1>1 DEF SpawnType
  <2>3. [spawn[s] EXCEPT !.pc = pc] = [pc |-> pc, awaits |-> spawn[s].awaits]
    BY <2>1
  <2> QED BY <2>2, <2>3 DEF SpawnType
<1>3. LET r == [pc |-> pc, awaits |-> p] IN r \in SpawnType /\ r.pc = pc /\ r.awaits = p
  BY DEF SpawnType
<1>4. PICK r \in SpawnType :
        r.pc = pc /\ r.awaits = p /\ spawn' = [spawn EXCEPT ![s] = r]
  <2>1. CASE SpawnGoes(s, pc) /\ p = spawn[s].awaits
    <3>1. spawn' = [spawn EXCEPT ![s] = [spawn[s] EXCEPT !.pc = pc]]
      BY <2>1 DEF SpawnGoes
    <3> QED BY <1>2, <2>1, <3>1
  <2>2. CASE spawn' = [spawn EXCEPT ![s] = [pc |-> pc, awaits |-> p]]
    BY <1>3, <2>2
  <2> QED BY <2>1, <2>2
<1> QED BY <1>1, <1>4

\* Every step keeps the types.
LEMMA TypeStep == SupervisorAssumption /\ TypeOK /\ [Next]_vars => TypeOK'
<1> SUFFICES ASSUME SupervisorAssumption, TypeOK, [Next]_vars PROVE TypeOK'
  OBVIOUS
<1> USE StagesShape
<1>1. ASSUME NEW r \in States, Request(r) PROVE TypeOK'
  <2>1. ASSUME NEW e \in Execs, Goes(e, "test")
        PROVE  exec' \in [Execs -> ExecType]
    BY <2>1, ExecUpdate DEF ExecPcs
  <2> QED BY <1>1, <2>1 DEF TypeOK, Request
<1>2. ASSUME NEW e \in Execs, ExecStep(e) PROVE TypeOK'
  <2>0. \A pc \in ExecPcs, n \in 1 .. Len(Stages) :
          Goes(e, pc) \/ exec' = [exec EXCEPT ![e] = [pc |-> pc, stage |-> n]] =>
            exec' \in [Execs -> ExecType]
    BY ExecUpdate
  <2>1. CASE Test(e)
    BY <2>0, <2>1 DEF TypeOK, Test, ExecPcs, command
  <2>2. CASE Create(e)
    <3>1. PICK s \in Spawns : SpawnGoes(s, "fork") /\ spawnThread' = s
      BY <2>2 DEF Create
    <3>2. spawn' \in [Spawns -> SpawnType]
      <4>1. spawn[s].awaits \in Pids \cup {NoPid}
        BY DEF TypeOK, SpawnType
      <4> QED BY <3>1, <4>1, SpawnUpdate DEF SpawnPcs
    <3> QED BY <2>0, <2>2, <3>1, <3>2 DEF TypeOK, Create, ExecPcs, command
  <2>3. CASE Await(e)
    BY <2>0, <2>3 DEF TypeOK, Await, ExecPcs
  <2>4. CASE Again(e)
    BY <2>0, <2>4 DEF TypeOK, Again, ExecPcs, States
  <2>5. CASE Begin(e)
    BY <2>0, <2>5 DEF TypeOK, Begin, ExecPcs, updateCommandTuple
  <2>6. CASE Watch(e)
    BY <2>0, <2>6 DEF TypeOK, Watch, ExecPcs, command
  <2>11. CASE Drain(e)
    BY <2>0, <2>11 DEF TypeOK, Drain, ExecPcs, command
  <2>7. CASE Stop(e)
    <3>1. exec[e].stage \in 1 .. 4
      BY DEF TypeOK, ExecType
    <3> QED BY <2>0, <2>7, <3>1 DEF TypeOK, Stop, ExecPcs, command
  <2>8. CASE Signal(e)
    BY <2>0, <2>8 DEF TypeOK, Signal, ExecPcs
  <2>9. CASE Leave(e)
    <3>1. spawn' \in [Spawns -> SpawnType]
      BY <2>9, SpawnUpdate DEF TypeOK, Leave, Cancelled, SpawnPcs, NoThread
    <3>2. announced' \in [state : {"off", "on"}, pid : Pids \cup {NoPid}]
      BY <2>9 DEF TypeOK, Leave
    <3>3. exec' \in [Execs -> ExecType]
      BY <2>0, <2>9 DEF Leave, ExecPcs
    <3> QED BY <2>9, <3>1, <3>2, <3>3 DEF TypeOK, Leave, command
  <2>10. CASE Pause(e)
    BY <2>0, <2>10 DEF TypeOK, Pause, ExecPcs, command
  <2> QED BY <1>2, <2>1, <2>2, <2>3, <2>4, <2>5, <2>6, <2>7, <2>8, <2>9, <2>10, <2>11 DEF ExecStep
<1>3. ASSUME NEW s \in Spawns, SpawnStep(s) PROVE TypeOK'
  <2>0. \A pc \in SpawnPcs, p \in Pids \cup {NoPid} :
          SpawnGoes(s, pc) \/ spawn' = [spawn EXCEPT ![s] = [pc |-> pc, awaits |-> p]] =>
            spawn' \in [Spawns -> SpawnType]
    <3>1. spawn[s].awaits \in Pids \cup {NoPid}
      BY DEF TypeOK, SpawnType
    <3> QED BY <3>1, SpawnUpdate
  <2>1. CASE Fork(s)
    BY <2>0, <2>1 DEF TypeOK, Fork, SpawnPcs
  <2>2. CASE Started(s)
    <3>1. spawnSem' \in Nat
      BY <2>2 DEF TypeOK, Started
    <3> QED BY <2>0, <2>2, <3>1 DEF TypeOK, Started, SpawnPcs
  <2>3. CASE Wait(s)
    BY <2>0, <2>3 DEF TypeOK, Wait, SpawnPcs, command
  <2>4. CASE Reaped(s)
    <3>1. process' \in [Pids -> {"none", "running", "writing", "zombie"}]
      BY <2>4 DEF TypeOK, Reaped
    <3>2. spawn' \in [Spawns -> SpawnType]
      BY <2>0, <2>4 DEF Reaped, SpawnPcs
    <3> QED BY <2>4, <3>1, <3>2 DEF TypeOK, Reaped, command
  <2>5. CASE Ended(s)
    BY <2>0, <2>5 DEF TypeOK, Ended, SpawnPcs
  <2>6. CASE Gone(s)
    BY <2>0, <2>6 DEF TypeOK, Gone, SpawnPcs
  <2> QED BY <1>3, <2>1, <2>2, <2>3, <2>4, <2>5, <2>6 DEF SpawnStep
<1>4. ASSUME NEW p \in Pids, Die(p) \/ Write(p) PROVE TypeOK'
  BY <1>4 DEF TypeOK, Die, Write, Alive, command
<1>5. CASE UNCHANGED vars
  BY <1>5 DEF TypeOK, vars, command
<1> QED BY <1>1, <1>2, <1>3, <1>4, <1>5 DEF Next

----------------------------------------------------------------------------
(* However many exec threads there are: who is awake *)

\* An exec thread that neither begins nor ends to await a start leaves the threads
\* in order.
LEMMA ExecMoves ==
  ASSUME ~ Races, OneAwake, SemaphorePaired,
         NEW e \in Execs, ExecMay(e), UNCHANGED <<spawn, spawnSem>>,
         exec[e].pc # "await", exec'[e].pc # "await",
         \A d \in Execs \ {e} : exec'[d] = exec[d],
         ExecAsleep(e) \/ exec'[e].pc \in {"none", "delay", "watch", "drain", "stop", "pause", "begun"}
  PROVE  OneAwake' /\ SemaphorePaired'
<1>1. \A d \in Execs \ {e} : ExecAsleep(d) /\ ExecAsleep(d)'
  BY DEF ExecMay, ExecAsleep
<1>2. \A s \in Spawns : SpawnAsleep(s)' <=> SpawnAsleep(s)
  BY DEF SpawnAsleep
<1>3. OneAwake'
  <2>1. CASE ExecAsleep(e)
    BY <1>1, <1>2, <2>1 DEF OneAwake, ExecMay
  <2>2. CASE exec'[e].pc \in {"none", "delay", "watch", "drain", "stop", "pause"}
    BY <1>1, <1>2, <2>2 DEF OneAwake, ExecAsleep
  <2>3. CASE ~ ExecAsleep(e) /\ exec'[e].pc = "begun"
    BY <1>1, <1>2, <2>3 DEF OneAwake
  <2> QED BY <2>1, <2>2, <2>3
<1>4. SemaphorePaired'
  BY DEF SemaphorePaired
<1> QED BY <1>3, <1>4

\* The same of a spawn thread that does not start.
LEMMA SpawnMoves ==
  ASSUME ~ Races, OneAwake, SemaphorePaired,
         NEW s \in Spawns, SpawnMay(s), UNCHANGED <<exec, spawnSem>>,
         \A t \in Spawns \ {s} : spawn'[t] = spawn[t],
         \/ spawn[s].pc = "fork" /\ spawn'[s].pc = "forked"
         \/ spawn[s].pc \in {"started", "wait", "ended"} /\ spawn'[s].pc \in {"wait", "reaped", "none"}
         \/ spawn[s].pc = "reaped" /\ spawn'[s].pc = "ended"
  PROVE  OneAwake' /\ SemaphorePaired'
<1>1. \A t \in Spawns \ {s} : SpawnAsleep(t) /\ SpawnAsleep(t)'
  BY DEF SpawnMay, SpawnAsleep
<1>2. \A e \in Execs : ExecAsleep(e)' <=> ExecAsleep(e)
  BY DEF ExecAsleep
<1>3. spawn'[s].pc \in {"forked", "ended"} => \A e \in Execs : ExecAsleep(e)
  BY DEF OneAwake, SpawnMay, SpawnAsleep
<1>4. OneAwake'
  BY <1>1, <1>2, <1>3 DEF OneAwake, SpawnAsleep
<1>5. SemaphorePaired'
  BY DEF SemaphorePaired
<1> QED BY <1>4, <1>5

\* While an exec thread is awake that is in none of the steps of a start, and whenever
\* one wakes, no spawn thread is awake.
LEMMA SpawnsAsleep ==
  ASSUME ~ Races, OneAwake, NEW e \in Execs, ExecMay(e),
         exec[e].pc \notin {"await", "again", "begun"}
  PROVE  \A s \in Spawns : SpawnAsleep(s)
BY DEF ExecMay, OneAwake

\* A request comes while all sleep.
LEMMA ThreadsRequest ==
  ASSUME ~ Races, TypeOK, ThreadsInv, NEW r \in States, Request(r)
  PROVE  ThreadsInv'
<1> USE DEF ThreadsInv
<1>1. /\ \A d \in Execs : ExecAsleep(d)
      /\ \A s \in Spawns : SpawnAsleep(s)
      /\ UNCHANGED <<currState, pid, spawnSem, spawn>>
  BY DEF Request
<1>2. CASE UNCHANGED exec
  BY <1>1, <1>2 DEF OneAwake, SemaphorePaired, StateKnown, ExecAsleep, SpawnAsleep
<1>3. ASSUME NEW e \in Execs, Idle(e), Goes(e, "test") PROVE ThreadsInv'
  <2>1. exec'[e].pc = "test" /\ \A d \in Execs \ {e} : exec'[d] = exec[d]
    BY <1>3, ExecUpdate, StagesShape DEF ExecPcs
  <2>2. \A d \in Execs \ {e} : ExecAsleep(d)'
    BY <1>1, <2>1 DEF ExecAsleep
  <2>3. \A s \in Spawns : SpawnAsleep(s)'
    BY <1>1 DEF SpawnAsleep
  <2>4. OneAwake'
    BY <2>2, <2>3 DEF OneAwake
  <2>5. SemaphorePaired' /\ StateKnown'
    BY <1>1, <1>3, <2>1 DEF SemaphorePaired, StateKnown, Idle
  <2> QED BY <2>4, <2>5
<1> QED BY <1>2, <1>3 DEF Request

\* The steps of an exec thread.  A signal is sent with all others asleep since
\* currState was found to be on, so the command has a pid.
LEMMA ThreadsExecStep ==
  ASSUME ~ Races, TypeOK, ThreadsInv, NEW e \in Execs, ExecStep(e)
  PROVE  ThreadsInv'
<1> USE DEF ThreadsInv
<1>0. /\ ExecMay(e)
      /\ \A pc \in ExecPcs, n \in 1 .. Len(Stages) :
           Goes(e, pc) \/ exec' = [exec EXCEPT ![e] = [pc |-> pc, stage |-> n]] =>
             exec'[e].pc = pc /\ \A d \in Execs \ {e} : exec'[d] = exec[d]
  BY ExecUpdate DEF ExecStep
<1>a. 1 \in 1 .. Len(Stages)
  BY StagesShape
<1>1. CASE Test(e)
  <2>1. exec'[e].pc \in {"delay", "none"} /\ \A d \in Execs \ {e} : exec'[d] = exec[d]
    BY <1>0, <1>1, <1>a DEF Test, ExecPcs
  <2>2. OneAwake' /\ SemaphorePaired'
    BY <1>0, <1>1, <2>1, ExecMoves DEF Test, command
  <2>3. StateKnown'
    BY <1>1, <2>1 DEF Test, StateKnown, command
  <2> QED BY <2>2, <2>3
<1>2. CASE Create(e)
  <2>1. PICK s \in Spawns : spawn[s].pc = "none" /\ SpawnGoes(s, "fork")
    BY <1>2 DEF Create
  <2>2. exec'[e].pc = "await" /\ \A d \in Execs \ {e} : exec'[d] = exec[d]
    BY <1>0, <1>2, <1>a DEF Create, ExecPcs
  <2>3. spawn'[s].pc = "fork" /\ \A t \in Spawns \ {s} : spawn'[t] = spawn[t]
    <3>1. spawn[s].awaits \in Pids \cup {NoPid}
      BY DEF TypeOK, SpawnType
    <3> QED BY <2>1, <3>1, SpawnUpdate DEF SpawnPcs
  <2>4. ExecAsleep(e) /\ exec[e].pc = "delay"
    BY <1>2 DEF Create, ExecAsleep
  <2>5. /\ \A d \in Execs : ExecAsleep(d)
        /\ \A t \in Spawns : SpawnAsleep(t)
    BY <1>0, <2>4 DEF ExecMay
  <2>6. \A d \in Execs : exec[d].pc # "await"
    BY <2>5 DEF ExecAsleep, SpawnAsleep, SemaphorePaired
  <2>7. spawnSem = 0 /\ spawnSem' = 0
    BY <1>2, <2>6 DEF SemaphorePaired, Create
  <2>8. \A d \in Execs : ExecAsleep(d)'
    BY <2>2, <2>5, <2>7 DEF ExecAsleep
  <2>9. \A t \in Spawns \ {s} : SpawnAsleep(t)'
    BY <2>3, <2>5 DEF SpawnAsleep
  <2>10. OneAwake'
    BY <2>8, <2>9 DEF OneAwake
  <2>11. SemaphorePaired'
    BY <2>2, <2>3, <2>6, <2>7, <2>9 DEF SemaphorePaired, SpawnAsleep
  <2>12. StateKnown'
    BY <1>2, <2>2, <2>3, <2>7 DEF Create, StateKnown
  <2> QED BY <2>10, <2>11, <2>12
<1>3. CASE Await(e)
  <2>1. exec'[e].pc \in {"again", "begun"} /\ \A d \in Execs \ {e} : exec'[d] = exec[d]
    BY <1>0, <1>3, <1>a DEF Await, ExecPcs
  <2>2. exec[e].pc = "await" /\ spawnSem = 1 /\ spawnSem' = 0 /\ UNCHANGED <<spawn, currState, pid>>
    BY <1>3 DEF Await, SemaphorePaired
  <2>3. \A d \in Execs \ {e} : ExecAsleep(d) /\ exec[d].pc # "await" /\ ExecAsleep(d)'
    BY <1>0, <2>1, <2>2 DEF ExecMay, ExecAsleep, SemaphorePaired
  <2>4. ~ ExecAsleep(e)
    BY <2>2 DEF ExecAsleep
  <2>5. OneAwake'
    BY <2>1, <2>2, <2>3, <2>4 DEF OneAwake, SpawnAsleep
  <2>6. SemaphorePaired'
    <3>1. \A d \in Execs : exec'[d].pc # "await"
      BY <2>1, <2>3
    <3>2. \A s \in Spawns : spawn'[s].pc \notin {"fork", "forked"}
      BY <2>2 DEF SemaphorePaired
    <3>3. spawnSem' = 0
      BY <2>2
    <3> QED BY <3>1, <3>2, <3>3 DEF SemaphorePaired
  <2>7. StateKnown'
    BY <2>1, <2>2 DEF StateKnown
  <2> QED BY <2>5, <2>6, <2>7
<1>4. CASE Again(e)
  <2>1. exec'[e].pc = "begun" /\ \A d \in Execs \ {e} : exec'[d] = exec[d]
    BY <1>0, <1>4, <1>a DEF Again, ExecPcs
  <2>2. OneAwake' /\ SemaphorePaired'
    BY <1>0, <1>4, <2>1, ExecMoves DEF Again
  <2>3. StateKnown'
    BY <1>4, <2>1 DEF Again, StateKnown
  <2> QED BY <2>2, <2>3
<1>5. CASE Begin(e)
  <2>1. exec'[e].pc = "watch" /\ \A d \in Execs \ {e} : exec'[d] = exec[d]
    BY <1>0, <1>5, <1>a DEF Begin, ExecPcs
  <2>2. OneAwake' /\ SemaphorePaired'
    BY <1>0, <1>5, <2>1, ExecMoves DEF Begin
  <2>3. StateKnown'
    BY <1>5, <2>1 DEF Begin, StateKnown
  <2> QED BY <2>2, <2>3
<1>6. CASE Watch(e)
  <2>1. exec'[e].pc \in {"leave", "drain"} /\ \A d \in Execs \ {e} : exec'[d] = exec[d]
    BY <1>0, <1>6, <1>a DEF Watch, ExecPcs
  <2>2. ExecAsleep(e)
    BY <1>6 DEF Watch, ExecAsleep
  <2>3. OneAwake' /\ SemaphorePaired'
    BY <1>0, <1>6, <2>1, <2>2, ExecMoves DEF Watch, command
  <2>4. StateKnown'
    BY <1>6, <2>1 DEF Watch, StateKnown, command
  <2> QED BY <2>3, <2>4
<1>11. CASE Drain(e)
  <2>1. exec'[e].pc \in {"watch", "leave", "stop"} /\ \A d \in Execs \ {e} : exec'[d] = exec[d]
    BY <1>0, <1>11, <1>a DEF Drain, ExecPcs
  <2>2. ExecAsleep(e)
    BY <1>11 DEF Drain, ExecAsleep
  <2>3. OneAwake' /\ SemaphorePaired'
    BY <1>0, <1>11, <2>1, <2>2, ExecMoves DEF Drain, command
  <2>4. StateKnown'
    BY <1>11, <2>1 DEF Drain, StateKnown, command
  <2> QED BY <2>3, <2>4
<1>7. CASE Stop(e)
  <2>0. exec[e].stage # Len(Stages) => exec[e].stage + 1 \in 1 .. Len(Stages)
    BY StagesShape DEF TypeOK, ExecType
  <2>1. /\ exec'[e].pc \in {"watch", "aim", "stop"}
        /\ \A d \in Execs \ {e} : exec'[d] = exec[d]
        /\ exec'[e].pc = "aim" => currState = "on"
    BY <1>0, <1>7, <1>a, <2>0 DEF Stop, ExecPcs
  <2>2. ExecAsleep(e)
    BY <1>7 DEF Stop, ExecAsleep
  <2>3. OneAwake' /\ SemaphorePaired'
    BY <1>0, <1>7, <2>1, <2>2, ExecMoves DEF Stop, command
  <2>4. StateKnown'
    BY <1>7, <2>1 DEF Stop, StateKnown, command
  <2> QED BY <2>3, <2>4
<1>8. CASE Signal(e)
  <2>1. exec'[e].pc = "stop" /\ \A d \in Execs \ {e} : exec'[d] = exec[d]
    BY <1>0, <1>8, <1>a DEF Signal, ExecPcs
  <2>2. pid # NoPid /\ currState = "on" /\ currState' = "on" /\ pid' = pid
    BY <1>8 DEF Signal, StateKnown
  <2>3. OneAwake' /\ SemaphorePaired'
    BY <1>0, <1>8, <2>1, ExecMoves DEF Signal
  <2>4. StateKnown'
    BY <1>8, <2>1, <2>2 DEF Signal, StateKnown
  <2> QED BY <2>3, <2>4
<1>9. CASE Leave(e)
  <2>1. exec'[e].pc \in {"pause", "test"} /\ \A d \in Execs \ {e} : exec'[d] = exec[d]
    BY <1>0, <1>9, <1>a DEF Leave, ExecPcs
  <2>2. exec[e].pc = "leave" /\ ~ ExecAsleep(e) /\ UNCHANGED <<spawnSem, currState, pid>>
    BY <1>9 DEF Leave, ExecAsleep, command
  <2>3. \A s \in Spawns : SpawnAsleep(s)
    BY <1>0, <2>2, SpawnsAsleep
  <2>4. \A s \in Spawns : spawn'[s].pc \in {"none", spawn[s].pc}
    <3>1. CASE UNCHANGED spawn
      BY <3>1
    <3>2. CASE ~ UNCHANGED spawn
      <4>1. /\ spawnThread \in Spawns
            /\ spawn' = [spawn EXCEPT ![spawnThread] = [pc |-> "none", awaits |-> NoPid]]
        BY <1>9, <3>2 DEF Leave, Cancelled, TypeOK
      <4> QED BY <4>1, SpawnUpdate DEF SpawnPcs
    <3> QED BY <3>1, <3>2
  <2>5. \A d \in Execs \ {e} : ExecAsleep(d) /\ ExecAsleep(d)'
    BY <1>0, <2>1, <2>2 DEF ExecMay, ExecAsleep
  <2>6. \A s \in Spawns : SpawnAsleep(s)'
    BY <2>3, <2>4 DEF SpawnAsleep
  <2>7. OneAwake'
    BY <2>5, <2>6 DEF OneAwake
  <2>8. SemaphorePaired'
    BY <2>1, <2>2, <2>3, <2>4 DEF SemaphorePaired, SpawnAsleep
  <2>9. StateKnown'
    BY <2>1, <2>2, <2>4 DEF StateKnown
  <2> QED BY <2>7, <2>8, <2>9
<1>10. CASE Pause(e)
  <2>1. exec'[e].pc = "test" /\ \A d \in Execs \ {e} : exec'[d] = exec[d]
    BY <1>0, <1>10, <1>a DEF Pause, ExecPcs
  <2>2. ExecAsleep(e)
    BY <1>10 DEF Pause, ExecAsleep
  <2>3. OneAwake' /\ SemaphorePaired'
    BY <1>0, <1>10, <2>1, <2>2, ExecMoves DEF Pause, command
  <2>4. StateKnown'
    BY <1>10, <2>1 DEF Pause, StateKnown, command
  <2> QED BY <2>3, <2>4
<1> QED BY <1>1, <1>2, <1>3, <1>4, <1>5, <1>6, <1>7, <1>8, <1>9, <1>10, <1>11 DEF ExecStep

\* The steps of a spawn thread.
LEMMA ThreadsSpawnStep ==
  ASSUME ~ Races, SupervisorAssumption, TypeOK, ThreadsInv, NEW s \in Spawns, SpawnStep(s)
  PROVE  ThreadsInv'
<1> USE DEF ThreadsInv
<1>0. /\ SpawnMay(s)
      /\ \A pc \in SpawnPcs, p \in Pids \cup {NoPid} :
           SpawnGoes(s, pc) \/ spawn' = [spawn EXCEPT ![s] = [pc |-> pc, awaits |-> p]] =>
             spawn'[s].pc = pc /\ \A t \in Spawns \ {s} : spawn'[t] = spawn[t]
  <2>1. spawn[s].awaits \in Pids \cup {NoPid}
    BY DEF TypeOK, SpawnType
  <2> QED BY <2>1, SpawnUpdate DEF SpawnStep
<1>1. CASE Fork(s)
  <2>1. spawn'[s].pc = "forked" /\ \A t \in Spawns \ {s} : spawn'[t] = spawn[t]
    BY <1>0, <1>1 DEF Fork, SpawnPcs
  <2>2. OneAwake' /\ SemaphorePaired'
    BY <1>0, <1>1, <2>1, SpawnMoves DEF Fork
  <2>3. pid' # NoPid
    BY <1>1 DEF Fork, SupervisorAssumption, NoPid
  <2>4. StateKnown'
    BY <1>1, <2>1, <2>3 DEF Fork, StateKnown
  <2> QED BY <2>2, <2>4
<1>2. CASE Started(s)
  <2>1. spawn'[s].pc = "started" /\ \A t \in Spawns \ {s} : spawn'[t] = spawn[t]
    BY <1>0, <1>2 DEF Started, SpawnPcs
  <2>2. spawn[s].pc = "forked" /\ UNCHANGED <<pid, exec>> /\ currState' = "on"
    BY <1>2 DEF Started
  <2>3. spawnSem = 0 /\ spawnSem' = 1
    BY <1>2, <2>2 DEF Started, SemaphorePaired
  <2>4. ~ SpawnAsleep(s) /\ \A t \in Spawns \ {s} : SpawnAsleep(t) /\ SpawnAsleep(t)'
    BY <1>0, <2>1, <2>2 DEF SpawnAsleep, SpawnMay
  <2>5. \A d \in Execs : ExecAsleep(d)
    BY <2>2, <2>4 DEF OneAwake
  <2>6. PICK e \in Execs : exec[e].pc = "await" /\ \A d \in Execs \ {e} : exec[d].pc # "await"
    BY <2>2 DEF SemaphorePaired
  <2>7. \A d \in Execs \ {e} : ExecAsleep(d)'
    BY <2>2, <2>5, <2>6 DEF ExecAsleep
  <2>8. OneAwake'
    BY <2>1, <2>2, <2>4, <2>6, <2>7 DEF OneAwake
  <2>9. SemaphorePaired'
    BY <2>1, <2>2, <2>3, <2>4, <2>6 DEF SemaphorePaired, SpawnAsleep
  <2>10. StateKnown'
    BY <2>1, <2>2, <2>4 DEF StateKnown, SpawnAsleep
  <2> QED BY <2>8, <2>9, <2>10
<1>3. CASE Wait(s)
  <2>1. spawn'[s].pc = "wait" /\ \A t \in Spawns \ {s} : spawn'[t] = spawn[t]
    BY <1>0, <1>3 DEF Wait, SpawnPcs, TypeOK
  <2>2. OneAwake' /\ SemaphorePaired'
    BY <1>0, <1>3, <2>1, SpawnMoves DEF Wait, command
  <2>3. StateKnown'
    BY <1>3, <2>1 DEF Wait, StateKnown, command
  <2> QED BY <2>2, <2>3
<1>4. CASE Reaped(s)
  <2>1. spawn'[s].pc = "reaped" /\ \A t \in Spawns \ {s} : spawn'[t] = spawn[t]
    BY <1>0, <1>4 DEF Reaped, SpawnPcs
  <2>2. OneAwake' /\ SemaphorePaired'
    BY <1>0, <1>4, <2>1, SpawnMoves DEF Reaped, command
  <2>3. StateKnown'
    BY <1>4, <2>1 DEF Reaped, StateKnown, command
  <2> QED BY <2>2, <2>3
<1>5. CASE Ended(s)
  <2>1. spawn'[s].pc = "ended" /\ \A t \in Spawns \ {s} : spawn'[t] = spawn[t]
    BY <1>0, <1>5 DEF Ended, SpawnPcs
  <2>2. OneAwake' /\ SemaphorePaired'
    BY <1>0, <1>5, <2>1, SpawnMoves DEF Ended
  <2>3. SpawnAsleep(s) /\ spawn[s].pc = "reaped"
    BY <1>5 DEF Ended, SpawnAsleep
  <2>4. /\ \A t \in Spawns : SpawnAsleep(t)
        /\ \A e \in Execs : ExecAsleep(e)
    BY <1>0, <2>3 DEF SpawnMay
  <2>5. spawnSem = 0
    BY <2>4 DEF SemaphorePaired, ExecAsleep
  <2>6. StateKnown'
    BY <1>5, <2>1, <2>4, <2>5 DEF Ended, StateKnown, SpawnAsleep, ExecAsleep
  <2> QED BY <2>2, <2>6
<1>6. CASE Gone(s)
  <2>1. spawn'[s].pc = "none" /\ \A t \in Spawns \ {s} : spawn'[t] = spawn[t]
    BY <1>0, <1>6 DEF Gone, SpawnPcs
  <2>2. OneAwake' /\ SemaphorePaired'
    BY <1>0, <1>6, <2>1, SpawnMoves DEF Gone
  <2>3. spawn[s].pc = "ended" /\ ~ SpawnAsleep(s) /\ currState = "off"
    BY <1>6 DEF Gone, SpawnAsleep, StateKnown
  <2>4. \A t \in Spawns \ {s} : SpawnAsleep(t)
    BY <1>0 DEF SpawnMay
  <2>5. StateKnown'
    BY <1>6, <2>1, <2>3, <2>4 DEF Gone, StateKnown, SpawnAsleep
  <2> QED BY <2>2, <2>5
<1> QED BY <1>1, <1>2, <1>3, <1>4, <1>5, <1>6 DEF SpawnStep

----------------------------------------------------------------------------
(* As long as there is one exec thread *)

\* The exec thread that takes a step is the only one there is, and there is no spawn
\* thread unless it watches over it.
LEMMA ServedAlone ==
  ASSUME ServedInv, NEW e \in Execs, ~ Idle(e)
  PROVE  /\ \A d \in Execs \ {e} : Idle(d)
         /\ exec[e].pc \notin {"await", "again", "begun", "watch", "drain", "stop", "aim"} =>
              \A s \in Spawns : Free(s)
<1>1. \A d \in Execs \ {e} : Idle(d)
  BY DEF ServedInv, OneExec
<1>2. \A s \in Spawns : ~ Free(s) =>
        \E d \in Execs : exec[d].pc \in {"await", "again", "begun", "watch", "drain", "stop", "aim"}
  BY DEF ServedInv, Watched
<1> QED BY <1>1, <1>2 DEF Idle

\* A step of the exec thread that leaves processes and spawn threads alone.
LEMMA ServedMoves ==
  ASSUME ServedInv, NEW e \in Execs, ~ Idle(e),
         UNCHANGED <<currState, pid, spawnThread, spawn, process>>,
         \A d \in Execs \ {e} : exec'[d] = exec[d],
         \/ exec'[e].pc \in {"await", "again", "begun", "watch", "drain", "stop", "aim"}
         \/ \A s \in Spawns : Free(s),
         \/ exec'[e].pc \notin {"none", "test", "delay", "pause"}
         \/ announced' = [state |-> "off", pid |-> NoPid]
  PROVE  ServedInv'
<1>1. \A d \in Execs \ {e} : Idle(d) /\ Idle(d)'
  BY ServedAlone DEF Idle
<1>2. OneExec'
  BY <1>1 DEF OneExec
<1>3. Watched'
  <2>1. \A s \in Spawns : Free(s)' <=> Free(s)
    BY DEF Free
  <2> QED BY <2>1 DEF Watched, ServedInv
<1>4. NothingLeft'
  BY DEF ServedInv, NothingLeft
<1>5. ProcessKnown'
  BY DEF ServedInv, ProcessKnown
<1>6. EndAnnounced'
  BY DEF EndAnnounced
<1> QED BY <1>2, <1>3, <1>4, <1>5, <1>6 DEF ServedInv

\* A request is served by a new thread only if there is none.
LEMMA ServedRequest ==
  ASSUME ~ Races, TypeOK, ThreadsInv, ServedInv, NEW r \in States, Request(r), ~ crowded'
  PROVE  ServedInv'
<1>0. UNCHANGED <<currState, pid, spawnThread, spawn, process, announced>>
  BY DEF Request
<1>1. CASE UNCHANGED exec
  BY <1>0, <1>1 DEF ServedInv, OneExec, Watched, NothingLeft, ProcessKnown, EndAnnounced, Idle, Free
<1>2. CASE ~ UNCHANGED exec
  <2>1. PICK e \in Execs : Goes(e, "test")
    BY <1>2 DEF Request
  <2>2. \A d \in Execs : Idle(d)
    BY <1>2 DEF Request, TypeOK
  <2>3. exec'[e].pc = "test" /\ \A d \in Execs \ {e} : exec'[d] = exec[d]
    BY <2>1, ExecUpdate, StagesShape DEF ExecPcs
  <2>4. \A s \in Spawns : Free(s)
    BY <2>2 DEF ServedInv, Watched, Idle
  <2>5. OneExec' /\ Watched'
    BY <1>0, <2>2, <2>3, <2>4 DEF OneExec, Watched, Idle, Free
  <2>6. NothingLeft' /\ ProcessKnown'
    BY <1>0 DEF ServedInv, NothingLeft, ProcessKnown
  <2>7. announced' = [state |-> "off", pid |-> NoPid]
    BY <1>0, <2>2 DEF ServedInv, EndAnnounced, Idle
  <2> QED BY <2>5, <2>6, <2>7 DEF ServedInv, EndAnnounced
<1> QED BY <1>1, <1>2

\* The steps of the exec thread.
LEMMA ServedExecStep ==
  ASSUME ~ Races, TypeOK, ThreadsInv, ServedInv, NEW e \in Execs, ExecStep(e)
  PROVE  ServedInv'
<1>0. /\ ExecMay(e)
      /\ \A pc \in ExecPcs, n \in 1 .. Len(Stages) :
           Goes(e, pc) \/ exec' = [exec EXCEPT ![e] = [pc |-> pc, stage |-> n]] =>
             exec'[e].pc = pc /\ \A d \in Execs \ {e} : exec'[d] = exec[d]
      /\ 1 \in 1 .. Len(Stages)
  BY ExecUpdate, StagesShape DEF ExecStep
<1>e. exec[e].pc \in {"test", "delay", "pause"} => announced = [state |-> "off", pid |-> NoPid]
  BY ServedAlone DEF ServedInv, EndAnnounced, Idle
<1>1. CASE Test(e)
  <2>1. exec'[e].pc \in {"delay", "none"} /\ \A d \in Execs \ {e} : exec'[d] = exec[d]
    BY <1>0, <1>1 DEF Test, ExecPcs
  <2>2. exec[e].pc = "test" /\ ~ Idle(e) /\ \A s \in Spawns : Free(s)
    BY <1>1, ServedAlone DEF Test, Idle
  <2> QED BY <1>1, <1>e, <2>1, <2>2, ServedMoves DEF Test, command
<1>2. CASE Create(e)
  <2>1. PICK s \in Spawns : SpawnGoes(s, "fork") /\ spawnThread' = s
    BY <1>2 DEF Create
  <2>2. exec'[e].pc = "await" /\ \A d \in Execs \ {e} : exec'[d] = exec[d]
    BY <1>0, <1>2 DEF Create, ExecPcs
  <2>3. /\ \A d \in Execs \ {e} : Idle(d)
        /\ \A t \in Spawns : Free(t)
    BY <1>2, ServedAlone DEF Create, Idle
  <2>4. spawn'[s].pc = "fork" /\ \A t \in Spawns \ {s} : spawn'[t] = spawn[t]
    <3>1. spawn[s].awaits \in Pids \cup {NoPid}
      BY DEF TypeOK, SpawnType
    <3> QED BY <2>1, <3>1, SpawnUpdate DEF SpawnPcs
  <2>5. OneExec' /\ Watched' /\ EndAnnounced'
    BY <2>1, <2>2, <2>3, <2>4 DEF OneExec, Watched, EndAnnounced, Idle, Free
  <2>6. NothingLeft' /\ ProcessKnown'
    BY <1>2, <2>3, <2>4 DEF Create, ServedInv, NothingLeft, ProcessKnown, Free
  <2> QED BY <2>5, <2>6 DEF ServedInv
<1>3. CASE Await(e)
  <2>1. exec'[e].pc \in {"again", "begun"} /\ \A d \in Execs \ {e} : exec'[d] = exec[d]
    BY <1>0, <1>3 DEF Await, ExecPcs
  <2> QED BY <1>3, <2>1, ServedMoves DEF Await, Idle
<1>4. CASE Again(e)
  <2>1. exec'[e].pc = "begun" /\ \A d \in Execs \ {e} : exec'[d] = exec[d]
    BY <1>0, <1>4 DEF Again, ExecPcs
  <2> QED BY <1>4, <2>1, ServedMoves DEF Again, Idle
<1>5. CASE Begin(e)
  <2>1. exec'[e].pc = "watch" /\ \A d \in Execs \ {e} : exec'[d] = exec[d]
    BY <1>0, <1>5 DEF Begin, ExecPcs
  <2>2. currState' = currState
    BY <1>5 DEF Begin, ThreadsInv, StateKnown
  <2> QED BY <1>5, <2>1, <2>2, ServedMoves DEF Begin, Idle
<1>l. (currState # "on" \/ pid = NoPid) /\ (\A s \in Spawns : SpawnAsleep(s)) =>
        \A s \in Spawns : Free(s)
  <2>1. NoPid \notin Pids
    BY SupervisorAssumption DEF NoPid
  <2> QED BY <2>1 DEF SpawnAsleep, Free, ServedInv, ProcessKnown
<1>6. CASE Watch(e)
  <2>1. exec'[e].pc \in {"leave", "drain"} /\ \A d \in Execs \ {e} : exec'[d] = exec[d]
    BY <1>0, <1>6 DEF Watch, ExecPcs
  <2>2. \A s \in Spawns : SpawnAsleep(s)
    BY <1>0, <1>6, SpawnsAsleep DEF Watch, ThreadsInv
  <2>3. exec'[e].pc = "leave" => currState # "on"
    BY <1>0, <1>6 DEF Watch, ExecPcs
  <2>4. exec'[e].pc = "leave" => \A s \in Spawns : Free(s)
    BY <1>l, <2>2, <2>3
  <2> QED BY <1>6, <2>1, <2>4, ServedMoves DEF Watch, Idle, command
<1>11. CASE Drain(e)
  <2>1. exec'[e].pc \in {"watch", "leave", "stop"} /\ \A d \in Execs \ {e} : exec'[d] = exec[d]
    BY <1>0, <1>11 DEF Drain, ExecPcs
  <2>2. \A s \in Spawns : SpawnAsleep(s)
    BY <1>0, <1>11, SpawnsAsleep DEF Drain, ThreadsInv
  <2>3. exec'[e].pc = "leave" => pid = NoPid
    BY <1>0, <1>11 DEF Drain, ExecPcs
  <2>4. exec'[e].pc = "leave" => \A s \in Spawns : Free(s)
    BY <1>l, <2>2, <2>3
  <2> QED BY <1>11, <2>1, <2>4, ServedMoves DEF Drain, Idle, command
<1>7. CASE Stop(e)
  <2>0. exec[e].stage # Len(Stages) => exec[e].stage + 1 \in 1 .. Len(Stages)
    BY StagesShape DEF TypeOK, ExecType
  <2>1. exec'[e].pc \in {"watch", "aim", "stop"} /\ \A d \in Execs \ {e} : exec'[d] = exec[d]
    BY <1>0, <1>7, <2>0 DEF Stop, ExecPcs
  <2> QED BY <1>7, <2>1, ServedMoves DEF Stop, Idle, command
<1>8. CASE Signal(e)
  <2>1. exec'[e].pc = "stop" /\ \A d \in Execs \ {e} : exec'[d] = exec[d]
    BY <1>0, <1>8 DEF Signal, ExecPcs
  <2>2. \A d \in Execs \ {e} : Idle(d)
    BY <1>8, ServedAlone DEF Signal, Idle
  <2>3. currState = "on" /\ pid # NoPid
    BY <1>8 DEF Signal, ThreadsInv, StateKnown
  <2>4. currState' = "on" /\ UNCHANGED <<pid, spawn, spawnThread>>
    BY <1>8, <2>3 DEF Signal
  <2>5. \A p \in Pids : \/ process'[p] = process[p]
                        \/ process[p] \in Alive /\ process'[p] = "zombie"
    BY <1>8 DEF Signal, TypeOK
  <2>6. OneExec' /\ Watched' /\ EndAnnounced'
    BY <2>1, <2>2, <2>4 DEF ServedInv, OneExec, Watched, EndAnnounced, Idle, Free
  <2>7. NothingLeft'
    BY <2>3, <2>4 DEF ServedInv, NothingLeft
  <2>8. ProcessKnown'
    BY <2>3, <2>4, <2>5 DEF ServedInv, ProcessKnown, Alive
  <2> QED BY <2>6, <2>7, <2>8 DEF ServedInv
<1>9. CASE Leave(e)
  <2>1. exec'[e].pc \in {"pause", "test"} /\ \A d \in Execs \ {e} : exec'[d] = exec[d]
    BY <1>0, <1>9 DEF Leave, ExecPcs
  <2>2. ~ Idle(e) /\ \A s \in Spawns : Free(s)
    BY <1>9, ServedAlone DEF Leave, Idle
  <2>3. UNCHANGED spawn
    BY <1>9, <2>2 DEF Leave, Cancelled, TypeOK, Free
  <2>4. currState = "off" /\ pid = NoPid
    BY <2>2 DEF ServedInv, NothingLeft, Free
  <2>5. announced' = [state |-> "off", pid |-> NoPid]
    BY <1>9, <2>4 DEF Leave
  <2> QED BY <1>9, <2>1, <2>2, <2>3, <2>5, ServedMoves DEF Leave, command
<1>10. CASE Pause(e)
  <2>1. exec'[e].pc = "test" /\ \A d \in Execs \ {e} : exec'[d] = exec[d]
    BY <1>0, <1>10 DEF Pause, ExecPcs
  <2>2. exec[e].pc = "pause" /\ ~ Idle(e) /\ \A s \in Spawns : Free(s)
    BY <1>10, ServedAlone DEF Pause, Idle
  <2> QED BY <1>10, <1>e, <2>1, <2>2, ServedMoves DEF Pause, command
<1> QED BY <1>1, <1>2, <1>3, <1>4, <1>5, <1>6, <1>7, <1>8, <1>9, <1>10, <1>11 DEF ExecStep

\* The steps of the spawn thread: pid is its process until that is waited for.
LEMMA ServedSpawnStep ==
  ASSUME TypeOK, ThreadsInv, ServedInv, NEW s \in Spawns, SpawnStep(s)
  PROVE  ServedInv'
<1>0. \A pc \in SpawnPcs, p \in Pids \cup {NoPid} :
        SpawnGoes(s, pc) \/ spawn' = [spawn EXCEPT ![s] = [pc |-> pc, awaits |-> p]] =>
          spawn'[s].pc = pc /\ \A t \in Spawns \ {s} : spawn'[t] = spawn[t]
  <2>1. spawn[s].awaits \in Pids \cup {NoPid}
    BY DEF TypeOK, SpawnType
  <2> QED BY <2>1, SpawnUpdate
<1>a. ~ Free(s) /\ UNCHANGED <<exec, announced, spawnThread>>
  BY DEF SpawnStep, Fork, Started, Wait, Reaped, Ended, Gone, Free, command
<1>b. \A t \in Spawns \ {s} : Free(t)
  BY <1>a DEF ServedInv, Watched
<1>c. PICK e \in Execs : exec[e].pc \in {"await", "again", "begun", "watch", "drain", "stop", "aim"}
  BY <1>a DEF ServedInv, Watched
<1>d. OneExec' /\ EndAnnounced'
  BY <1>a, <1>c DEF ServedInv, OneExec, EndAnnounced, Idle
<1>e. (\A t \in Spawns \ {s} : spawn'[t] = spawn[t]) =>
        Watched' /\ \A t \in Spawns \ {s} : spawn'[t].pc = "none"
  BY <1>a, <1>b, <1>c DEF ServedInv, Watched, Free
<1>1. CASE Fork(s)
  <2>1. spawn'[s].pc = "forked" /\ \A t \in Spawns \ {s} : spawn'[t] = spawn[t]
    BY <1>0, <1>1 DEF Fork, SpawnPcs
  <2>2. currState = "off" /\ \A p \in Pids : process[p] = "none"
    BY <1>1, <1>b DEF Fork, Free, ServedInv, NothingLeft
  <2>3. /\ pid' \in Pids /\ process'[pid'] = "running"
        /\ \A p \in Pids \ {pid'} : process'[p] = "none"
        /\ currState' = "off"
    BY <1>1, <2>2 DEF Fork, TypeOK
  <2>4. NothingLeft' /\ ProcessKnown'
    BY <1>e, <2>1, <2>3 DEF NothingLeft, ProcessKnown, Alive
  <2> QED BY <1>d, <1>e, <2>1, <2>4 DEF ServedInv
<1>2. CASE Started(s)
  <2>1. spawn'[s].pc = "started" /\ \A t \in Spawns \ {s} : spawn'[t] = spawn[t]
    BY <1>0, <1>2 DEF Started, SpawnPcs
  <2>2. NothingLeft' /\ ProcessKnown'
    BY <1>2, <1>e, <2>1 DEF Started, ServedInv, NothingLeft, ProcessKnown
  <2> QED BY <1>d, <1>e, <2>1, <2>2 DEF ServedInv
<1>3. CASE Wait(s)
  <2>1. /\ spawn'[s].pc = "wait" /\ spawn'[s].awaits = pid
        /\ \A t \in Spawns \ {s} : spawn'[t] = spawn[t]
    BY <1>3, SpawnUpdate DEF Wait, SpawnPcs, TypeOK
  <2>2. currState = "on"
    BY <1>3 DEF Wait, ThreadsInv, StateKnown
  <2>3. NothingLeft' /\ ProcessKnown'
    BY <1>3, <1>e, <2>1, <2>2 DEF Wait, ServedInv, NothingLeft, ProcessKnown, command
  <2> QED BY <1>d, <1>e, <2>1, <2>3 DEF ServedInv
<1>4. CASE Reaped(s)
  <2>1. spawn'[s].pc = "reaped" /\ \A t \in Spawns \ {s} : spawn'[t] = spawn[t]
    BY <1>0, <1>4 DEF Reaped, SpawnPcs
  <2>2. spawn[s].awaits = pid /\ pid \in Pids /\ pid # NoPid
    BY <1>4, SupervisorAssumption DEF Reaped, ServedInv, ProcessKnown, NoPid
  <2>3. process' = [process EXCEPT ![pid] = "none"]
    BY <1>4, <2>2 DEF Reaped
  <2>4. \A p \in Pids : process'[p] = "none"
    BY <1>4, <2>2, <2>3 DEF Reaped, TypeOK, ServedInv, ProcessKnown
  <2>5. currState = "on" /\ UNCHANGED <<currState, pid>>
    BY <1>4 DEF Reaped, ServedInv, ProcessKnown, command
  <2>6. NothingLeft' /\ ProcessKnown'
    BY <1>e, <2>1, <2>2, <2>4, <2>5 DEF NothingLeft, ProcessKnown
  <2> QED BY <1>d, <1>e, <2>1, <2>6 DEF ServedInv
<1>5. CASE Ended(s)
  <2>1. spawn'[s].pc = "ended" /\ \A t \in Spawns \ {s} : spawn'[t] = spawn[t]
    BY <1>0, <1>5 DEF Ended, SpawnPcs
  <2>2. NothingLeft' /\ ProcessKnown'
    BY <1>5, <1>e, <2>1 DEF Ended, ServedInv, NothingLeft, ProcessKnown
  <2> QED BY <1>d, <1>e, <2>1, <2>2 DEF ServedInv
<1>6. CASE Gone(s)
  <2>1. spawn'[s].pc = "none" /\ \A t \in Spawns \ {s} : spawn'[t] = spawn[t]
    BY <1>0, <1>6 DEF Gone, SpawnPcs
  <2>2. currState = "off" /\ \A p \in Pids : process[p] = "none"
    BY <1>6 DEF Gone, ThreadsInv, StateKnown, ServedInv, ProcessKnown
  <2>3. NothingLeft' /\ ProcessKnown'
    BY <1>6, <1>e, <2>1, <2>2 DEF Gone, NothingLeft, ProcessKnown
  <2> QED BY <1>d, <1>e, <2>1, <2>3 DEF ServedInv
<1> QED BY <1>1, <1>2, <1>3, <1>4, <1>5, <1>6 DEF SpawnStep

----------------------------------------------------------------------------
(* The invariant *)

\* It holds at the start.
LEMMA InvInit == SupervisorAssumption /\ Init => IInv
<1> SUFFICES ASSUME SupervisorAssumption, Init PROVE IInv
  OBVIOUS
<1>1. TypeOK
  <2>1. [pc |-> "none", stage |-> 1] \in ExecType
    BY StagesShape DEF ExecType, ExecPcs
  <2>2. [pc |-> "none", awaits |-> NoPid] \in SpawnType
    BY DEF SpawnType, SpawnPcs
  <2> QED BY <2>1, <2>2 DEF Init, TypeOK, States
<1>2. (\A e \in Execs : exec[e].pc = "none") /\ (\A s \in Spawns : spawn[s].pc = "none")
  BY DEF Init
<1>3. OneAwake /\ SemaphorePaired
  BY <1>2 DEF Init, OneAwake, SemaphorePaired, ExecAsleep, SpawnAsleep
<1>4. StateKnown
  BY <1>2 DEF Init, StateKnown
<1>5. OneExec /\ Watched /\ NothingLeft /\ ProcessKnown /\ EndAnnounced
  BY <1>2 DEF Init, OneExec, Watched, NothingLeft, ProcessKnown, EndAnnounced, Idle, Free
<1> QED BY <1>1, <1>3, <1>4, <1>5 DEF IInv, ThreadsInv, ServedInv

\* Every step keeps it.  That a second exec thread was created is never forgotten.
LEMMA InvStep == SupervisorAssumption /\ ~ Races /\ IInv /\ [Next]_vars => IInv'
<1> SUFFICES ASSUME SupervisorAssumption, ~ Races, IInv, [Next]_vars PROVE IInv'
  OBVIOUS
<1>0. TypeOK /\ TypeOK' /\ ThreadsInv /\ (~ crowded => ServedInv)
  BY TypeStep DEF IInv
<1> SUFFICES ThreadsInv' /\ (~ crowded' => ServedInv')
  BY <1>0 DEF IInv
<1>1. ASSUME NEW r \in States, Request(r)
      PROVE  ThreadsInv' /\ (~ crowded' => ServedInv')
  <2>1. ~ crowded' => ~ crowded
    BY <1>0, <1>1 DEF Request, TypeOK
  <2> QED BY <1>0, <1>1, <2>1, ThreadsRequest, ServedRequest
<1>2. ASSUME NEW e \in Execs, ExecStep(e)
      PROVE  ThreadsInv' /\ (~ crowded' => ServedInv')
  <2>1. UNCHANGED crowded
    BY <1>2 DEF ExecStep, Test, Create, Await, Again, Begin, Watch, Drain, Stop, Signal,
                Leave, Pause
  <2> QED BY <1>0, <1>2, <2>1, ThreadsExecStep, ServedExecStep
<1>3. ASSUME NEW s \in Spawns, SpawnStep(s)
      PROVE  ThreadsInv' /\ (~ crowded' => ServedInv')
  <2>1. UNCHANGED crowded
    BY <1>3 DEF SpawnStep, Fork, Started, Wait, Reaped, Ended, Gone
  <2> QED BY <1>0, <1>3, <2>1, ThreadsSpawnStep, ServedSpawnStep
<1>4. ASSUME NEW p \in Pids, Die(p) \/ Write(p)
      PROVE  ThreadsInv' /\ (~ crowded' => ServedInv')
  <2>0. UNCHANGED <<command, exec, spawn, announced, crowded>>
    BY <1>4 DEF Die, Write
  <2>1. ThreadsInv'
    BY <1>0, <2>0 DEF ThreadsInv, OneAwake, SemaphorePaired, StateKnown, ExecAsleep,
                      SpawnAsleep, command
  <2>2. ASSUME ServedInv PROVE ServedInv'
    <3>1. /\ process[p] \in Alive
          /\ \E q \in Alive \cup {"zombie"} : process' = [process EXCEPT ![p] = q]
      BY <1>4 DEF Die, Write
    <3>2. OneExec' /\ Watched' /\ EndAnnounced'
      BY <2>0, <2>2 DEF ServedInv, OneExec, Watched, EndAnnounced, Idle, Free, command
    <3>3. \A q \in Pids : \/ process'[q] = process[q]
                          \/ process[q] \in Alive /\ process'[q] \in Alive \cup {"zombie"}
      BY <1>0, <3>1 DEF TypeOK
    <3>4. NothingLeft' /\ ProcessKnown'
      BY <2>0, <2>2, <3>3 DEF ServedInv, NothingLeft, ProcessKnown, Alive, command
    <3> QED BY <3>2, <3>4 DEF ServedInv
  <2> QED BY <1>0, <2>0, <2>1, <2>2
<1>5. CASE UNCHANGED vars
  BY <1>0, <1>5 DEF ThreadsInv, OneAwake, SemaphorePaired, StateKnown,
                    ExecAsleep, SpawnAsleep, ServedInv, OneExec, Watched, NothingLeft,
                    ProcessKnown, EndAnnounced, Idle, Free, vars, command
<1> QED BY <1>1, <1>2, <1>3, <1>4, <1>5 DEF Next

\* It holds in every state.
LEMMA InvAlways == ASSUME ~ Races PROVE Spec => []IInv
<1>1. SupervisorAssumption
  BY SupervisorAssumption
<1>2. Init => IInv
  BY <1>1, InvInit
<1>3. IInv /\ [Next]_vars => IInv'
  BY <1>1, InvStep
<1> QED BY <1>2, <1>3, PTL DEF Spec

\* As long as one exec thread serves it, a command never has two processes, for any
\* number of threads and processes: what the exec thread watches over is the spawn
\* thread created last, and that knows its process by pid until it has waited for it.
THEOREM OneProcessAlways == ASSUME ~ Races PROVE Spec => []OneProcess
<1>1. IInv => OneProcess
  <2> SUFFICES ASSUME IInv, ~ crowded
               PROVE  /\ Cardinality(Running) <= 1
                      /\ Running # {} => (\E e \in Execs : ~ Idle(e)) /\ pid \in Running
    BY DEF OneProcess
  <2>1. ServedInv
    BY DEF IInv
  <2>2. CASE Running = {}
    BY <2>2, FS_EmptySet
  <2>3. CASE Running # {}
    <3>1. PICK p \in Pids : process[p] \in Alive
      BY <2>3 DEF Running
    <3>2. PICK s \in Spawns : spawn[s].pc \notin {"none", "fork"}
      BY <2>1, <3>1 DEF ServedInv, NothingLeft, Alive
    <3>3. spawn[s].pc \in {"forked", "started", "wait"}
      <4>1. spawn[s] \in SpawnType
        BY DEF IInv, TypeOK
      <4> QED BY <2>1, <3>1, <3>2, <4>1 DEF ServedInv, ProcessKnown, SpawnType, SpawnPcs, Alive
    <3>4. Running = {pid}
      BY <2>1, <3>1, <3>3 DEF ServedInv, ProcessKnown, Running, Alive
    <3>5. \E e \in Execs : ~ Idle(e)
      BY <2>1, <3>3 DEF ServedInv, Watched, Free, Idle
    <3>6. Cardinality({pid}) = 1
      BY FS_Singleton
    <3> QED BY <3>4, <3>5, <3>6
  <2> QED BY <2>2, <2>3
<1> QED BY <1>1, InvAlways, PTL

\* When that exec thread is gone, nothing is left of the last run and its end has been
\* announced (updateCommandTuple), so that the command may be started again.
THEOREM NothingLeftWhenIdle == ASSUME ~ Races PROVE Spec => []OffWhenIdle
<1>1. IInv => OffWhenIdle
  <2> SUFFICES ASSUME IInv, ~ crowded, \A e \in Execs : Idle(e)
               PROVE  /\ currState = "off" /\ pid = NoPid
                      /\ announced = [state |-> "off", pid |-> NoPid]
                      /\ \A p \in Pids : process[p] = "none"
                      /\ spawnSem = 0
    BY DEF OffWhenIdle
  <2>1. ServedInv /\ ThreadsInv
    BY DEF IInv
  <2>2. \A s \in Spawns : Free(s)
    BY <2>1 DEF ServedInv, Watched, Idle
  <2>3. currState = "off" /\ pid = NoPid /\ \A p \in Pids : process[p] = "none"
    BY <2>1, <2>2 DEF ServedInv, NothingLeft, Free
  <2>4. announced = [state |-> "off", pid |-> NoPid]
    BY <2>1 DEF ServedInv, EndAnnounced, Idle
  <2>5. spawnSem = 0
    BY <2>1 DEF ThreadsInv, SemaphorePaired, Idle
  <2> QED BY <2>3, <2>4, <2>5
<1> QED BY <1>1, InvAlways, PTL
=============================================================================
