-------------------------- MODULE RunDirectoryProofs ------------------------
(***************************************************************************)
(* Proofs about the run directories.                                       *)
(*                                                                         *)
(* From outside (RunScheduler), for every set of invocations, command      *)
(* lines and run directories: the exit status of a script tells of every   *)
(* container, and no two runs of the daily service work in one directory.  *)
(*                                                                         *)
(* From within (RunDirectory), for every set of names, records and         *)
(* listings and any number of invocations: what is called sent is audio    *)
(* that ffprobe accepts, the whole recording if its wav was made of a      *)
(* whole raw file; and a day whose counts look complete is complete.       *)
(***************************************************************************)
EXTENDS RunScheduler, RunDirectory, FiniteSetTheorems, TLAPS

Outcome == {"skip", "ok", "failed"}
Places == {"idle", "check", "start", "work", "ended"}

-----------------------------------------------------------------------------
(* The inductive invariant of RunScheduler.                                *)

\* The parts of the state are functions over their index sets.
ShapeInv ==
    /\ pc \in [Scripts -> Places]
    /\ DOMAIN cmd = Scripts
    /\ log \in [Scripts -> Seq(Outcome)]
    /\ exit \in [Scripts -> {"none", "ok", "failed", "killed"}]
    /\ DOMAIN dir = RunIds

\* A script that has not ended has seen no failure.
ExitInv ==
    /\ ExitTellsFailure
    /\ \A s \in Scripts : pc[s] # "ended" =>
          exit[s] = "none" /\ \A i \in DOMAIN log[s] : log[s][i] # "failed"

\* Who has worked in a directory is a script that has been started; a
\* directory that is not there has no users.
UsersInv ==
    /\ \A id \in RunIds : \A t \in dir[id].users : t \in Scripts /\ pc[t] # "idle"
    /\ \A id \in RunIds : ~dir[id].exists => dir[id].users = {}

\* One instance of the service runs at a time, and from its look at the
\* directory to the end of its work no other run of the service is in there.
ServiceInv ==
    /\ \A s, t \in Scripts :
          Running(s) /\ Running(t) /\ Cmd(s).service /\ Cmd(t).service => s = t
    /\ \A s \in Scripts, id \in RunIds :
          pc[s] \in {"start", "work"} /\ Cmd(s).service /\ Id(s) = id =>
              \A t \in dir[id].users : Cmd(t).service => t = s
    /\ OneServiceRunPerDirectory

SchedInv == ShapeInv /\ ExitInv /\ UsersInv /\ ServiceInv

LEMMA InitSched == Init => SchedInv
<1> SUFFICES ASSUME Init  PROVE SchedInv
    OBVIOUS
<1>1. ShapeInv
    BY DEF Init, ShapeInv, Places
<1>2. ExitInv
    BY DEF Init, ExitInv, ExitTellsFailure
<1>3. UsersInv
    BY DEF Init, UsersInv, NoDir
<1>4. ServiceInv
    BY DEF Init, ServiceInv, OneServiceRunPerDirectory, NoDir, Running
<1> QED BY <1>1, <1>2, <1>3, <1>4 DEF SchedInv

-----------------------------------------------------------------------------
(* The exit status.                                                        *)

\* One more outcome at the end of the log.
LEMMA LogGrows ==
    ASSUME NEW l \in Seq(Outcome), NEW o \in Outcome
    PROVE  /\ Append(l, o) \in Seq(Outcome)
           /\ Len(Append(l, o)) = Len(l) + 1
           /\ DOMAIN Append(l, o) = 1..Len(l) + 1
           /\ \A i \in 1..Len(l) : Append(l, o)[i] = l[i] /\ i \in DOMAIN l
           /\ Append(l, o)[Len(l) + 1] = o
           /\ Len(l) \in Nat /\ DOMAIN l = 1..Len(l)
OBVIOUS

\* A script that goes on, or that a signal ends, keeps its log.
LEMMA LogStays ==
    ASSUME ExitInv, log' = log,
           \A t \in Scripts : \/ exit'[t] = exit[t] /\ (pc'[t] = "ended" <=> pc[t] = "ended")
                              \/ exit'[t] = "killed" /\ pc[t] # "ended" /\ pc'[t] = "ended",
           \A t \in Scripts : pc[t] = "ended" => Cmd(t)' = Cmd(t)
    PROVE  ExitInv'
<1>1. \A s \in Scripts : pc'[s] # "ended" =>
          exit'[s] = "none" /\ \A i \in DOMAIN log'[s] : log'[s][i] # "failed"
    BY DEF ExitInv
<1>2. ASSUME NEW s \in Scripts, exit'[s] = "ok"
      PROVE  Len(log'[s]) = Targets(Cmd(s)') /\ \A i \in DOMAIN log'[s] : log'[s][i] # "failed"
  <2>1. exit[s] = "ok" /\ pc[s] = "ended"
      BY <1>2 DEF ExitInv
  <2>2. Cmd(s)' = Cmd(s)
      BY <2>1
  <2> QED BY <2>1, <2>2 DEF ExitInv, ExitTellsFailure
<1>3. \A s \in Scripts : /\ exit'[s] = "failed" => log'[s][Len(log'[s])] = "failed"
                         /\ \A i \in DOMAIN log'[s] : i < Len(log'[s]) => log'[s][i] # "failed"
    BY DEF ExitInv, ExitTellsFailure
<1>4. ExitTellsFailure'
    BY <1>2, <1>3 DEF ExitTellsFailure, Targets, Days
<1> QED BY <1>1, <1>4 DEF ExitInv

\* A target that did not fail: at the last one every target has its outcome.
LEMMA AdvanceExit ==
    ASSUME ShapeInv, ExitInv, NEW s \in Scripts, Running(s), UNCHANGED cmd,
           NEW o \in {"skip", "ok"}, Advance(s, o)
    PROVE  ExitInv'
<1>1. /\ log[s] \in Seq(Outcome) /\ o \in Outcome
      /\ pc[s] # "ended" /\ exit[s] = "none"
    BY DEF ShapeInv, ExitInv, Outcome, Running
<1>2. log' = [log EXCEPT ![s] = Append(log[s], o)] /\ DOMAIN log = Scripts
    BY DEF Advance, ShapeInv
<1>3. log'[s] = Append(log[s], o) /\ \A t \in Scripts \ {s} : log'[t] = log[t]
    BY <1>2
<1>4. /\ \A i \in DOMAIN log[s] : log[s][i] # "failed"
      /\ o # "failed"
    BY <1>1 DEF ExitInv
<1>5. \A i \in DOMAIN log'[s] : log'[s][i] # "failed"
    BY <1>1, <1>3, <1>4, LogGrows
<1>6. \A t \in Scripts : Cmd(t)' = Cmd(t) /\ Targets(Cmd(t)') = Targets(Cmd(t))
    BY DEF Cmd
<1>7. \A t \in Scripts \ {s} : pc'[t] = pc[t] /\ exit'[t] = exit[t]
    BY DEF Advance, ShapeInv
<1>8. \/ pc'[s] = "ended" /\ exit'[s] = "ok" /\ Len(log[s]) + 1 = Targets(Cmd(s))
      \/ pc'[s] = "check" /\ exit'[s] = "none"
    BY <1>1 DEF Advance, ShapeInv
<1>9. Len(log'[s]) = Len(log[s]) + 1
    BY <1>1, <1>3, LogGrows
<1>10. ASSUME NEW t \in Scripts
       PROVE  /\ exit'[t] = "ok" => Len(log'[t]) = Targets(Cmd(t)')
              /\ exit'[t] = "ok" => \A i \in DOMAIN log'[t] : log'[t][i] # "failed"
              /\ exit'[t] = "failed" => log'[t][Len(log'[t])] = "failed"
              /\ \A i \in DOMAIN log'[t] : i < Len(log'[t]) => log'[t][i] # "failed"
              /\ pc'[t] # "ended" => exit'[t] = "none"
              /\ pc'[t] # "ended" => \A i \in DOMAIN log'[t] : log'[t][i] # "failed"
  <2>1. CASE t = s
      BY <2>1, <1>5, <1>6, <1>8, <1>9
  <2>2. CASE t # s
      BY <2>2, <1>3, <1>6, <1>7 DEF ExitInv, ExitTellsFailure
  <2> QED BY <2>1, <2>2
<1>11. ExitTellsFailure'
    BY <1>10 DEF ExitTellsFailure, Targets, Days
<1> QED BY <1>10, <1>11 DEF ExitInv

\* A container that failed is the last entry of the log.
LEMMA AbortExit ==
    ASSUME ShapeInv, ExitInv, NEW s \in Scripts, Running(s), UNCHANGED cmd, Abort(s)
    PROVE  ExitInv'
<1>1. /\ log[s] \in Seq(Outcome) /\ "failed" \in Outcome
      /\ pc[s] # "ended" /\ exit[s] = "none"
    BY DEF ShapeInv, ExitInv, Outcome, Running
<1>2. log' = [log EXCEPT ![s] = Append(log[s], "failed")] /\ DOMAIN log = Scripts
    BY DEF Abort, ShapeInv
<1>3. log'[s] = Append(log[s], "failed") /\ \A t \in Scripts \ {s} : log'[t] = log[t]
    BY <1>2
<1>4. \A i \in DOMAIN log[s] : log[s][i] # "failed"
    BY <1>1 DEF ExitInv
<1>5. /\ Len(log'[s]) = Len(log[s]) + 1 /\ log'[s][Len(log[s]) + 1] = "failed"
      /\ \A i \in DOMAIN log'[s] : i < Len(log'[s]) => log'[s][i] # "failed"
  <2>1. \A i \in 1..Len(log[s]) : log'[s][i] # "failed"
      BY <1>1, <1>3, <1>4, LogGrows
  <2>2. /\ Len(log'[s]) = Len(log[s]) + 1 /\ log'[s][Len(log[s]) + 1] = "failed"
        /\ DOMAIN log'[s] = 1..Len(log[s]) + 1 /\ Len(log[s]) \in Nat
      BY <1>1, <1>3, LogGrows
  <2>3. ASSUME NEW i \in DOMAIN log'[s], i < Len(log'[s])  PROVE i \in 1..Len(log[s])
      BY <2>2, <2>3
  <2> QED BY <2>1, <2>2, <2>3
<1>6. \A t \in Scripts : Cmd(t)' = Cmd(t) /\ Targets(Cmd(t)') = Targets(Cmd(t))
    BY DEF Cmd
<1>7. /\ \A t \in Scripts \ {s} : pc'[t] = pc[t] /\ exit'[t] = exit[t]
      /\ pc'[s] = "ended" /\ exit'[s] = "failed"
    BY DEF Abort, ShapeInv
<1>8. ASSUME NEW t \in Scripts
      PROVE  /\ exit'[t] = "ok" => Len(log'[t]) = Targets(Cmd(t)')
             /\ exit'[t] = "ok" => \A i \in DOMAIN log'[t] : log'[t][i] # "failed"
             /\ exit'[t] = "failed" => log'[t][Len(log'[t])] = "failed"
             /\ \A i \in DOMAIN log'[t] : i < Len(log'[t]) => log'[t][i] # "failed"
             /\ pc'[t] # "ended" => exit'[t] = "none"
             /\ pc'[t] # "ended" => \A i \in DOMAIN log'[t] : log'[t][i] # "failed"
  <2>1. CASE t = s
      BY <2>1, <1>5, <1>7
  <2>2. CASE t # s
      BY <2>2, <1>3, <1>6, <1>7 DEF ExitInv, ExitTellsFailure
  <2> QED BY <2>1, <2>2
<1>9. ExitTellsFailure'
    BY <1>8 DEF ExitTellsFailure, Targets, Days
<1> QED BY <1>8, <1>9 DEF ExitInv

-----------------------------------------------------------------------------
(* Who works where.                                                        *)

\* A step that starts no script, and brings none nearer to a container, keeps
\* the runs of the service apart.
LEMMA ApartStays ==
    ASSUME ShapeInv, UsersInv, ServiceInv, UNCHANGED cmd, DOMAIN dir' = RunIds,
           \A t \in Scripts :
              \/ pc'[t] \in {"check", "ended"} /\ Running(t)
              \/ pc'[t] = "start" /\ pc[t] = "work" /\ log'[t] = log[t]
              \/ pc'[t] = pc[t] /\ log'[t] = log[t],
           \A id \in RunIds : /\ dir'[id].users \subseteq dir[id].users
                              /\ ~dir'[id].exists => dir'[id].users = {}
    PROVE  UsersInv' /\ ServiceInv'
<1>1. \A t \in Scripts : Cmd(t)' = Cmd(t)
    BY DEF Cmd
<1>2. \A t \in Scripts : /\ Running(t)' => Running(t)
                         /\ pc[t] # "idle" => pc'[t] # "idle"
    BY DEF Running
<1>3. \A t \in Scripts : pc'[t] \in {"start", "work"} =>
          pc[t] \in {"start", "work"} /\ Id(t)' = Id(t)
    BY <1>1 DEF Id, Target, Days
<1>4. UsersInv'
    BY <1>2 DEF UsersInv
<1>5. \A s, t \in Scripts :
          (Running(s) /\ Running(t) /\ Cmd(s).service /\ Cmd(t).service)' => s = t
    BY <1>1, <1>2 DEF ServiceInv
<1>6. ASSUME NEW s \in Scripts, NEW id \in RunIds, pc'[s] \in {"start", "work"},
             Cmd(s)'.service, Id(s)' = id, NEW t \in dir'[id].users, Cmd(t)'.service
      PROVE  t = s
  <2>1. t \in dir[id].users /\ t \in Scripts
      BY DEF UsersInv
  <2> QED BY <1>1, <1>3, <1>6, <2>1 DEF ServiceInv
<1>7. ASSUME NEW id \in RunIds, NEW s \in dir'[id].users, NEW t \in dir'[id].users,
             Cmd(s)'.service, Cmd(t)'.service
      PROVE  s = t
  <2>1. s \in dir[id].users /\ t \in dir[id].users /\ s \in Scripts /\ t \in Scripts
      BY DEF UsersInv
  <2> QED BY <1>1, <1>7, <2>1 DEF ServiceInv, OneServiceRunPerDirectory
<1>8. OneServiceRunPerDirectory'
    BY <1>7 DEF OneServiceRunPerDirectory
<1> QED BY <1>4, <1>5, <1>6, <1>8 DEF ServiceInv

\* systemd starts no second instance of the service.
LEMMA InvokeApart ==
    ASSUME ShapeInv, UsersInv, ServiceInv, NEW s \in Scripts, Invoke(s)
    PROVE  UsersInv' /\ ServiceInv'
<1>1. PICK c \in Commands[s] :
          /\ c.service => \A t \in Scripts : ~(Running(t) /\ Cmd(t).service)
          /\ cmd' = [cmd EXCEPT ![s] = {c}]
    BY DEF Invoke
<1>2. /\ pc[s] = "idle" /\ pc' = [pc EXCEPT ![s] = "check"]
      /\ log' = log /\ dir' = dir
    BY DEF Invoke
<1>3. Cmd(s)' = c
  <2>1. cmd'[s] = {c}
      BY <1>1 DEF ShapeInv
  <2> QED BY <2>1 DEF Cmd
<1>4. \A t \in Scripts \ {s} : /\ pc'[t] = pc[t] /\ Cmd(t)' = Cmd(t)
                               /\ Running(t)' = Running(t) /\ Id(t)' = Id(t)
  <2>1. \A t \in Scripts \ {s} : pc'[t] = pc[t] /\ cmd'[t] = cmd[t]
      BY <1>1, <1>2 DEF ShapeInv
  <2>2. \A t \in Scripts \ {s} : Cmd(t)' = Cmd(t)
      BY <2>1 DEF Cmd
  <2>3. \A t \in Scripts \ {s} : Id(t)' = Id(t)
      BY <1>2, <2>2 DEF Id, Target, Days
  <2>4. \A t \in Scripts \ {s} : Running(t)' = Running(t)
      BY <2>1 DEF Running
  <2> QED BY <2>1, <2>2, <2>3, <2>4
<1>5. pc'[s] = "check" /\ \A id \in RunIds : s \notin dir[id].users
    BY <1>2 DEF ShapeInv, UsersInv
<1>6. UsersInv'
    BY <1>2, <1>4, <1>5 DEF UsersInv
<1>7. ASSUME NEW t \in Scripts, NEW u \in Scripts, Running(t)', Running(u)',
             Cmd(t)'.service, Cmd(u)'.service
      PROVE  t = u
  <2>1. CASE t = s /\ u # s
      BY <1>1, <1>3, <1>4, <1>7, <2>1
  <2>2. CASE t # s /\ u = s
      BY <1>1, <1>3, <1>4, <1>7, <2>2
  <2>3. CASE t # s /\ u # s
    <3>1. Running(t) /\ Running(u) /\ Cmd(t).service /\ Cmd(u).service
        BY <1>4, <1>7, <2>3
    <3> QED BY <3>1 DEF ServiceInv
  <2> QED BY <2>1, <2>2, <2>3
<1>8. ASSUME NEW t \in Scripts, NEW id \in RunIds, pc'[t] \in {"start", "work"},
             Cmd(t)'.service, Id(t)' = id, NEW u \in dir'[id].users, Cmd(u)'.service
      PROVE  u = t
  <2>1. t # s /\ u # s /\ u \in dir[id].users /\ u \in Scripts
      BY <1>2, <1>5, <1>8 DEF UsersInv
  <2> QED BY <1>4, <1>8, <2>1 DEF ServiceInv
<1>9. ASSUME NEW id \in RunIds, NEW t \in dir'[id].users, NEW u \in dir'[id].users,
             Cmd(t)'.service, Cmd(u)'.service
      PROVE  t = u
  <2>1. /\ t \in dir[id].users /\ u \in dir[id].users /\ t # s /\ u # s
        /\ t \in Scripts /\ u \in Scripts
      BY <1>2, <1>5 DEF UsersInv
  <2> QED BY <1>4, <1>9, <2>1 DEF ServiceInv, OneServiceRunPerDirectory
<1>10. OneServiceRunPerDirectory'
    BY <1>9 DEF OneServiceRunPerDirectory
<1> QED BY <1>6, <1>7, <1>8, <1>10 DEF ServiceInv

\* A directory that is not there has no users; nobody else of the service can
\* get into it before this script does.
LEMMA PassApart ==
    ASSUME ShapeInv, UsersInv, ServiceInv, NEW s \in Scripts, Pass(s)
    PROVE  UsersInv' /\ ServiceInv'
<1>1. /\ pc[s] = "check" /\ ~Found(Id(s)) /\ pc' = [pc EXCEPT ![s] = "start"]
      /\ cmd' = cmd /\ log' = log /\ dir' = dir
    BY DEF Pass
<1>2. \A t \in Scripts : /\ Cmd(t)' = Cmd(t) /\ Id(t)' = Id(t)
                         /\ Running(t)' => Running(t)
                         /\ pc[t] # "idle" => pc'[t] # "idle"
                         /\ t # s => pc'[t] = pc[t]
  <2>1. \A t \in Scripts : Cmd(t)' = Cmd(t)
      BY <1>1 DEF Cmd
  <2> QED BY <1>1, <2>1 DEF ShapeInv, Running, Id, Target, Days
<1>3. UsersInv'
    BY <1>1, <1>2 DEF UsersInv
<1>4. \A t, u \in Scripts :
          (Running(t) /\ Running(u) /\ Cmd(t).service /\ Cmd(u).service)' => t = u
    BY <1>2 DEF ServiceInv
<1>5. Id(s) \in RunIds => dir[Id(s)].users = {}
    BY <1>1 DEF UsersInv, Found
<1>6. ASSUME NEW t \in Scripts, NEW id \in RunIds, pc'[t] \in {"start", "work"},
             Cmd(t)'.service, Id(t)' = id, NEW u \in dir'[id].users, Cmd(u)'.service
      PROVE  u = t
  <2>1. t # s /\ u \in dir[id].users /\ u \in Scripts
      BY <1>1, <1>2, <1>5, <1>6 DEF UsersInv
  <2> QED BY <1>2, <1>6, <2>1 DEF ServiceInv
<1>7. ASSUME NEW id \in RunIds, NEW t \in dir'[id].users, NEW u \in dir'[id].users,
             Cmd(t)'.service, Cmd(u)'.service
      PROVE  t = u
  <2>1. t \in dir[id].users /\ u \in dir[id].users /\ t \in Scripts /\ u \in Scripts
      BY <1>1 DEF UsersInv
  <2> QED BY <1>2, <1>7, <2>1 DEF ServiceInv, OneServiceRunPerDirectory
<1>8. OneServiceRunPerDirectory'
    BY <1>7 DEF OneServiceRunPerDirectory
<1> QED BY <1>3, <1>4, <1>6, <1>8 DEF ServiceInv

\* The container gets into the directory, where no other run of the service is.
LEMMA StartApart ==
    ASSUME ShapeInv, UsersInv, ServiceInv, NEW s \in Scripts, Start(s)
    PROVE  UsersInv' /\ ServiceInv'
<1>1. /\ pc[s] = "start" /\ pc' = [pc EXCEPT ![s] = "work"]
      /\ cmd' = cmd /\ log' = log
    BY DEF Start
<1>2. \A t \in Scripts : /\ Cmd(t)' = Cmd(t) /\ Id(t)' = Id(t)
                         /\ Running(t)' => Running(t)
                         /\ pc[t] # "idle" => pc'[t] # "idle"
                         /\ pc'[t] \in {"start", "work"} => pc[t] \in {"start", "work"}
  <2>1. \A t \in Scripts : Cmd(t)' = Cmd(t)
      BY <1>1 DEF Cmd
  <2> QED BY <1>1, <2>1 DEF ShapeInv, Running, Id, Target, Days
<1>3. \A id \in RunIds :
          IF id = Id(s) THEN dir'[id].exists /\ dir'[id].users = dir[id].users \cup {s}
          ELSE dir'[id] = dir[id]
    BY DEF Start, ShapeInv
<1>4. UsersInv'
    BY <1>1, <1>2, <1>3 DEF UsersInv
<1>5. \A t, u \in Scripts :
          (Running(t) /\ Running(u) /\ Cmd(t).service /\ Cmd(u).service)' => t = u
    BY <1>2 DEF ServiceInv
<1>6. ASSUME NEW t \in Scripts, NEW id \in RunIds, pc'[t] \in {"start", "work"},
             Cmd(t)'.service, Id(t)' = id, NEW u \in dir'[id].users, Cmd(u)'.service
      PROVE  u = t
  <2>1. CASE u \in dir[id].users
    <3>1. u \in Scripts
        BY <2>1 DEF UsersInv
    <3> QED BY <1>2, <1>6, <2>1, <3>1 DEF ServiceInv
  <2>2. CASE u = s
    <3>1. Running(s) /\ Running(t)
        BY <1>1, <1>2, <1>6 DEF Running
    <3> QED BY <1>2, <1>6, <2>2, <3>1 DEF ServiceInv
  <2> QED BY <1>3, <1>6, <2>1, <2>2
<1>7. ASSUME NEW id \in RunIds, NEW t \in dir'[id].users, NEW u \in dir'[id].users,
             Cmd(t)'.service, Cmd(u)'.service
      PROVE  t = u
  <2>1. t \in Scripts /\ u \in Scripts
      BY <1>4 DEF UsersInv
  <2>2. CASE t \in dir[id].users /\ u \in dir[id].users
      BY <1>2, <1>7, <2>1, <2>2 DEF ServiceInv, OneServiceRunPerDirectory
  <2>3. CASE (t \notin dir[id].users \/ u \notin dir[id].users) /\ t # u
    <3>1. id = Id(s) /\ (t = s \/ u = s) /\ t \in dir[id].users \cup {s}
          /\ u \in dir[id].users \cup {s}
        BY <1>3, <2>3
    <3> QED BY <1>1, <1>2, <1>7, <2>1, <2>3, <3>1 DEF ServiceInv
  <2> QED BY <2>2, <2>3
<1>8. OneServiceRunPerDirectory'
    BY <1>7 DEF OneServiceRunPerDirectory
<1> QED BY <1>4, <1>5, <1>6, <1>8 DEF ServiceInv

-----------------------------------------------------------------------------
(* One lemma for each action.                                              *)

LEMMA InvokeSched ==
    ASSUME SchedInv, NEW s \in Scripts, Invoke(s)  PROVE SchedInv'
<1>1. ShapeInv'
    BY DEF SchedInv, ShapeInv, Invoke, Places
<1>2. ExitInv'
  <2>1. \A t \in Scripts : pc[t] = "ended" => Cmd(t)' = Cmd(t)
    <3>1. \A t \in Scripts : pc[t] = "ended" => cmd'[t] = cmd[t]
        BY DEF SchedInv, ShapeInv, Invoke
    <3> QED BY <3>1 DEF Cmd
  <2>2. \A t \in Scripts : exit'[t] = exit[t] /\ (pc'[t] = "ended" <=> pc[t] = "ended")
      BY DEF SchedInv, ShapeInv, Invoke
  <2> QED BY <2>1, <2>2, LogStays DEF SchedInv, Invoke
<1> QED BY <1>1, <1>2, InvokeApart DEF SchedInv

LEMMA SkipSched ==
    ASSUME SchedInv, NEW s \in Scripts, Skip(s)  PROVE SchedInv'
<1>1. log[s] \in Seq(Outcome) /\ Append(log[s], "skip") \in Seq(Outcome)
    BY LogGrows DEF SchedInv, ShapeInv, Outcome
<1>2. ShapeInv'
    BY <1>1 DEF SchedInv, ShapeInv, Skip, Advance, Places
<1>3. ExitInv'
    BY AdvanceExit DEF SchedInv, Skip, Running
<1>4. \A t \in Scripts : \/ pc'[t] \in {"check", "ended"} /\ Running(t)
                         \/ pc'[t] = pc[t] /\ log'[t] = log[t]
    BY DEF SchedInv, ShapeInv, Skip, Advance, Running
<1>5. UsersInv' /\ ServiceInv'
    BY <1>4, ApartStays DEF SchedInv, ShapeInv, UsersInv, Skip
<1> QED BY <1>2, <1>3, <1>5 DEF SchedInv

LEMMA PassSched ==
    ASSUME SchedInv, NEW s \in Scripts, Pass(s)  PROVE SchedInv'
<1>1. ShapeInv'
    BY DEF SchedInv, ShapeInv, Pass, Places
<1>2. ExitInv'
  <2>1. \A t \in Scripts : exit'[t] = exit[t] /\ (pc'[t] = "ended" <=> pc[t] = "ended")
      BY DEF SchedInv, ShapeInv, Pass
  <2>2. \A t \in Scripts : Cmd(t)' = Cmd(t)
      BY DEF Pass, Cmd
  <2> QED BY <2>1, <2>2, LogStays DEF SchedInv, Pass
<1> QED BY <1>1, <1>2, PassApart DEF SchedInv

LEMMA StartSched ==
    ASSUME SchedInv, NEW s \in Scripts, Start(s)  PROVE SchedInv'
<1>1. ShapeInv'
    BY DEF SchedInv, ShapeInv, Start, Places
<1>2. ExitInv'
  <2>1. \A t \in Scripts : exit'[t] = exit[t] /\ (pc'[t] = "ended" <=> pc[t] = "ended")
      BY DEF SchedInv, ShapeInv, Start
  <2>2. \A t \in Scripts : Cmd(t)' = Cmd(t)
      BY DEF Start, Cmd
  <2> QED BY <2>1, <2>2, LogStays DEF SchedInv, Start
<1> QED BY <1>1, <1>2, StartApart DEF SchedInv

\* A container that fails, at its start or later.
LEMMA AbortSched ==
    ASSUME SchedInv, NEW s \in Scripts, Running(s), Abort(s), UNCHANGED cmd,
           DOMAIN dir' = RunIds,
           \A id \in RunIds : dir'[id].users = dir[id].users /\ dir'[id].exists = dir[id].exists
    PROVE  SchedInv'
<1>1. log[s] \in Seq(Outcome) /\ Append(log[s], "failed") \in Seq(Outcome)
    BY LogGrows DEF SchedInv, ShapeInv, Outcome
<1>2. ShapeInv'
    BY <1>1 DEF SchedInv, ShapeInv, Abort, Places
<1>3. ExitInv'
    BY AbortExit DEF SchedInv
<1>4. \A t \in Scripts : \/ pc'[t] \in {"check", "ended"} /\ Running(t)
                         \/ pc'[t] = pc[t] /\ log'[t] = log[t]
    BY DEF SchedInv, ShapeInv, Abort
<1>5. UsersInv' /\ ServiceInv'
    BY <1>4, ApartStays DEF SchedInv, UsersInv
<1> QED BY <1>2, <1>3, <1>5 DEF SchedInv

LEMMA ProgressKeepsUsers ==
    ASSUME ShapeInv, NEW s \in Scripts, NEW p, NEW l, Progress(s, p, l)
    PROVE  /\ DOMAIN dir' = RunIds
           /\ \A id \in RunIds : /\ dir'[id].users = dir[id].users
                                 /\ dir'[id].exists = dir[id].exists
BY DEF ShapeInv, Progress

LEMMA FailsSched ==
    ASSUME SchedInv, NEW s \in Scripts, StartFails(s) \/ Fails(s)  PROVE SchedInv'
<1>1. CASE StartFails(s)
    BY <1>1, AbortSched DEF StartFails, SchedInv, ShapeInv, Running
<1>2. CASE Fails(s)
  <2>1. PICK p, l : Progress(s, p, l)
      BY <1>2 DEF Fails
  <2>2. Running(s) /\ Abort(s) /\ UNCHANGED cmd
      BY <1>2 DEF Fails, Running
  <2> QED BY <2>1, <2>2, ProgressKeepsUsers, AbortSched DEF SchedInv
<1> QED BY <1>1, <1>2

LEMMA WorksSched ==
    ASSUME SchedInv, NEW s \in Scripts, Works(s)  PROVE SchedInv'
<1>1. /\ pc[s] = "work" /\ Running(s) /\ UNCHANGED cmd
      /\ Progress(s, Reach(s), Lists(s))
    BY DEF Works, Running
<1>2. /\ DOMAIN dir' = RunIds
      /\ \A id \in RunIds : dir'[id].users = dir[id].users /\ dir'[id].exists = dir[id].exists
    BY <1>1, ProgressKeepsUsers DEF SchedInv
<1>3. CASE /\ pc' = [pc EXCEPT ![s] = "start"]
           /\ log' = log /\ exit' = exit
  <2>1. ShapeInv'
      BY <1>1, <1>2, <1>3 DEF SchedInv, ShapeInv, Places
  <2>2. ExitInv'
    <3>1. \A t \in Scripts : exit'[t] = exit[t] /\ (pc'[t] = "ended" <=> pc[t] = "ended")
        BY <1>1, <1>3 DEF SchedInv, ShapeInv
    <3>2. \A t \in Scripts : Cmd(t)' = Cmd(t)
        BY <1>1 DEF Cmd
    <3> QED BY <1>3, <3>1, <3>2, LogStays DEF SchedInv
  <2>3. \A t \in Scripts : \/ pc'[t] = "start" /\ pc[t] = "work" /\ log'[t] = log[t]
                           \/ pc'[t] = pc[t] /\ log'[t] = log[t]
      BY <1>1, <1>3 DEF SchedInv, ShapeInv
  <2>4. UsersInv' /\ ServiceInv'
      BY <1>1, <1>2, <2>3, ApartStays DEF SchedInv, UsersInv
  <2> QED BY <2>1, <2>2, <2>4 DEF SchedInv
<1>4. CASE Advance(s, "ok")
  <2>1. log[s] \in Seq(Outcome) /\ Append(log[s], "ok") \in Seq(Outcome)
      BY LogGrows DEF SchedInv, ShapeInv, Outcome
  <2>2. ShapeInv'
      BY <1>1, <1>2, <1>4, <2>1 DEF SchedInv, ShapeInv, Advance, Places
  <2>3. ExitInv'
      BY <1>1, <1>4, AdvanceExit DEF SchedInv
  <2>4. \A t \in Scripts : \/ pc'[t] \in {"check", "ended"} /\ Running(t)
                           \/ pc'[t] = pc[t] /\ log'[t] = log[t]
      BY <1>1, <1>4 DEF SchedInv, ShapeInv, Advance
  <2>5. UsersInv' /\ ServiceInv'
      BY <1>1, <1>2, <2>4, ApartStays DEF SchedInv, UsersInv
  <2> QED BY <2>2, <2>3, <2>5 DEF SchedInv
<1> QED BY <1>3, <1>4 DEF Works

LEMMA StopSched ==
    ASSUME SchedInv, NEW s \in Scripts, Stop(s)  PROVE SchedInv'
<1>1. ShapeInv'
    BY DEF SchedInv, ShapeInv, Stop, Places
<1>2. ExitInv'
  <2>1. \A t \in Scripts : \/ exit'[t] = exit[t] /\ (pc'[t] = "ended" <=> pc[t] = "ended")
                           \/ exit'[t] = "killed" /\ pc[t] # "ended" /\ pc'[t] = "ended"
      BY DEF SchedInv, ShapeInv, Stop, Running
  <2>2. \A t \in Scripts : Cmd(t)' = Cmd(t)
      BY DEF Stop, Cmd
  <2> QED BY <2>1, <2>2, LogStays DEF SchedInv, Stop
<1>3. \A t \in Scripts : \/ pc'[t] \in {"check", "ended"} /\ Running(t)
                         \/ pc'[t] = pc[t] /\ log'[t] = log[t]
    BY DEF SchedInv, ShapeInv, Stop
<1>4. UsersInv' /\ ServiceInv'
    BY <1>3, ApartStays DEF SchedInv, ShapeInv, UsersInv, Stop
<1> QED BY <1>1, <1>2, <1>4 DEF SchedInv

LEMMA RemovalSched ==
    ASSUME SchedInv, NEW id \in RunIds, Purge(id) \/ Remove(id)  PROVE SchedInv'
<1>1. UNCHANGED <<pc, cmd, part, log, exit>>
    BY DEF Purge, Remove
<1>2. PICK left : /\ dir' = [dir EXCEPT ![id] = left]
                  /\ left.users \subseteq dir[id].users
                  /\ ~left.exists => left.users = {}
  <2>1. NoDir.users \subseteq dir[id].users /\ NoDir.users = {}
      BY DEF NoDir
  <2>2. CASE Remove(id)
      BY <2>1, <2>2 DEF Remove
  <2>3. CASE Purge(id)
    <3>1. PICK left \in {NoDir, [exists |-> TRUE, listed |-> FALSE, progress |-> 0,
                                users |-> dir[id].users]} : dir' = [dir EXCEPT ![id] = left]
        BY <2>3 DEF Purge
    <3>2. /\ left.users \subseteq dir[id].users
          /\ ~left.exists => left.users = {}
        BY <2>1, <3>1
    <3> QED BY <3>1, <3>2
  <2> QED BY <2>2, <2>3
<1>3. ShapeInv'
    BY <1>1, <1>2 DEF SchedInv, ShapeInv
<1>4. ExitInv'
  <2>1. \A t \in Scripts : Cmd(t)' = Cmd(t)
      BY <1>1 DEF Cmd
  <2> QED BY <1>1, <2>1, LogStays DEF SchedInv
<1>5. \A i \in RunIds : /\ dir'[i].users \subseteq dir[i].users
                        /\ ~dir'[i].exists => dir'[i].users = {}
    BY <1>2 DEF SchedInv, ShapeInv, UsersInv
<1>6. UsersInv' /\ ServiceInv'
    BY <1>1, <1>3, <1>5, ApartStays DEF SchedInv, ShapeInv
<1> QED BY <1>3, <1>4, <1>6 DEF SchedInv

-----------------------------------------------------------------------------
(* Types.                                                                  *)

\* The container that is next is one of those of the mode.
PartInv ==
    \A s \in Scripts : /\ pc[s] = "idle" => part[s] = 1
                       /\ Running(s) => part[s] \in DOMAIN Parts(Cmd(s))

TypeInv == TypeOK /\ PartInv

LEMMA PartsOfMode ==
    ASSUME NEW c, c.mode \in Modes
    PROVE  /\ Len(Parts(c)) \in 1..3 /\ DOMAIN Parts(c) = 1..Len(Parts(c))
           /\ \A i \in DOMAIN Parts(c) :
                 Parts(c)[i] \in {"runner", "fetch", "convert", "match", "upload"}
<1>1. CASE c.mode = "full"
  <2>1. Parts(c) = <<"runner">>
      BY <1>1 DEF Parts
  <2> QED BY <2>1
<1>2. CASE c.mode = "match"
  <2>1. Parts(c) = <<"fetch", "convert", "match">>
      BY <1>2 DEF Parts
  <2> QED BY <2>1
<1>3. CASE c.mode \in {"fetch", "convert", "upload"}
  <2>1. Parts(c) = <<c.mode>>
      BY <1>3 DEF Parts
  <2> QED BY <1>3, <2>1
<1> QED BY <1>1, <1>2, <1>3 DEF Modes

LEMMA CommandOfScript ==
    ASSUME TypeOK, NEW s \in Scripts, pc[s] # "idle"
    PROVE  Cmd(s) \in Commands[s] /\ Cmd(s).mode \in Modes
<1>1. PICK c \in Commands[s] : cmd[s] = {c}
    BY DEF TypeOK
<1>2. Cmd(s) = c
    BY <1>1 DEF Cmd
<1> QED BY <1>1, <1>2, SchedulerAssumption

\* No stage takes a directory further than uploaded.
LEMMA ReachIsProgress ==
    ASSUME TypeInv, NEW s \in Scripts, Running(s), Id(s) \in RunIds
    PROVE  /\ Reach(s) \in 0..4 /\ dir[Id(s)].progress \in 0..4
           /\ Lists(s) \in BOOLEAN /\ dir[Id(s)].listed \in BOOLEAN
<1>1. Part(s) \in {"runner", "fetch", "convert", "match", "upload"}
    BY CommandOfScript, PartsOfMode DEF TypeInv, PartInv, Part, Running
<1>2. dir[Id(s)].progress \in 0..4 /\ dir[Id(s)].listed \in BOOLEAN
    BY DEF TypeInv, TypeOK
<1>3. Reach(s) \in 0..4
  <2>1. Part(s) # "runner" => Level[Part(s)] \in 1..4
      BY <1>1 DEF Level
  <2> QED BY <1>2, <2>1 DEF Reach
<1>4. Lists(s) \in BOOLEAN
    BY <1>2 DEF Lists
<1> QED BY <1>2, <1>3, <1>4

LEMMA ProgressTypes ==
    ASSUME TypeInv, NEW s \in Scripts, Running(s), NEW p, NEW l, Progress(s, p, l),
           Id(s) \in RunIds => p \in 0..4 /\ l \in BOOLEAN
    PROVE  dir' \in [RunIds -> [exists : BOOLEAN, listed : BOOLEAN, progress : 0..4,
                                users : SUBSET Scripts]]
BY DEF TypeInv, TypeOK, Progress

\* A script that goes on with its command.
LEMMA ScriptTypes ==
    ASSUME TypeInv, NEW s \in Scripts, Script(s) \/ Stop(s)  PROVE TypeInv'
<1>1. Running(s) /\ pc[s] # "idle" /\ UNCHANGED cmd
    BY DEF Script, Stop, Skip, Pass, Start, StartFails, Works, Fails, Running
<1>2. \A t \in Scripts : Cmd(t)' = Cmd(t) /\ Parts(Cmd(t)') = Parts(Cmd(t))
    BY <1>1 DEF Cmd
<1>3. /\ Len(Parts(Cmd(s))) \in 1..3 /\ DOMAIN Parts(Cmd(s)) = 1..Len(Parts(Cmd(s)))
      /\ part[s] \in 1..3
    BY <1>1, CommandOfScript, PartsOfMode DEF TypeInv, TypeOK
<1>4. log[s] \in Seq(Outcome) /\ \A o \in Outcome : Append(log[s], o) \in Seq(Outcome)
    BY LogGrows DEF TypeInv, TypeOK, Outcome
<1>5. dir' \in [RunIds -> [exists : BOOLEAN, listed : BOOLEAN, progress : 0..4,
                           users : SUBSET Scripts]]
  <2>1. CASE UNCHANGED dir
      BY <2>1 DEF TypeInv, TypeOK
  <2>2. CASE Start(s)
      BY <2>2 DEF TypeInv, TypeOK, Start
  <2>3. CASE Works(s)
      BY <1>1, <2>3, ReachIsProgress, ProgressTypes DEF Works
  <2>4. CASE Fails(s)
    <3>1. PICK p \in dir[Id(s)].progress..Reach(s), l \in {dir[Id(s)].listed, Lists(s)} :
              Progress(s, p, l)
        BY <2>4 DEF Fails
    <3>2. Id(s) \in RunIds => p \in 0..4 /\ l \in BOOLEAN
        BY <1>1, ReachIsProgress
    <3> QED BY <1>1, <3>1, <3>2, ProgressTypes
  <2> QED BY <2>1, <2>2, <2>3, <2>4 DEF Script, Stop, Skip, Pass, StartFails
<1>6. \/ /\ pc' = [pc EXCEPT ![s] = "check"] /\ part' = [part EXCEPT ![s] = 1]
         /\ exit' = exit /\ \E o \in Outcome : log' = [log EXCEPT ![s] = Append(@, o)]
      \/ /\ pc' = [pc EXCEPT ![s] = "ended"]
         /\ part' = part \/ part' = [part EXCEPT ![s] = 1]
         /\ \E e \in {"ok", "failed", "killed"} : exit' = [exit EXCEPT ![s] = e]
         /\ log' = log \/ \E o \in Outcome : log' = [log EXCEPT ![s] = Append(@, o)]
      \/ /\ pc' = [pc EXCEPT ![s] = "start"] \/ pc' = [pc EXCEPT ![s] = "work"]
         /\ part' = part \/ (part' = [part EXCEPT ![s] = @ + 1]
                             /\ part[s] < Len(Parts(Cmd(s))))
         /\ exit' = exit /\ log' = log
    BY DEF Script, Stop, Skip, Pass, Start, StartFails, Works, Fails, Advance, Abort, Outcome
<1>7. /\ pc' \in [Scripts -> Places]
      /\ \A t \in Scripts : pc'[t] = "idle" <=> pc[t] = "idle"
    BY <1>1, <1>6 DEF TypeInv, TypeOK, Places
<1>8. part' \in [Scripts -> 1..3]
  <2>1. part \in [Scripts -> 1..3]
      BY DEF TypeInv, TypeOK
  <2>2. \/ part' = part \/ part' = [part EXCEPT ![s] = 1]
        \/ part' = [part EXCEPT ![s] = part[s] + 1] /\ part[s] < Len(Parts(Cmd(s)))
      BY <1>6
  <2>3. part[s] < Len(Parts(Cmd(s))) => part[s] + 1 \in 1..3
    <3>1. PICK m \in 1..3 : m = Len(Parts(Cmd(s)))
        BY <1>3
    <3>2. PICK n \in 1..3 : n = part[s]
        BY <1>3
    <3>3. n < m => n + 1 \in 1..3
        OBVIOUS
    <3> QED BY <3>1, <3>2, <3>3
  <2> QED BY <2>1, <2>2, <2>3
<1>9. log' \in [Scripts -> Seq(Outcome)]
  <2>1. log \in [Scripts -> Seq(Outcome)]
      BY DEF TypeInv, TypeOK, Outcome
  <2>2. log' = log \/ \E o \in Outcome : log' = [log EXCEPT ![s] = Append(log[s], o)]
      BY <1>6
  <2> QED BY <1>4, <2>1, <2>2
<1>10. exit' \in [Scripts -> {"none", "ok", "failed", "killed"}]
    BY <1>6 DEF TypeInv, TypeOK
<1>11. TypeOK'
    BY <1>1, <1>5, <1>7, <1>8, <1>9, <1>10 DEF TypeInv, TypeOK, Places, Outcome
<1>12. PartInv'
  <2>3. \A t \in Scripts : pc'[t] = "idle" => part'[t] = 1
      BY <1>1, <1>6 DEF TypeInv, TypeOK, PartInv
  <2> SUFFICES ASSUME NEW t \in Scripts, Running(t)'
               PROVE  part'[t] \in DOMAIN Parts(Cmd(t))
      BY <1>2, <2>3 DEF PartInv
  <2>1. CASE t = s
    <3>1. part[s] \in DOMAIN Parts(Cmd(s))
        BY <1>1 DEF TypeInv, PartInv
    <3>2. part'[s] = part[s] \/ part'[s] = 1
          \/ (part'[s] = part[s] + 1 /\ part[s] < Len(Parts(Cmd(s))))
        BY <1>6 DEF TypeInv, TypeOK
    <3> QED BY <1>3, <2>1, <3>1, <3>2
  <2>2. CASE t # s
    <3>1. part'[t] = part[t] /\ pc'[t] = pc[t]
        BY <1>6, <2>2 DEF TypeInv, TypeOK
    <3> QED BY <3>1 DEF TypeInv, PartInv, Running
  <2> QED BY <2>1, <2>2
<1> QED BY <1>11, <1>12 DEF TypeInv

LEMMA InvokeTypes ==
    ASSUME TypeInv, NEW s \in Scripts, Invoke(s)  PROVE TypeInv'
<1>1. PICK c \in Commands[s] : cmd' = [cmd EXCEPT ![s] = {c}]
    BY DEF Invoke
<1>2. /\ pc[s] = "idle" /\ pc' = [pc EXCEPT ![s] = "check"]
      /\ UNCHANGED <<part, log, exit, dir>>
    BY DEF Invoke
<1>3. TypeOK'
    BY <1>1, <1>2 DEF TypeInv, TypeOK
<1>4. 1 \in DOMAIN Parts(Cmd(s)')
  <2>1. cmd'[s] = {c}
      BY <1>1 DEF TypeInv, TypeOK
  <2>2. Cmd(s)' = c
      BY <2>1 DEF Cmd
  <2>3. PICK n \in 1..3 : DOMAIN Parts(c) = 1..n
      BY PartsOfMode, SchedulerAssumption
  <2> QED BY <2>2, <2>3
<1>5. \A t \in Scripts \ {s} : pc'[t] = pc[t] /\ Cmd(t)' = Cmd(t)
  <2>1. \A t \in Scripts \ {s} : pc'[t] = pc[t] /\ cmd'[t] = cmd[t]
      BY <1>1, <1>2 DEF TypeInv, TypeOK
  <2> QED BY <2>1 DEF Cmd
<1>6. pc'[s] = "check" /\ part'[s] = 1
    BY <1>2 DEF TypeInv, TypeOK, PartInv
<1>7. ASSUME NEW t \in Scripts, Running(t)'  PROVE part'[t] \in DOMAIN Parts(Cmd(t)')
  <2>1. CASE t = s
      BY <1>4, <1>6, <2>1
  <2>2. CASE t # s
    <3>1. Running(t) /\ part'[t] = part[t]
        BY <1>2, <1>5, <1>7, <2>2 DEF Running
    <3> QED BY <1>5, <2>2, <3>1 DEF TypeInv, PartInv
  <2> QED BY <2>1, <2>2
<1>8. \A t \in Scripts : pc'[t] = "idle" => part'[t] = 1
    BY <1>2, <1>5, <1>6 DEF TypeInv, PartInv
<1>9. PartInv'
    BY <1>7, <1>8 DEF PartInv, Parts
<1> QED BY <1>3, <1>9 DEF TypeInv

\* A directory that is removed or emptied, and no step at all.
LEMMA RemovalTypes ==
    ASSUME TypeInv, UNCHANGED vars \/ \E id \in RunIds : Purge(id) \/ Remove(id)
    PROVE  TypeInv'
<1>1. UNCHANGED <<pc, cmd, part, log, exit>>
    BY DEF vars, Purge, Remove
<1>2. dir' \in [RunIds -> [exists : BOOLEAN, listed : BOOLEAN, progress : 0..4,
                           users : SUBSET Scripts]]
  <2>1. CASE UNCHANGED vars
      BY <2>1 DEF TypeInv, TypeOK, vars
  <2>2. ASSUME NEW id \in RunIds, Purge(id) \/ Remove(id)
        PROVE  \E left \in [exists : BOOLEAN, listed : BOOLEAN, progress : 0..4,
                            users : SUBSET Scripts] : dir' = [dir EXCEPT ![id] = left]
    <3> DEFINE Dirs == [exists : BOOLEAN, listed : BOOLEAN, progress : 0..4,
                        users : SUBSET Scripts]
               Emptied == [exists |-> TRUE, listed |-> FALSE, progress |-> 0,
                           users |-> dir[id].users]
    <3>1. dir[id].users \in SUBSET Scripts
        BY DEF TypeInv, TypeOK
    <3>2. NoDir \in Dirs /\ Emptied \in Dirs
        BY <3>1 DEF NoDir
    <3>3. \E left \in {NoDir, Emptied} : dir' = [dir EXCEPT ![id] = left]
        BY <2>2 DEF Purge, Remove
    <3> HIDE DEF Dirs, Emptied
    <3>4. \E left \in Dirs : dir' = [dir EXCEPT ![id] = left]
        BY <3>2, <3>3
    <3> QED BY <3>4 DEF Dirs
  <2> QED BY <2>1, <2>2 DEF TypeInv, TypeOK
<1>3. \A t \in Scripts : Cmd(t)' = Cmd(t)
    BY <1>1 DEF Cmd
<1>4. TypeOK'
    BY <1>1, <1>2 DEF TypeInv, TypeOK
<1>5. PartInv'
    BY <1>1, <1>3 DEF TypeInv, PartInv, Running, Parts
<1> QED BY <1>4, <1>5 DEF TypeInv

-----------------------------------------------------------------------------
(* The results about RunScheduler.                                         *)

THEOREM SchedulerInvariant == Spec => []SchedInv
<1>1. SchedInv /\ [Next]_vars => SchedInv'
  <2> SUFFICES ASSUME SchedInv, [Next]_vars  PROVE SchedInv'
      OBVIOUS
  <2>1. CASE UNCHANGED vars
    <3>1. \A t \in Scripts : Cmd(t)' = Cmd(t)
        BY <2>1 DEF vars, Cmd
    <3>2. ExitInv'
        BY <2>1, <3>1, LogStays DEF SchedInv, vars
    <3>3. UsersInv' /\ ServiceInv'
        BY <2>1, ApartStays DEF SchedInv, ShapeInv, UsersInv, vars
    <3> QED BY <2>1, <3>2, <3>3 DEF SchedInv, ShapeInv, vars
  <2>2. ASSUME NEW s \in Scripts, Invoke(s) \/ Script(s) \/ Stop(s)  PROVE SchedInv'
      BY <2>2, InvokeSched, SkipSched, PassSched, StartSched, FailsSched, WorksSched, StopSched
         DEF Script
  <2>3. ASSUME NEW id \in RunIds, Purge(id) \/ Remove(id)  PROVE SchedInv'
      BY <2>3, RemovalSched
  <2> QED BY <2>1, <2>2, <2>3 DEF Next
<1> QED BY <1>1, InitSched, PTL DEF Spec

\* Every variable keeps its type: no stage takes a directory further than
\* uploaded, and no script is at a container that its mode does not have.
THEOREM TypesAreRight == Spec => []TypeInv
<1>1. Init => TypeInv
    BY DEF Init, TypeInv, TypeOK, PartInv, Running, NoDir
<1>2. TypeInv /\ [Next]_vars => TypeInv'
    BY InvokeTypes, ScriptTypes, RemovalTypes DEF Next
<1> QED BY <1>1, <1>2, PTL DEF Spec

\* The exit status of every script is true of all its containers.
THEOREM ExitStatusIsTrue == Spec => []ExitTellsFailure
<1>1. SchedInv => ExitTellsFailure
    BY DEF SchedInv, ExitInv
<1> QED BY <1>1, SchedulerInvariant, PTL

\* No daily run works in what another daily run has left.
THEOREM ServiceRunsAreApart == Spec => []OneServiceRunPerDirectory
<1>1. SchedInv => OneServiceRunPerDirectory
    BY DEF SchedInv, ServiceInv
<1> QED BY <1>1, SchedulerInvariant, PTL

-----------------------------------------------------------------------------
(* The inductive invariant of RunDirectory.                                *)

ManifestState == {"missing", "torn", "whole"}
StageNames == {"fetch", "convert", "match", "upload", "read", "off"}

DirTypes ==
    /\ inv \in 0..MaxInvocations /\ dry \in BOOLEAN
    /\ stage \in StageNames /\ result \in {"none", "ok", "failed"}
    /\ raw \in [Names -> RawState] /\ sent \subseteq Records
    /\ wav \in [Records -> WavState] /\ remote \in [Records -> WavState]
    /\ json \in [Records -> [state : ManifestState, found : BOOLEAN, probed : BOOLEAN]]
    /\ fetch \in Seq(Names)
    /\ DOMAIN convert \subseteq DOMAIN fetch
    /\ convert \in [DOMAIN convert ->
                       [rec : Records, status : ConvertStatus, probe : BOOLEAN]]
    /\ match.state \in {"missing", "whole"}
    /\ DOMAIN outcome \subseteq Records /\ outcome \in [DOMAIN outcome -> UploadStatus]
    /\ upload.state \in ManifestState

\* A recording has a json only after its wav, and there are finitely many.
FilesInv == IsFiniteSet(Wavs) /\ Matched \subseteq Wavs

\* What an invocation has not come to yet is as Begin has left it.
EarlyInv ==
    /\ stage \in {"fetch", "convert"} => convert = <<>>
    /\ stage \in {"fetch", "convert", "match"} => match = NoMatch
    /\ stage \in {"fetch", "convert", "match", "upload"} => outcome = <<>>
    /\ result = "ok" => stage = "off"

\* What a wav w can be if ffprobe has accepted it, by the status of its item and
\* by the raw file of its job.
Probed(w, status, file) ==
    /\ w \in {"short", "whole"}
    /\ w = "short" => status = "skip_exists" \/ file = "short"

\* From its stage to the end of the invocation convert.json has one item for
\* each file, and what it says of a wav is true.
ConvertInv ==
    stage \in {"match", "upload", "read"} \/ result = "ok" =>
        /\ DOMAIN convert = Jobs
        /\ \A i \in Jobs :
              /\ convert[i].rec = Rec(i)
              /\ convert[i].status \in {"ok", "skip_exists"} => Rec(i) \in Wavs
              /\ convert[i].probe => \/ Contended(Rec(i))
                                     \/ Probed(wav[Rec(i)], convert[i].status, raw[fetch[i]])

\* A real run has looked up every wav and has written its json anew, with the
\* flag of this convert.json; a dry run lists none.
MatchInv ==
    stage \in {"upload", "read"} \/ result = "ok" =>
        /\ match.state = "whole" =>
              IF dry THEN match.found = <<>> ELSE match.found \in [Wavs -> BOOLEAN]
        /\ ~dry => \A r \in Wavs :
              json[r].state = "whole" /\ json[r].probed = ProbeFlag(r)

\* upload.json, of whichever invocation, counts what has become of some of the
\* jsons, at least one, and what it counts as sent has been sent.
UploadInv ==
    upload.state = "whole" =>
        \E listed \in SUBSET Matched : \E f \in [listed -> UploadStatus] :
            /\ listed # {} /\ upload.counts = UploadCounts(f)
            /\ \A r \in listed : f[r] = "sent" => r \in sent

\* What pipeline.json says is what the manifests say.
SummaryInv ==
    result = "ok" =>
        /\ summary.warned = Warnings
        /\ summary.fetch_total = Len(fetch)
        /\ summary.convert_ok = Converted("ok")
        /\ summary.convert_skip_exists = Converted("skip_exists")
        /\ summary.match_total = LookedUp(TRUE) + LookedUp(FALSE)
        /\ summary.upload_total = UploadCount("total")
        /\ summary.upload_sent_ok = UploadCount("sent")

DirectoryInv ==
    /\ DirTypes /\ FilesInv /\ EarlyInv /\ ConvertInv /\ MatchInv
    /\ UploadInv /\ SentIsProbed /\ SummaryInv

LEMMA InitDirectory == DirInit => DirectoryInv
<1> SUFFICES ASSUME DirInit  PROVE DirectoryInv
    OBVIOUS
<1>1. Wavs = {} /\ Matched = {} /\ fetch = <<>> /\ convert = <<>> /\ outcome = <<>>
    BY DEF DirInit, Wavs, Matched
<1>2. DirTypes
    <2>1. convert \in [DOMAIN convert ->
                          [rec : Records, status : ConvertStatus, probe : BOOLEAN]]
        BY <1>1
    <2>2. outcome \in [DOMAIN outcome -> UploadStatus]
        BY <1>1
    <2>3. /\ inv \in 0..MaxInvocations /\ fetch \in Seq(Names)
          /\ DOMAIN convert \subseteq DOMAIN fetch /\ DOMAIN outcome \subseteq Records
        BY <1>1, RunDirectoryAssumption DEF DirInit
    <2>4. /\ wav \in [Records -> WavState] /\ remote \in [Records -> WavState]
          /\ json \in [Records -> [state : ManifestState, found : BOOLEAN, probed : BOOLEAN]]
          /\ raw \in [Names -> RawState]
        BY DEF DirInit, RawState, WavState, ManifestState
    <2> QED BY <2>1, <2>2, <2>3, <2>4
            DEF DirInit, DirTypes, ManifestState, StageNames, NoMatch
<1>3. FilesInv
    BY <1>1, FS_EmptySet DEF FilesInv
<1>4. EarlyInv /\ ConvertInv /\ MatchInv /\ UploadInv /\ SentIsProbed /\ SummaryInv
    BY <1>1 DEF DirInit, EarlyInv, ConvertInv, MatchInv, UploadInv, SentIsProbed, SummaryInv
<1> QED BY <1>2, <1>3, <1>4 DEF DirectoryInv

\* A new invocation keeps the files and forgets the manifests.
LEMMA BeginDirectory ==
    ASSUME DirectoryInv, Begin
    PROVE  DirectoryInv'
<1>1. /\ inv \in Nat /\ inv' = inv + 1 /\ inv' \in 0..MaxInvocations
      /\ dry' \in BOOLEAN /\ stage' = "fetch" /\ result' = "none"
      /\ fetch' = <<>> /\ convert' = <<>> /\ match' = NoMatch /\ outcome' = <<>>
      /\ UNCHANGED <<raw, wav, json, remote, sent, upload>>
    BY RunDirectoryAssumption DEF DirectoryInv, DirTypes, Begin, files
<1>2. DirTypes'
    <2>1. /\ convert' \in [DOMAIN convert' ->
                              [rec : Records, status : ConvertStatus, probe : BOOLEAN]]
          /\ outcome' \in [DOMAIN outcome' -> UploadStatus]
        BY <1>1
    <2> QED BY <1>1, <2>1
            DEF DirectoryInv, DirTypes, StageNames, ManifestState, NoMatch
<1>3. Wavs' = Wavs /\ Matched' = Matched
    BY <1>1 DEF Wavs, Matched
<1>4. FilesInv'
    BY <1>3 DEF DirectoryInv, FilesInv
<1>5. EarlyInv' /\ ConvertInv' /\ MatchInv' /\ SentIsProbed' /\ SummaryInv'
    BY <1>1 DEF EarlyInv, ConvertInv, MatchInv, SentIsProbed, SummaryInv
<1>6. UploadInv'
    BY <1>1, <1>3 DEF DirectoryInv, UploadInv, UploadCounts, CountOf
<1> QED BY <1>2, <1>4, <1>5, <1>6 DEF DirectoryInv

\* A step that ends the invocation without a report and touches no more than
\* jsons: it adds to them, and takes no manifest along.
LEMMA EndDirectory ==
    ASSUME DirectoryInv,
           stage' = "off", result' = "failed",
           UNCHANGED <<inv, dry, raw, wav, remote, sent, upload, manifests>>,
           \/ json' = json
           \/ /\ stage = "match"
              /\ json' \in [Records ->
                    [state : ManifestState, found : BOOLEAN, probed : BOOLEAN]]
              /\ Matched \subseteq Matched' /\ Matched' \subseteq Wavs
    PROVE  DirectoryInv'
<1>1. /\ dry' = dry /\ inv' = inv /\ raw' = raw /\ wav' = wav /\ remote' = remote
      /\ sent' = sent /\ upload' = upload /\ fetch' = fetch /\ convert' = convert
      /\ match' = match /\ outcome' = outcome
    BY DEF manifests
<1>2. DirTypes'
    BY <1>1 DEF DirectoryInv, DirTypes, StageNames
<1>3. Wavs' = Wavs /\ Jobs' = Jobs /\ Matched \subseteq Matched' /\ Matched' \subseteq Wavs
    BY <1>1 DEF DirectoryInv, FilesInv, Wavs, Jobs, Matched
<1>4. FilesInv'
    BY <1>3 DEF DirectoryInv, FilesInv
<1>5. EarlyInv' /\ ConvertInv' /\ MatchInv' /\ SummaryInv'
    BY DEF EarlyInv, ConvertInv, MatchInv, SummaryInv
<1>6. UploadInv'
    BY <1>1, <1>3 DEF DirectoryInv, UploadInv, UploadCounts, CountOf
<1>7. SentIsProbed'
    <2>1. CASE json' = json
        BY <1>1, <1>3, <2>1 DEF DirectoryInv, SentIsProbed, Contended, Rec
    <2>2. CASE stage = "match"
        BY <1>1, <2>2 DEF DirectoryInv, EarlyInv, SentIsProbed
    <2> QED BY <2>1, <2>2
<1> QED BY <1>2, <1>4, <1>5, <1>6, <1>7 DEF DirectoryInv

LEMMA FetchDirectory ==
    ASSUME DirectoryInv, FetchFiles
    PROVE  DirectoryInv'
<1>1. /\ stage' = "convert" /\ fetch' \in Listings
      /\ UNCHANGED <<inv, dry, wav, json, remote, sent, upload, convert, match, outcome>>
      /\ result' = result /\ result # "ok" /\ result' # "ok"
      /\ convert = <<>> /\ match = NoMatch /\ outcome = <<>> /\ outcome' = <<>>
    BY DEF FetchFiles, DirectoryInv, EarlyInv
<1>2. fetch' \in Seq(Names)
    BY <1>1, RunDirectoryAssumption
<1>3. raw' \in [Names -> RawState]
    BY DEF FetchFiles
<1>4. DirTypes'
    BY <1>1, <1>2, <1>3 DEF DirectoryInv, DirTypes, StageNames
<1>5. Wavs' = Wavs /\ Matched' = Matched
    BY <1>1 DEF Wavs, Matched
<1>6. FilesInv'
    BY <1>5 DEF DirectoryInv, FilesInv
<1>7. EarlyInv' /\ ConvertInv' /\ MatchInv' /\ SentIsProbed' /\ SummaryInv'
    <2>1. EarlyInv' /\ ConvertInv' /\ MatchInv'
        BY <1>1 DEF EarlyInv, ConvertInv, MatchInv
    <2>2. SummaryInv'
        BY <1>1 DEF SummaryInv
    <2>3. DOMAIN outcome' = {}
        BY <1>1
    <2>4. SentIsProbed'
        BY <2>3 DEF SentIsProbed
    <2> QED BY <2>1, <2>2, <2>4
<1>8. UploadInv'
    BY <1>1, <1>5 DEF DirectoryInv, UploadInv, UploadCounts, CountOf
<1> QED BY <1>4, <1>6, <1>7, <1>8 DEF DirectoryInv

-----------------------------------------------------------------------------
(* convert.                                                                *)

\* The places of fetch.json, hence of the jobs, are finitely many.
LEMMA PlacesFinite ==
    ASSUME DirTypes
    PROVE  /\ IsFiniteSet(DOMAIN fetch) /\ Cardinality(DOMAIN fetch) = Len(fetch)
           /\ IsFiniteSet(Jobs) /\ Jobs \subseteq DOMAIN fetch
           /\ \A i \in Jobs : Rec(i) \in Records
<1>1. fetch \in Seq(Names) /\ Len(fetch) \in Nat /\ DOMAIN fetch = 1..Len(fetch)
    BY DEF DirTypes
<1>2. IsFiniteSet(1..Len(fetch)) /\ Cardinality(1..Len(fetch)) = Len(fetch)
    BY <1>1, FS_Interval
<1>3. Jobs \subseteq DOMAIN fetch
    BY DEF Jobs
<1>4. \A i \in Jobs : Rec(i) \in Records
    BY <1>1, <1>3, RunDirectoryAssumption DEF Rec
<1> QED BY <1>1, <1>2, <1>3, <1>4, FS_Subset

\* The records of the jobs are finitely many.
LEMMA RecordsFinite ==
    ASSUME DirTypes
    PROVE  IsFiniteSet({Rec(i) : i \in Jobs})
<1> DEFINE S == {Rec(i) : i \in Jobs}
           f == [i \in Jobs |-> Rec(i)]
<1>1. f \in Surjection(Jobs, S)
    BY DEF Surjection
<1>2. IsFiniteSet(Jobs)
    BY PlacesFinite
<1> QED BY <1>1, <1>2, FS_Surjection

\* ConvertOne leaves a wav for what it calls converted or present, keeps the
\* wavs that are there, and probes only audio.
LEMMA ConvertOneTells ==
    ASSUME DirTypes, NEW i \in Jobs, NEW status, NEW probe, NEW after \in WavState,
           ConvertOne(i, status, probe, after)
    PROVE  /\ wav[Rec(i)] # "absent" => after = wav[Rec(i)]
           /\ status \in {"ok", "skip_exists"} => after # "absent"
           /\ probe => Contended(Rec(i)) \/ Probed(after, status, raw[fetch[i]])
<1>1. raw[fetch[i]] \in {"short", "whole"}
  <2>1. i \in DOMAIN fetch /\ fetch[i] \in Names /\ raw[fetch[i]] # "absent"
      BY DEF Jobs, DirTypes
  <2> QED BY <2>1 DEF DirTypes, RawState
<1> QED BY <1>1 DEF ConvertOne, Outputs, Probed, WavState

LEMMA ConvertDirectory ==
    ASSUME DirectoryInv, ConvertFiles
    PROVE  DirectoryInv'
<1>1. /\ stage = "convert" /\ stage' = "match"
      /\ UNCHANGED <<inv, dry, raw, json, remote, sent, upload, fetch, match, outcome>>
      /\ result' = result /\ result # "ok" /\ result' # "ok"
      /\ match = NoMatch /\ outcome = <<>> /\ outcome' = <<>>
      /\ wav' \in [Records -> WavState]
    BY DEF ConvertFiles, DirectoryInv, EarlyInv
<1>2. /\ Jobs' = Jobs /\ Matched' = Matched
      /\ \A i \in Jobs : Rec(i)' = Rec(i)
      /\ \A r : Contended(r)' = Contended(r)
    BY <1>1 DEF Jobs, Matched, Rec, Contended
<1>3. /\ IsFiniteSet(Jobs) /\ Jobs \subseteq DOMAIN fetch
      /\ \A i \in Jobs : Rec(i) \in Records
    BY PlacesFinite DEF DirectoryInv
<1>4. PICK f \in [Jobs -> ConvertStatus \X BOOLEAN] :
          /\ \A i \in Jobs : ConvertOne(i, f[i][1], f[i][2], wav'[Rec(i)])
          /\ convert' = [i \in Jobs |->
                [rec |-> Rec(i), status |-> f[i][1], probe |-> f[i][2]]]
    BY DEF ConvertFiles
<1>5. \A r \in Records : (\A i \in Jobs : Rec(i) # r) => wav'[r] = wav[r]
    BY DEF ConvertFiles
<1>6. DirTypes'
    <2>1. /\ DOMAIN convert' = Jobs
          /\ convert' \in [Jobs -> [rec : Records, status : ConvertStatus, probe : BOOLEAN]]
        BY <1>3, <1>4
    <2> QED BY <1>1, <1>3, <2>1 DEF DirectoryInv, DirTypes, StageNames
<1>7. \A r \in Records : wav[r] # "absent" => wav'[r] = wav[r]
  <2>1. \A i \in Jobs : wav[Rec(i)] # "absent" => wav'[Rec(i)] = wav[Rec(i)]
      BY <1>1, <1>3, <1>4, ConvertOneTells DEF DirectoryInv
  <2> QED BY <1>5, <2>1
<1>8. FilesInv'
    <2>1. Wavs \subseteq Wavs'
        BY <1>7 DEF Wavs
    <2>2. Wavs' \subseteq Wavs \cup {Rec(i) : i \in Jobs}
        BY <1>5 DEF Wavs
    <2>3. IsFiniteSet(Wavs \cup {Rec(i) : i \in Jobs})
        BY RecordsFinite, FS_Union DEF DirectoryInv, FilesInv
    <2>4. IsFiniteSet(Wavs')
        BY <2>2, <2>3, FS_Subset
    <2> QED BY <1>2, <2>1, <2>4 DEF DirectoryInv, FilesInv
<1>9. ConvertInv'
    <2>1. ASSUME NEW i \in Jobs
          PROVE  /\ convert'[i].rec = Rec(i)
                 /\ convert'[i].status \in {"ok", "skip_exists"} => wav'[Rec(i)] # "absent"
                 /\ convert'[i].probe =>
                       \/ Contended(Rec(i))
                       \/ Probed(wav'[Rec(i)], convert'[i].status, raw[fetch[i]])
      <3>1. ConvertOne(i, f[i][1], f[i][2], wav'[Rec(i)]) /\ wav'[Rec(i)] \in WavState
          BY <1>1, <1>3, <1>4
      <3>2. /\ convert'[i].rec = Rec(i) /\ convert'[i].status = f[i][1]
            /\ convert'[i].probe = f[i][2]
          BY <1>4
      <3> QED BY <3>1, <3>2, ConvertOneTells DEF DirectoryInv
    <2>2. DOMAIN convert' = Jobs
        BY <1>4
    <2> QED BY <1>1, <1>2, <1>3, <2>1, <2>2 DEF ConvertInv, Wavs, Probed
<1>10. EarlyInv' /\ MatchInv' /\ SentIsProbed' /\ SummaryInv'
    <2>1. EarlyInv' /\ MatchInv'
        BY <1>1 DEF EarlyInv, MatchInv
    <2>2. SummaryInv'
        BY <1>1 DEF SummaryInv
    <2>3. DOMAIN outcome' = {}
        BY <1>1
    <2>4. SentIsProbed'
        BY <2>3 DEF SentIsProbed
    <2> QED BY <2>1, <2>2, <2>4
<1>11. UploadInv'
    BY <1>1, <1>2 DEF DirectoryInv, UploadInv, UploadCounts, CountOf
<1> QED BY <1>6, <1>8, <1>9, <1>10, <1>11 DEF DirectoryInv

-----------------------------------------------------------------------------
(* match.                                                                  *)

\* Writing jsons of wavs: every one of done is there, none goes missing, and
\* there is none without a wav.
LEMMA JsonsAdded ==
    ASSUME DirectoryInv,
           NEW done \in SUBSET Wavs, NEW torn \in SUBSET Wavs,
           NEW found \in [Wavs -> BOOLEAN], json' = Jsons(done, torn, found)
    PROVE  /\ json' \in [Records ->
                 [state : ManifestState, found : BOOLEAN, probed : BOOLEAN]]
           /\ Matched \subseteq Matched' /\ Matched' \subseteq Wavs
           /\ \A r \in done : json'[r].state = "whole" /\ json'[r].probed = ProbeFlag(r)
<1>1. \A r : ProbeFlag(r) \in BOOLEAN
    BY DEF ProbeFlag
<1>2. /\ done \subseteq Records /\ torn \subseteq Records
      /\ \A r \in done : found[r] \in BOOLEAN
    BY DEF Wavs
<1>3. json \in [Records -> [state : ManifestState, found : BOOLEAN, probed : BOOLEAN]]
    BY DEF DirectoryInv, DirTypes
<1>4. json' \in [Records -> [state : ManifestState, found : BOOLEAN, probed : BOOLEAN]]
    BY <1>1, <1>2, <1>3 DEF Jsons, ManifestState
<1>5. \A r \in Records :
          json'[r] = IF r \in done
                     THEN [state |-> "whole", found |-> found[r], probed |-> ProbeFlag(r)]
                     ELSE IF r \in torn
                     THEN [state |-> "torn", found |-> FALSE, probed |-> FALSE]
                     ELSE json[r]
    BY DEF Jsons
<1>6. \A r \in Records :
          json'[r].state = IF r \in done THEN "whole"
                           ELSE IF r \in torn THEN "torn" ELSE json[r].state
    <2> SUFFICES ASSUME NEW r \in Records
                 PROVE  json'[r].state = IF r \in done THEN "whole"
                                         ELSE IF r \in torn THEN "torn" ELSE json[r].state
        OBVIOUS
    <2>1. CASE r \in done
        <3>1. json'[r] = [state |-> "whole", found |-> found[r], probed |-> ProbeFlag(r)]
            BY <1>5, <2>1
        <3> QED BY <2>1, <3>1
    <2>2. CASE r \notin done /\ r \in torn
        <3>1. json'[r] = [state |-> "torn", found |-> FALSE, probed |-> FALSE]
            BY <1>5, <2>2
        <3> QED BY <2>2, <3>1
    <2>3. CASE r \notin done /\ r \notin torn
        BY <1>5, <2>3
    <2> QED BY <2>1, <2>2, <2>3
<1>11. Matched \subseteq Matched'
    BY <1>6 DEF Matched
<1>7. Matched' \subseteq Matched \cup done \cup torn
    BY <1>6 DEF Matched
<1>8. Matched' \subseteq Wavs
    BY <1>7 DEF DirectoryInv, FilesInv
<1>9. \A r \in done : json'[r].state = "whole" /\ json'[r].probed = ProbeFlag(r)
    <2> SUFFICES ASSUME NEW r \in done
                 PROVE  json'[r].state = "whole" /\ json'[r].probed = ProbeFlag(r)
        OBVIOUS
    <2>1. json'[r] = [state |-> "whole", found |-> found[r], probed |-> ProbeFlag(r)]
        BY <1>2, <1>5
    <2> QED BY <2>1
<1> QED BY <1>4, <1>11, <1>8, <1>9

LEMMA MatchDirectory ==
    ASSUME DirectoryInv, MatchFiles
    PROVE  DirectoryInv'
<1>1. /\ stage = "match" /\ stage' = "upload"
      /\ UNCHANGED <<inv, dry, raw, wav, remote, sent, upload, fetch, convert, outcome>>
      /\ result' = result /\ result # "ok" /\ result' # "ok"
      /\ match = NoMatch /\ outcome = <<>> /\ outcome' = <<>>
    BY DEF MatchFiles, DirectoryInv, EarlyInv
<1>2. /\ Wavs' = Wavs /\ Jobs' = Jobs
      /\ \A i \in Jobs : Rec(i)' = Rec(i)
      /\ \A r : Contended(r)' = Contended(r) /\ ProbeFlag(r)' = ProbeFlag(r)
    BY <1>1 DEF Wavs, Jobs, Rec, Contended, ProbeFlag
<1>3. /\ json' \in [Records -> [state : ManifestState, found : BOOLEAN, probed : BOOLEAN]]
      /\ match'.state \in {"missing", "whole"}
      /\ Matched \subseteq Matched' /\ Matched' \subseteq Wavs
      /\ MatchInv'
    <2>1. CASE Wavs = {} /\ UNCHANGED <<json, match>>
        BY <1>1, <1>2, <2>1
           DEF DirectoryInv, DirTypes, FilesInv, MatchInv, Matched, NoMatch
    <2>2. CASE dry /\ match' = [state |-> "whole", found |-> <<>>] /\ UNCHANGED json
        BY <1>1, <1>2, <2>2
           DEF DirectoryInv, DirTypes, FilesInv, MatchInv, Matched, ManifestState
    <2>3. ASSUME ~dry, NEW found \in [Wavs -> BOOLEAN],
                 json' = Jsons(Wavs, {}, found),
                 match' = [state |-> "whole", found |-> found]
          PROVE  /\ json' \in [Records ->
                       [state : ManifestState, found : BOOLEAN, probed : BOOLEAN]]
                 /\ match'.state \in {"missing", "whole"}
                 /\ Matched \subseteq Matched' /\ Matched' \subseteq Wavs
                 /\ MatchInv'
        <3>1. /\ json' \in [Records ->
                       [state : ManifestState, found : BOOLEAN, probed : BOOLEAN]]
              /\ Matched \subseteq Matched' /\ Matched' \subseteq Wavs
              /\ \A r \in Wavs : json'[r].state = "whole" /\ json'[r].probed = ProbeFlag(r)
            BY <2>3, JsonsAdded
        <3> QED BY <1>1, <1>2, <2>3, <3>1 DEF MatchInv, ManifestState
    <2> QED BY <2>1, <2>2, <2>3 DEF MatchFiles
<1>4. DirTypes'
    BY <1>1, <1>3 DEF DirectoryInv, DirTypes, StageNames
<1>5. FilesInv'
    BY <1>2, <1>3 DEF DirectoryInv, FilesInv
<1>6. EarlyInv' /\ SentIsProbed' /\ SummaryInv'
    <2>1. EarlyInv'
        BY <1>1 DEF EarlyInv
    <2>2. SummaryInv'
        BY <1>1 DEF SummaryInv
    <2>3. DOMAIN outcome' = {}
        BY <1>1
    <2>4. SentIsProbed'
        BY <2>3 DEF SentIsProbed
    <2> QED BY <2>1, <2>2, <2>4
<1>7. ConvertInv'
    BY <1>1, <1>2 DEF DirectoryInv, ConvertInv
<1>8. UploadInv'
    BY <1>1, <1>3 DEF DirectoryInv, UploadInv, UploadCounts, CountOf
<1> QED BY <1>3, <1>4, <1>5, <1>6, <1>7, <1>8 DEF DirectoryInv

LEMMA BreakDirectory ==
    ASSUME DirectoryInv, BreakOff \/ MatchBreaks
    PROVE  DirectoryInv'
<1>1. CASE BreakOff
    BY <1>1, EndDirectory DEF BreakOff, files
<1>2. CASE MatchBreaks
    <2>1. PICK found \in [Wavs -> BOOLEAN], done \in SUBSET Wavs :
              \E torn \in {{}} \cup {{r} : r \in Wavs \ done} : json' = Jsons(done, torn, found)
        BY <1>2 DEF MatchBreaks
    <2>2. PICK torn \in SUBSET Wavs : json' = Jsons(done, torn, found)
        BY <2>1
    <2>3. /\ json' \in [Records -> [state : ManifestState, found : BOOLEAN, probed : BOOLEAN]]
          /\ Matched \subseteq Matched' /\ Matched' \subseteq Wavs
        BY <2>2, JsonsAdded
    <2> QED BY <1>2, <2>3, EndDirectory DEF MatchBreaks
<1> QED BY <1>1, <1>2

-----------------------------------------------------------------------------
(* upload and the report.                                                  *)

\* What is called sent has been found and probed, and the probe is of the wav
\* that is sent.
LEMMA SentIsSound ==
    ASSUME DirectoryInv, stage = "upload", NEW r \in Matched,
           NEW after, UploadOne(r, "sent", after), ~Contended(r)
    PROVE  /\ json[r].found
           /\ \E i \in DOMAIN convert :
                 /\ convert[i].rec = r
                 /\ Probed(after, convert[i].status, raw[fetch[i]])
<1>1. json[r].found /\ json[r].probed /\ ~dry /\ after = wav[r]
    BY DEF UploadOne, Refused
<1>2. r \in Wavs
    BY DEF DirectoryInv, FilesInv
<1>3. ProbeFlag(r)
    BY <1>1, <1>2 DEF DirectoryInv, MatchInv
<1>4. PICK i \in DOMAIN convert : convert[i].rec = r /\ convert[i].probe
    BY <1>3 DEF ProbeFlag
<1>5. i \in Jobs /\ Rec(i) = r
    BY <1>4 DEF DirectoryInv, ConvertInv
<1>6. Probed(wav[r], convert[i].status, raw[fetch[i]])
    BY <1>4, <1>5 DEF DirectoryInv, ConvertInv
<1> QED BY <1>1, <1>4, <1>6

LEMMA UploadDirectory ==
    ASSUME DirectoryInv, UploadFiles
    PROVE  DirectoryInv'
<1>1. /\ stage = "upload" /\ stage' = "read"
      /\ UNCHANGED <<inv, dry, raw, wav, json, fetch, convert, match>>
      /\ result' = result /\ result # "ok" /\ outcome = <<>>
    BY DEF UploadFiles, DirectoryInv, EarlyInv
<1>2. /\ Wavs' = Wavs /\ Jobs' = Jobs /\ Matched' = Matched
      /\ \A i \in Jobs : Rec(i)' = Rec(i)
      /\ \A r : Contended(r)' = Contended(r) /\ ProbeFlag(r)' = ProbeFlag(r)
    BY <1>1 DEF Wavs, Jobs, Matched, Rec, Contended, ProbeFlag
<1>3. /\ FilesInv' /\ EarlyInv' /\ SummaryInv'
    BY <1>1, <1>2 DEF DirectoryInv, FilesInv, EarlyInv, SummaryInv
<1>4. ConvertInv'
    BY <1>1, <1>2 DEF DirectoryInv, ConvertInv
<1>5. MatchInv'
    BY <1>1, <1>2 DEF DirectoryInv, MatchInv
<1>6. /\ remote' \in [Records -> WavState] /\ sent' \subseteq Records
      /\ DOMAIN outcome' \subseteq Records /\ outcome' \in [DOMAIN outcome' -> UploadStatus]
      /\ upload'.state \in ManifestState
      /\ UploadInv' /\ SentIsProbed'
    <2>1. CASE UNCHANGED <<remote, sent, upload, outcome>>
        <3>1. UploadInv'
            BY <1>1, <1>2, <2>1 DEF DirectoryInv, UploadInv, UploadCounts, CountOf
        <3> QED BY <1>1, <2>1, <3>1 DEF DirectoryInv, DirTypes, SentIsProbed
    <2>2. ASSUME Matched # {},
                 outcome' \in [Matched -> UploadStatus],
                 remote' \in [Records -> WavState],
                 \A r \in Records :
                    IF r \in Matched THEN UploadOne(r, outcome'[r], remote'[r])
                    ELSE remote'[r] = remote[r],
                 sent' = sent \cup {r \in Matched : outcome'[r] = "sent"},
                 WriteUpload
          PROVE  /\ remote' \in [Records -> WavState] /\ sent' \subseteq Records
                 /\ DOMAIN outcome' \subseteq Records
                 /\ outcome' \in [DOMAIN outcome' -> UploadStatus]
                 /\ upload'.state \in ManifestState
                 /\ UploadInv' /\ SentIsProbed'
        <3>1. Matched \subseteq Records /\ DOMAIN outcome' = Matched
            BY <2>2 DEF Matched
        <3>2. sent' \subseteq Records /\ sent \subseteq sent'
            BY <2>2, <3>1 DEF DirectoryInv, DirTypes
        <3>3. SentIsProbed'
            <4> SUFFICES ASSUME NEW r \in Matched, outcome'[r] = "sent", ~Contended(r)
                         PROVE  /\ json[r].found
                                /\ \E i \in DOMAIN convert :
                                      /\ convert[i].rec = r
                                      /\ Probed(remote'[r], convert[i].status, raw[fetch[i]])
                BY <1>1, <1>2, <3>1 DEF SentIsProbed, Probed
            <4>1. UploadOne(r, "sent", remote'[r])
                BY <2>2, <3>1
            <4> QED BY <1>1, <4>1, SentIsSound
        <3>4. upload'.state \in ManifestState /\ UploadInv'
            <4>1. CASE upload' = [state |-> "whole", counts |-> UploadCounts(outcome')]
                <5>1. /\ Matched # {} /\ upload'.counts = UploadCounts(outcome')
                      /\ \A r \in Matched : outcome'[r] = "sent" => r \in sent'
                    BY <2>2, <4>1
                <5> QED BY <1>2, <2>2, <4>1, <5>1
                        DEF UploadInv, ManifestState, UploadCounts, CountOf
            <4>2. CASE upload' = [upload EXCEPT !.state = "torn"]
                <5>1. upload'.state \in {"torn", upload.state}
                    BY <4>2
                <5>2. CASE upload'.state = "torn"
                    BY <5>2 DEF UploadInv, ManifestState
                <5>3. CASE upload'.state = upload.state /\ upload.state # "torn"
                    BY <4>2, <5>3
                <5> QED BY <5>1, <5>2, <5>3
            <4>3. CASE upload' = upload
                BY <1>2, <3>2, <4>3 DEF DirectoryInv, DirTypes, UploadInv, UploadCounts, CountOf
            <4> QED BY <2>2, <4>1, <4>2, <4>3 DEF WriteUpload
        <3> QED BY <2>2, <3>1, <3>2, <3>3, <3>4
    <2> QED BY <2>1, <2>2 DEF UploadFiles
<1>7. DirTypes'
    BY <1>1, <1>6 DEF DirectoryInv, DirTypes, StageNames
<1> QED BY <1>3, <1>4, <1>5, <1>6, <1>7 DEF DirectoryInv

LEMMA ReportDirectory ==
    ASSUME DirectoryInv, Report
    PROVE  DirectoryInv'
<1>1. /\ stage = "read" /\ stage' = "off" /\ result' = "ok"
      /\ UNCHANGED <<inv, dry, files, manifests>>
    BY DEF Report
<1>2. /\ Wavs' = Wavs /\ Jobs' = Jobs /\ Matched' = Matched
      /\ \A i \in Jobs : Rec(i)' = Rec(i)
      /\ \A r : Contended(r)' = Contended(r) /\ ProbeFlag(r)' = ProbeFlag(r)
    BY <1>1 DEF files, manifests, Wavs, Jobs, Matched, Rec, Contended, ProbeFlag
<1>3. DirTypes'
    BY <1>1 DEF DirectoryInv, DirTypes, StageNames, files, manifests
<1>4. FilesInv' /\ EarlyInv'
    BY <1>1, <1>2 DEF DirectoryInv, FilesInv, EarlyInv
<1>5. ConvertInv'
    BY <1>1, <1>2 DEF DirectoryInv, ConvertInv, files, manifests
<1>6. MatchInv'
    BY <1>1, <1>2 DEF DirectoryInv, MatchInv, files, manifests
<1>7. UploadInv'
    BY <1>1, <1>2 DEF DirectoryInv, UploadInv, files, UploadCounts, CountOf
<1>8. SentIsProbed'
    BY <1>1, <1>2 DEF DirectoryInv, SentIsProbed, files, manifests
<1>9. SummaryInv'
    BY DEF Report, SummaryInv, files, manifests, Warnings, Converted, LookedUp,
                UploadCount
<1> QED BY <1>3, <1>4, <1>5, <1>6, <1>7, <1>8, <1>9 DEF DirectoryInv

LEMMA StutterDirectory ==
    ASSUME DirectoryInv, UNCHANGED dirVars
    PROVE  DirectoryInv'
<1>1. UNCHANGED <<inv, dry, stage, result, summary, files, manifests>>
    BY DEF dirVars
<1>2. /\ Wavs' = Wavs /\ Jobs' = Jobs /\ Matched' = Matched
      /\ \A i \in Jobs : Rec(i)' = Rec(i)
      /\ \A r : Contended(r)' = Contended(r) /\ ProbeFlag(r)' = ProbeFlag(r)
    BY <1>1 DEF files, manifests, Wavs, Jobs, Matched, Rec, Contended, ProbeFlag
<1>3. DirTypes'
    BY <1>1 DEF DirectoryInv, DirTypes, files, manifests
<1>4. FilesInv' /\ EarlyInv'
    BY <1>1, <1>2 DEF DirectoryInv, FilesInv, EarlyInv, manifests
<1>5. ConvertInv'
    BY <1>1, <1>2 DEF DirectoryInv, ConvertInv, files, manifests
<1>6. MatchInv'
    BY <1>1, <1>2 DEF DirectoryInv, MatchInv, files, manifests
<1>7. UploadInv'
    BY <1>1, <1>2 DEF DirectoryInv, UploadInv, files, UploadCounts, CountOf
<1>8. SentIsProbed'
    BY <1>1, <1>2 DEF DirectoryInv, SentIsProbed, files, manifests
<1>9. SummaryInv'
    BY <1>1 DEF DirectoryInv, SummaryInv, files, manifests, Warnings, Converted, LookedUp,
                UploadCount
<1> QED BY <1>3, <1>4, <1>5, <1>6, <1>7, <1>8, <1>9 DEF DirectoryInv

-----------------------------------------------------------------------------
(* The counts.                                                             *)

\* Two parts of a set without common elements: their counts add up, and when
\* they add up to the whole, every element is in one of them.
LEMMA TwoParts ==
    ASSUME NEW S, IsFiniteSet(S), NEW A \in SUBSET S, NEW B \in SUBSET S, A \cap B = {}
    PROVE  /\ Cardinality(A) + Cardinality(B) = Cardinality(A \cup B)
           /\ Cardinality(A) + Cardinality(B) = Cardinality(S) => A \cup B = S
<1>1. IsFiniteSet(A) /\ IsFiniteSet(B)
    BY FS_Subset
<1>2. Cardinality(A) \in Nat /\ Cardinality(B) \in Nat /\ Cardinality(A \cap B) = 0
    BY <1>1, FS_CardinalityType, FS_EmptySet
<1>3. Cardinality(A \cup B) = Cardinality(A) + Cardinality(B) - Cardinality(A \cap B)
    BY <1>1, FS_Union
<1>4. Cardinality(A) + Cardinality(B) = Cardinality(A \cup B)
    BY <1>2, <1>3
<1>5. A \cup B \in SUBSET S
    OBVIOUS
<1>6. Cardinality(S) = Cardinality(A \cup B) => S = A \cup B
    BY <1>5, FS_Subset
<1> QED BY <1>4, <1>6

\* If every listed place is converted or present, each has a wav.
LEMMA AllConverted ==
    ASSUME DirectoryInv, result = "ok",
           Len(fetch) = Converted("ok") + Converted("skip_exists")
    PROVE  \A i \in DOMAIN fetch : RecordOf[fetch[i]] \in Wavs
<1> DEFINE S == DOMAIN fetch
           A == {i \in DOMAIN convert : convert[i].status = "ok"}
           B == {i \in DOMAIN convert : convert[i].status = "skip_exists"}
<1>1. /\ DOMAIN convert = Jobs /\ Jobs \subseteq S
      /\ IsFiniteSet(S) /\ Cardinality(S) = Len(fetch)
    BY PlacesFinite DEF DirectoryInv, ConvertInv
<1>2. Cardinality(A) + Cardinality(B) = Cardinality(S)
    BY <1>1 DEF Converted
<1>3. A \cup B = S
    <2>1. A \in SUBSET S /\ B \in SUBSET S /\ A \cap B = {}
        BY <1>1
    <2> HIDE DEF S, A, B
    <2> QED BY <1>1, <1>2, <2>1, TwoParts
<1>4. ASSUME NEW i \in DOMAIN fetch  PROVE Rec(i) \in Wavs
    BY <1>1, <1>3 DEF DirectoryInv, ConvertInv
<1> QED BY <1>4 DEF Rec

\* If match lists as many as upload has, and upload has sent all of them, the
\* jsons that upload lists are those of all wavs.
LEMMA AllUploaded ==
    ASSUME DirectoryInv, result = "ok",
           match.state = "whole", upload.state = "whole",
           LookedUp(TRUE) + LookedUp(FALSE) = upload.counts["total"],
           upload.counts["total"] = upload.counts["sent"]
    PROVE  Wavs \subseteq sent
<1>0. PICK listed \in SUBSET Matched : \E f \in [listed -> UploadStatus] :
          /\ listed # {} /\ upload.counts = UploadCounts(f)
          /\ \A r \in listed : f[r] = "sent" => r \in sent
    BY DEF DirectoryInv, UploadInv
<1>1. PICK f \in [listed -> UploadStatus] :
          /\ listed # {} /\ upload.counts = UploadCounts(f)
          /\ \A r \in listed : f[r] = "sent" => r \in sent
    BY <1>0
<1>2. listed \subseteq Wavs /\ IsFiniteSet(listed) /\ IsFiniteSet(Wavs)
    BY FS_Subset DEF DirectoryInv, FilesInv
<1>3. /\ upload.counts["total"] = Cardinality(listed)
      /\ upload.counts["sent"] = Cardinality({r \in listed : f[r] = "sent"})
    BY <1>1 DEF UploadCounts, CountOf, UploadStatus
<1>4. \A r \in listed : f[r] = "sent"
    <2>1. {r \in listed : f[r] = "sent"} = listed
        BY <1>2, <1>3, FS_Subset
    <2> QED BY <2>1
<1>5. listed \subseteq sent
    BY <1>1, <1>4
<1>6. LookedUp(TRUE) + LookedUp(FALSE) = Cardinality(DOMAIN match.found)
    <2> DEFINE S == DOMAIN match.found
               A == {r \in S : match.found[r] = TRUE}
               B == {r \in S : match.found[r] = FALSE}
    <2>1. match.found = <<>> \/ match.found \in [Wavs -> BOOLEAN]
        BY DEF DirectoryInv, MatchInv
    <2>2. /\ IsFiniteSet(S) /\ A \cup B = S
          /\ A \in SUBSET S /\ B \in SUBSET S /\ A \cap B = {}
        BY <1>2, <2>1, FS_EmptySet
    <2>3. LookedUp(TRUE) + LookedUp(FALSE) = Cardinality(A) + Cardinality(B)
        BY DEF LookedUp
    <2> HIDE DEF S, A, B
    <2>4. Cardinality(A) + Cardinality(B) = Cardinality(S)
        BY <2>2, TwoParts
    <2> QED BY <2>3, <2>4 DEF S
<1>7. match.found # <<>>
    <2>1. Cardinality(listed) # 0
        BY <1>1, <1>2, FS_EmptySet
    <2>2. match.found = <<>> => Cardinality(DOMAIN match.found) = 0
        BY FS_EmptySet
    <2> QED BY <1>3, <1>6, <2>1, <2>2
<1>8. DOMAIN match.found = Wavs
    BY <1>7 DEF DirectoryInv, MatchInv
<1>9. listed = Wavs
    BY <1>2, <1>3, <1>6, <1>8, FS_Subset
<1> QED BY <1>5, <1>9

-----------------------------------------------------------------------------
(* The results about RunDirectory.                                         *)

\* What the files, the manifests and the report say of each other holds in
\* every reachable state.
THEOREM DirectoryInvariant == DirSpec => []DirectoryInv
<1>1. DirectoryInv /\ [DirNext]_dirVars => DirectoryInv'
  <2> SUFFICES ASSUME DirectoryInv, [DirNext]_dirVars  PROVE DirectoryInv'
      OBVIOUS
  <2>1. CASE UNCHANGED dirVars
    BY <2>1, StutterDirectory
  <2>2. CASE DirNext
    BY <2>2, BeginDirectory, BreakDirectory, FetchDirectory, ConvertDirectory,
       MatchDirectory, UploadDirectory, ReportDirectory DEF DirNext
  <2> QED BY <2>1, <2>2
<1> QED BY <1>1, InitDirectory, PTL DEF DirSpec

\* Every variable keeps its type.
THEOREM DirectoryTypes == DirSpec => []DirTypes
<1>1. DirectoryInv => DirTypes
    BY DEF DirectoryInv
<1> QED BY <1>1, DirectoryInvariant, PTL

\* A recording that an upload calls sent is one that the database knows, and the
\* server has audio of it that ffprobe accepts; less than all of it only if the
\* raw file was cut short or the wav was there before.
THEOREM SentAudioIsProbed == DirSpec => []SentIsProbed
<1>1. DirectoryInv => SentIsProbed
    BY DEF DirectoryInv
<1> QED BY <1>1, DirectoryInvariant, PTL

\* When the counts of pipeline.json look complete, every recording that the
\* sources have listed has been uploaded, by this invocation or an earlier one.
THEOREM GreenDaysAreComplete == DirSpec => []AllGreenIsComplete
<1>1. DirectoryInv => AllGreenIsComplete
  <2> SUFFICES ASSUME DirectoryInv, AllGreen
               PROVE  \A i \in DOMAIN fetch : RecordOf[fetch[i]] \in sent
      BY DEF AllGreenIsComplete
  <2>1. /\ result = "ok" /\ Warnings = {}
        /\ Len(fetch) = Converted("ok") + Converted("skip_exists")
        /\ LookedUp(TRUE) + LookedUp(FALSE) = UploadCount("total")
        /\ UploadCount("total") = UploadCount("sent")
      BY DEF AllGreen, DirectoryInv, SummaryInv
  <2>2. match.state # "missing" /\ upload.state = "whole"
      BY <2>1 DEF Warnings
  <2>3. match.state = "whole"
      BY <2>2 DEF DirectoryInv, DirTypes
  <2>4. Wavs \subseteq sent
      BY <2>1, <2>2, <2>3, AllUploaded DEF UploadCount
  <2> QED BY <2>1, <2>4, AllConverted
<1> QED BY <1>1, DirectoryInvariant, PTL

=============================================================================
