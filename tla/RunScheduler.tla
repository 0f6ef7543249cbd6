---------------------------- MODULE RunScheduler ----------------------------
(***************************************************************************)
(* scripts/run_pipeline.sh and what starts it: the daily service (through  *)
(* run_production.sh) and operators.  An invocation goes through clients   *)
(* and days, skips a target whose run directory exists, and starts one or  *)
(* more containers for the others; `set -euo pipefail` ends it with the    *)
(* first container that fails.  Beside the invocations, the retention      *)
(* cleanup purges old run directories and operators remove failed ones.    *)
(*                                                                         *)
(* A run directory is a run_id: client, day and label.  The model keeps    *)
(* whether it exists, who has worked in it and how far the stages got.     *)
(***************************************************************************)
EXTENDS Naturals, Sequences

CONSTANTS
    Scripts,    \* invocations of run_pipeline.sh
    Commands,   \* the command lines that each of them may have
    RunIds      \* [client, day, label]

Modes == {"full", "fetch", "convert", "match", "upload"}

ASSUME SchedulerAssumption ==
    /\ \A c \in UNION {Commands[s] : s \in Scripts} :
          /\ c.mode \in Modes /\ c.real \in BOOLEAN /\ c.service \in BOOLEAN
          /\ c.from \in Nat /\ c.to \in Nat /\ c.from <= c.to
          /\ \A i \in DOMAIN c.clients : \A d \in c.from..c.to :
                [client |-> c.clients[i], day |-> d, label |-> c.label] \in RunIds
    /\ \A id \in RunIds : id.day \in Nat

VARIABLES
    pc,        \* each script: "idle", "check", "start", "work", "ended"
    cmd,       \* its command line, a set with one command, {} before the start
    part,      \* the container of the current target that runs or is to be started
    log,       \* what became of its targets: "skip", "ok", "failed"
    exit,      \* "none", "ok", "failed", "killed"
    dir        \* each run directory: [exists, listed, progress, users]

vars == <<pc, cmd, part, log, exit, dir>>

NoDir == [exists |-> FALSE, listed |-> FALSE, progress |-> 0, users |-> {}]

TypeOK ==
    /\ pc \in [Scripts -> {"idle", "check", "start", "work", "ended"}]
    /\ DOMAIN cmd = Scripts
    /\ \A s \in Scripts : IF pc[s] = "idle" THEN cmd[s] = {}
                           ELSE \E c \in Commands[s] : cmd[s] = {c}
    /\ part \in [Scripts -> 1..3]
    /\ log \in [Scripts -> Seq({"skip", "ok", "failed"})]
    /\ exit \in [Scripts -> {"none", "ok", "failed", "killed"}]
    /\ dir \in [RunIds -> [exists : BOOLEAN, listed : BOOLEAN, progress : 0..4,
                           users : SUBSET Scripts]]

Init ==
    /\ pc = [s \in Scripts |-> "idle"]
    /\ cmd = [s \in Scripts |-> {}]
    /\ part = [s \in Scripts |-> 1]
    /\ log = [s \in Scripts |-> <<>>]
    /\ exit = [s \in Scripts |-> "none"]
    /\ dir = [id \in RunIds |-> NoDir]

Cmd(s) == CHOOSE c \in cmd[s] : TRUE
Running(s) == pc[s] \in {"check", "start", "work"}

-----------------------------------------------------------------------------
(* The loops over clients and days.                                        *)

\* 'start' to 'end' inclusive: main requires that they are in order.
Days(c) == c.to - c.from + 1
Targets(c) == Len(c.clients) * Days(c)

\* The i-th target: for each client all the days.
Target(c, i) ==
    [client |-> c.clients[((i - 1) \div Days(c)) + 1],
     day |-> c.from + ((i - 1) % Days(c)), label |-> c.label]

Id(s) == Target(Cmd(s), Len(log[s]) + 1)

\* The current target is done with; after the last one the script exits 0.
Advance(s, outcome) ==
    /\ log' = [log EXCEPT ![s] = Append(@, outcome)]
    /\ part' = [part EXCEPT ![s] = 1]
    /\ IF Len(log[s]) + 1 = Targets(Cmd(s))
       THEN pc' = [pc EXCEPT ![s] = "ended"] /\ exit' = [exit EXCEPT ![s] = "ok"]
       ELSE pc' = [pc EXCEPT ![s] = "check"] /\ UNCHANGED exit

\* Fault: the status of the pipe is that of tee, the loop goes on.
AbortUnseen(s) == Advance(s, "failed")

\* A container failed: with pipefail so has the pipe, and -e ends the script.
Abort(s) ==
    /\ log' = [log EXCEPT ![s] = Append(@, "failed")]
    /\ pc' = [pc EXCEPT ![s] = "ended"]
    /\ exit' = [exit EXCEPT ![s] = "failed"]
    /\ UNCHANGED part

\* systemd runs one instance of the service at a time; an operator's command
\* may run beside it and beside others.
Invoke(s) ==
    /\ pc[s] = "idle"
    /\ \E c \in Commands[s] :
          /\ c.service => \A t \in Scripts : ~(Running(t) /\ Cmd(t).service)
          /\ cmd' = [cmd EXCEPT ![s] = {c}]
    /\ pc' = [pc EXCEPT ![s] = "check"]
    /\ UNCHANGED <<part, log, exit, dir>>

\* Fault: a directory counts only when its run got to the end.
Finished(id) == dir[id].progress = 4

Found(id) == dir[id].exists

\* Fault: the day is counted up only after a run.
SkipStays(s) ==
    /\ pc[s] = "check"
    /\ Found(Id(s))
    /\ UNCHANGED vars

Skip(s) ==
    /\ pc[s] = "check"
    /\ Found(Id(s))
    /\ Advance(s, "skip")
    /\ UNCHANGED <<cmd, dir>>

\* The directory is not there; the container that makes it comes later.
Pass(s) ==
    /\ pc[s] = "check"
    /\ ~Found(Id(s))
    /\ pc' = [pc EXCEPT ![s] = "start"]
    /\ UNCHANGED <<cmd, part, log, exit, dir>>

-----------------------------------------------------------------------------
(* The containers of a target.                                             *)

\* run_full starts the runner, run_match three stages, the others one.
Parts(c) ==
    IF c.mode = "full" THEN <<"runner">>
    ELSE IF c.mode = "match" THEN <<"fetch", "convert", "match">>
    ELSE <<c.mode>>

Part(s) == Parts(Cmd(s))[part[s]]

\* Every stage and the runner create the directories they need first.
Start(s) ==
    /\ pc[s] = "start"
    /\ dir' = [dir EXCEPT ![Id(s)] = [exists |-> TRUE, listed |-> @.listed,
                                      progress |-> @.progress, users |-> @.users \cup {s}]]
    /\ pc' = [pc EXCEPT ![s] = "work"]
    /\ UNCHANGED <<cmd, part, log, exit>>

\* podman cannot start the container, or it fails on its arguments.
StartFails(s) ==
    /\ pc[s] = "start"
    /\ Abort(s)
    /\ UNCHANGED <<cmd, dir>>

\* How far the stages get in the directory: 1 fetched, 2 converted, 3 matched,
\* 4 uploaded.  A dry run gets nowhere, and a stage that finds nothing of the
\* one before it exits 0 all the same, except the converter.  The stages are
\* counted, not what they found: a real run of the runner that exits 0 has got to
\* the end, also when there was no wav and so nothing to match and to upload.
Level == [fetch |-> 1, convert |-> 2, match |-> 3, upload |-> 4]

Reach(s) ==
    LET p == dir[Id(s)].progress
    IN  IF ~Cmd(s).real THEN p
        ELSE IF Part(s) = "runner" THEN 4
        ELSE IF p = Level[Part(s)] - 1 THEN p + 1 ELSE p

Lists(s) == dir[Id(s)].listed \/ Part(s) \in {"runner", "fetch"}

\* A container without fetch.json in the directory: only the converter minds.
CanEnd(s) == Part(s) = "convert" => dir[Id(s)].listed

Progress(s, p, l) ==
    dir' = [dir EXCEPT ![Id(s)] = [exists |-> @.exists, listed |-> l, progress |-> p,
                                   users |-> @.users]]

Works(s) ==
    /\ pc[s] = "work"
    /\ CanEnd(s)
    /\ Progress(s, Reach(s), Lists(s))
    /\ IF part[s] < Len(Parts(Cmd(s)))
       THEN /\ part' = [part EXCEPT ![s] = @ + 1]
            /\ pc' = [pc EXCEPT ![s] = "start"]
            /\ UNCHANGED <<log, exit>>
       ELSE Advance(s, "ok")
    /\ UNCHANGED cmd

\* The container exits with an error, at any point of its work.
Fails(s) ==
    /\ pc[s] = "work"
    /\ \E p \in dir[Id(s)].progress..Reach(s), l \in {dir[Id(s)].listed, Lists(s)} :
          Progress(s, p, l)
    /\ Abort(s)
    /\ UNCHANGED cmd

\* A signal ends script and container: TimeoutStartSec of the service, the
\* start of the cleanup service (Conflicts=), an operator.
Stop(s) ==
    /\ Running(s)
    /\ pc' = [pc EXCEPT ![s] = "ended"]
    /\ exit' = [exit EXCEPT ![s] = "killed"]
    /\ UNCHANGED <<cmd, part, log, dir>>

-----------------------------------------------------------------------------
(* What removes run directories.                                           *)

Unused(id) == dir[id].exists /\ \A s \in dir[id].users : pc[s] = "ended"

\* The cleanup removes a directory that nobody has touched for 30 days; when
\* it is stopped in the middle of rm -rf an emptied directory can stay.
Purge(id) ==
    /\ Unused(id)
    /\ \E left \in {NoDir, [exists |-> TRUE, listed |-> FALSE, progress |-> 0,
                           users |-> dir[id].users]} : dir' = [dir EXCEPT ![id] = left]
    /\ UNCHANGED <<pc, cmd, part, log, exit>>

\* An operator removes the directory of a failed or incomplete run to retry it.
Remove(id) ==
    /\ Unused(id)
    /\ dir[id].progress < 4
    /\ dir' = [dir EXCEPT ![id] = NoDir]
    /\ UNCHANGED <<pc, cmd, part, log, exit>>

Script(s) == Skip(s) \/ Pass(s) \/ Start(s) \/ StartFails(s) \/ Works(s) \/ Fails(s)

Next ==
    \/ \E s \in Scripts : Invoke(s) \/ Script(s) \/ Stop(s)
    \/ \E id \in RunIds : Purge(id) \/ Remove(id)

Spec == Init /\ [][Next]_vars

\* bash goes on, and every container ends (PipelineRunner, InvocationEnds); nothing obliges
\* anybody to start a script, to stop it or to remove a directory.
FairSpec == Spec /\ \A s \in Scripts : WF_vars(Script(s))

-----------------------------------------------------------------------------
(* Properties.                                                             *)

\* The exit status of a script tells of every container: 0 means that each
\* target of the command line was skipped or ended well, and after a container
\* that failed no other target was touched.
ExitTellsFailure ==
    \A s \in Scripts :
        /\ exit[s] = "ok" =>
              Len(log[s]) = Targets(Cmd(s)) /\ \A i \in DOMAIN log[s] : log[s][i] # "failed"
        /\ exit[s] = "failed" => log[s][Len(log[s])] = "failed"
        /\ \A i \in DOMAIN log[s] : i < Len(log[s]) => log[s][i] # "failed"

\* The daily run never works in the directory of another daily run, finished,
\* failed or killed, as long as the directory is there: nothing a run has left
\* is overwritten by the next one.
OneServiceRunPerDirectory ==
    \A id \in RunIds : \A s, t \in dir[id].users :
        Cmd(s).service /\ Cmd(t).service => s = t

\* A script comes to its end, whatever directories it finds or loses on its way:
\* a target that is skipped is counted like one that is run.
ScriptEnds == \A s \in Scripts : (pc[s] = "check") ~> (pc[s] = "ended")

-----------------------------------------------------------------------------
(* What the documents say and the code does not do.                        *)

\* The help of --mode: upload runs the uploader, so that what an earlier
\* command has matched is uploaded.
UploadModeUploads ==
    \A s \in Scripts : exit[s] = "ok" =>
        \A i \in DOMAIN log[s] :
            LET c == Cmd(s)
            IN  c.mode = "upload" /\ c.real => dir[Target(c, i)].progress # 3
=============================================================================
