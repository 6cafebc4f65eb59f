----------------------------- MODULE Deployment -----------------------------
(***************************************************************************)
(* The blue-green controller (deploy/scripts/deploy.sh): one command at a  *)
(* time under a lock, that may fail, be killed or lose the machine at      *)
(* every step; what it leaves on disk; and the failure handler, the        *)
(* rollback and the recovery that start from there.                        *)
(*                                                                         *)
(* A release is a number, 0 is none.  A colour's API runs the release its  *)
(* container was started with.  The workers of blue and green are one      *)
(* Compose project, those of the adopted installation another.             *)
(***************************************************************************)
EXTENDS Integers

CONSTANTS
    Adoptions,      \* releases of the adopted installation, 0 is a new machine
    MaxRelease,     \* bound: releases to deploy
    MaxCommands,    \* bound: commands the operator gives
    Outages         \* what may happen: "fail", "kill", "reboot", "recovery"

Color == {"blue", "green", "legacy"}

ASSUME DeploymentAssumption ==
    /\ Adoptions \subseteq {0, 1} /\ MaxRelease \in Nat /\ MaxCommands \in Nat
    /\ Outages \subseteq {"fail", "kill", "reboot", "recovery"}

VARIABLES
    disk,           \* the state directory
    proxy,          \* colour of the upstream file, and colour nginx serves
    api,            \* release of each colour's container, 0 if it is stopped
    crew,           \* release of the workers of each Compose project
    run,            \* the command under way
    commands,       \* commands so far
    misled          \* history: the handler ran for a recovery

deployment == <<disk, proxy, api, crew, run, commands, misled>>

NoJournal == <<>>
NoRun == [at |-> "none"]

\* bootstrap.sh, then adopt_legacy.sh where something was installed
DeploymentInit ==
    \E adopted \in Adoptions :
    LET first == IF adopted = 0 THEN "none" ELSE "legacy"
        begun == [c \in Color |-> IF c = "legacy" THEN adopted ELSE 0]
        shown == IF adopted = 0 THEN "blue" ELSE "legacy"
    IN  /\ disk = [active |-> first, previous |-> "none", pending |-> NoJournal, env |-> begun,
                   before |-> 0, workers |-> first, workersBefore |-> "none",
                   at |-> adopted, atBefore |-> 0]
        /\ proxy = [file |-> shown, serves |-> shown]
        /\ api = begun
        /\ crew = [legacy |-> adopted, workers |-> 0]
        /\ run = NoRun /\ commands = 0 /\ misled = FALSE

-----------------------------------------------------------------------------
(* Steps.                                                                    *)

Advance(at) == run' = [run EXCEPT !.at = at]
At(at) == run.at = at

Project(color) == IF color = "legacy" THEN "legacy" ELSE "workers"

\* smoke.py: the exact version, of legacy only that something answers
Ready(color) == api[color] # 0 /\ (color # "legacy" => api[color] = disk.env[color])
ReadyByProxy(color) == IF color = "legacy" THEN api[proxy.serves] # 0
                       ELSE proxy.serves = color /\ Ready(color)

Switched(color) == [file |-> color, serves |-> color]

\* candidate refused, or reload failed behind the new file
SwitchFailed(color) == {proxy, [proxy EXCEPT !.file = color]}

Crewed(project, release) == crew' = [crew EXCEPT ![project] = release]

-----------------------------------------------------------------------------
(* deploy and rollback.                                                      *)

Begun(command, from, to, release) ==
    [at |-> command, from |-> from, to |-> to, release |-> release, rollback |-> command = "ready",
     switched |-> FALSE, workers |-> FALSE, touched |-> FALSE, whole |-> TRUE]

Inactive(active) == IF active = "blue" THEN "green" ELSE "blue"

Deploy(release) ==
    /\ At("none") /\ disk.pending = NoJournal /\ commands < MaxCommands
    /\ disk.active # "none" => disk.env[disk.active] # release
    /\ run' = Begun("save", disk.active, Inactive(disk.active), release)
    /\ commands' = commands + 1
    /\ UNCHANGED <<disk, proxy, api, crew>>

RollBack ==
    /\ At("none") /\ disk.pending = NoJournal /\ commands < MaxCommands
    /\ disk.previous \notin {"none", disk.active}
    /\ run' = Begun("ready", disk.active, disk.previous, 0)
    /\ commands' = commands + 1
    /\ UNCHANGED <<disk, proxy, api, crew>>

SavedStandby(r) == IF r.rollback THEN 0 ELSE disk.env[r.to]

Backup ==
    /\ At("save")
    /\ disk' = [disk EXCEPT !.before = SavedStandby(run),
                            !.workersBefore = disk.workers, !.atBefore = disk.at]
    /\ Advance("journal")
    /\ UNCHANGED <<proxy, api, crew, commands>>

Journal ==
    /\ At("journal")
    /\ disk' = [disk EXCEPT !.pending = [from |-> run.from, to |-> run.to]]
    /\ Advance(IF run.rollback THEN "switch" ELSE "metadata")
    /\ UNCHANGED <<proxy, api, crew, commands>>

WriteMetadata ==
    /\ At("metadata")
    /\ disk' = [disk EXCEPT !.env[run.to] = run.release]
    /\ run' = [run EXCEPT !.at = "start", !.touched = TRUE]
    /\ UNCHANGED <<proxy, api, crew, commands>>

\* the migration, then the container
Up ==
    /\ At("start")
    /\ api' = [api EXCEPT ![run.to] = run.release]
    /\ Advance("ready")
    /\ UNCHANGED <<disk, proxy, crew, commands>>

WaitReady ==
    /\ At("ready") /\ Ready(run.to)
    /\ Advance(IF run.rollback THEN "save" ELSE "switch")
    /\ UNCHANGED <<disk, proxy, api, crew, commands>>

Switch ==
    /\ At("switch")
    /\ proxy' = Switched(run.to)
    /\ run' = [run EXCEPT !.at = "verify", !.switched = TRUE]
    /\ UNCHANGED <<disk, api, crew, commands>>

Activate ==
    /\ At("verify") /\ ReadyByProxy(run.to)
    /\ disk' = [disk EXCEPT !.active = run.to]
    /\ Advance("cut")
    /\ UNCHANGED <<proxy, api, crew, commands>>

CutWorkers ==
    /\ At("cut")
    /\ disk' = [disk EXCEPT !.workersBefore = disk.workers, !.atBefore = disk.at]
    /\ run' = [run EXCEPT !.at = "stop", !.workers = TRUE]
    /\ UNCHANGED <<proxy, api, crew, commands>>

Stopped(r) == Project(disk.workersBefore)

StopWorkers ==
    /\ At("stop")
    /\ IF disk.workersBefore = "none" THEN UNCHANGED crew ELSE Crewed(Stopped(run), 0)
    /\ Advance("up")
    /\ UNCHANGED <<disk, proxy, api, commands>>

UpWorkers ==
    /\ At("up")
    /\ Crewed(Project(run.to), disk.env[run.to])
    /\ Advance("record")
    /\ UNCHANGED <<disk, proxy, api, commands>>

RecordWorkers ==
    /\ At("record")
    /\ disk' = [disk EXCEPT !.workers = run.to, !.at = disk.env[run.to]]
    /\ Advance("previous")
    /\ UNCHANGED <<proxy, api, crew, commands>>

RecordPrevious ==
    /\ At("previous")
    /\ disk' = [disk EXCEPT !.previous = run.from]
    /\ Advance("clear")
    /\ UNCHANGED <<proxy, api, crew, commands>>

Clear ==
    /\ At("clear")
    /\ disk' = [disk EXCEPT !.pending = NoJournal]
    /\ run' = NoRun
    /\ UNCHANGED <<proxy, api, crew, commands>>

-----------------------------------------------------------------------------
(* failure(): a step failed, or INT, TERM or HUP arrived.                    *)

Touched(r) == r.touched \/ r.switched \/ r.workers

Fail ==
    /\ "fail" \in Outages
    /\ run.at \in {"save", "journal", "metadata", "start", "ready", "verify", "cut", "stop", "up",
                   "record", "previous", "clear"}
    /\ IF Touched(run) THEN Advance("traffic") ELSE run' = NoRun
    /\ UNCHANGED <<disk, proxy, api, crew, commands>>

SwitchFails ==
    /\ "fail" \in Outages /\ At("switch")
    /\ proxy' \in SwitchFailed(run.to)
    /\ run' = [run EXCEPT !.at = "traffic", !.switched = TRUE]
    /\ UNCHANGED <<disk, api, crew, commands>>

Broken(at) == run' = [run EXCEPT !.at = at, !.whole = FALSE]

TrafficBack ==
    /\ At("traffic")
    /\ \/ ~run.switched /\ Advance("refit") /\ UNCHANGED proxy
       \/ /\ run.switched /\ run.from # "none" /\ Ready(run.from)
          /\ proxy' = Switched(run.from) /\ Advance("restored")
       \/ /\ run.switched /\ Broken("refit")
          /\ \/ UNCHANGED proxy
             \/ run.from # "none" /\ Ready(run.from) /\ proxy' \in SwitchFailed(run.from)
    /\ UNCHANGED <<disk, api, crew, commands>>

Reactivated(r) == r.from

TrafficRestored ==
    /\ At("restored")
    /\ \/ /\ ReadyByProxy(run.from) /\ disk' = [disk EXCEPT !.active = Reactivated(run)]
          /\ Advance("refit")
       \/ Broken("refit") /\ UNCHANGED disk
    /\ UNCHANGED <<proxy, api, crew, commands>>

\* restore_workers(); without metadata of the target it cannot stop anything
RefitStop(next, Otherwise) ==
    /\ \/ /\ disk.env[run.to] # 0 /\ Crewed(Project(run.to), 0)
          /\ Advance(next)
       \/ Otherwise /\ UNCHANGED crew
    /\ UNCHANGED <<disk, proxy, api, commands>>

RefitUp(next, Otherwise) ==
    /\ IF disk.workersBefore = "none" THEN UNCHANGED crew
       ELSE Crewed(Project(disk.workersBefore), disk.atBefore)
    /\ \/ /\ disk' = [disk EXCEPT !.workers = disk.workersBefore, !.at = disk.atBefore]
          /\ Advance(next)
       \/ Otherwise /\ UNCHANGED disk
    /\ UNCHANGED <<proxy, api, commands>>

RestoreWorkers ==
    \/ /\ At("refit") /\ ~run.workers
       /\ Advance("target") /\ UNCHANGED <<disk, proxy, api, crew, commands>>
    \/ At("refit") /\ run.workers /\ RefitStop("refit up", Broken("target"))
    \/ At("refit up") /\ RefitUp("target", Broken("target"))

Stops_Always(r) == r.to # "legacy" /\ r.touched      \* mutant
Stops(r) == r.to # "legacy" /\ r.whole /\ r.touched

TargetStop ==
    /\ At("target")
    /\ IF Stops(run)
         THEN api' = [api EXCEPT ![run.to] = 0] /\ Advance("standby")
         ELSE UNCHANGED api /\ Advance("forget")
    /\ UNCHANGED <<disk, proxy, crew, commands>>

StandbyBack ==
    /\ At("standby")
    /\ IF disk.before = 0 THEN UNCHANGED <<disk, api>> /\ Advance("forget")
       ELSE /\ disk' = [disk EXCEPT !.env[run.to] = disk.before]
            /\ api' = [api EXCEPT ![run.to] = disk.before]
            /\ Advance("forget") \/ Broken("forget")
    /\ UNCHANGED <<proxy, crew, commands>>

Forget ==
    /\ At("forget")
    /\ disk' = IF run.whole THEN [disk EXCEPT !.pending = NoJournal] ELSE disk
    /\ run' = NoRun
    /\ UNCHANGED <<proxy, api, crew, commands>>

-----------------------------------------------------------------------------
(* recover, and what ends a command without its handler.                     *)

Recover ==
    /\ At("none") /\ disk.pending # NoJournal /\ commands < MaxCommands
    /\ disk.pending.from # "none"
    /\ run' = Begun("recover", disk.pending.from, disk.pending.to, 0)
    /\ commands' = commands + 1
    /\ UNCHANGED <<disk, proxy, api, crew>>

RecoverTraffic ==
    \/ /\ At("recover") /\ Ready(run.from)
       /\ proxy' = Switched(run.from) /\ Advance("recover proxy")
       /\ UNCHANGED <<disk, api, crew, commands>>
    \/ /\ At("recover proxy") /\ ReadyByProxy(run.from)
       /\ run' = [run EXCEPT !.at = "recover workers", !.workers = TRUE]
       /\ UNCHANGED <<disk, proxy, api, crew, commands>>

\* nothing is restored yet: the journal stays
RecoverGivesUp ==
    /\ "fail" \in Outages /\ run.at \in {"recover", "recover proxy"}
    /\ run' = NoRun
    /\ \/ UNCHANGED proxy
       \/ At("recover") /\ Ready(run.from) /\ proxy' \in SwitchFailed(run.from)
    /\ UNCHANGED <<disk, api, crew, commands>>

\* a failure from here on enters the handler, which knows of the workers only
RecoverySteps == {"recover workers", "recover up", "recover target"}
RecoveryFails == "recovery" \in Outages /\ Advance("traffic")

RecoverWorkers ==
    \/ At("recover workers") /\ RefitStop("recover up", RecoveryFails)
    \/ At("recover up") /\ RefitUp("recover target", RecoveryFails)

RecoverTarget ==
    /\ At("recover target")
    /\ IF disk.before # 0 /\ run.to # "legacy"
         THEN /\ disk' = [disk EXCEPT !.env[run.to] = disk.before]
              /\ api' = [api EXCEPT ![run.to] = disk.before]
              /\ Advance("recover active") \/ RecoveryFails
         ELSE UNCHANGED <<disk, api>> /\ Advance("recover active")
    /\ UNCHANGED <<proxy, crew, commands>>

RecoverActive ==
    /\ At("recover active")
    /\ disk' = [disk EXCEPT !.active = run.from]
    /\ Advance("clear")
    /\ UNCHANGED <<proxy, api, crew, commands>>

Killed ==
    /\ "kill" \in Outages /\ ~At("none")
    /\ run' = NoRun
    /\ UNCHANGED <<disk, proxy, api, crew, commands>>

\* containers return, and nginx reads its files
Reboot ==
    /\ "reboot" \in Outages /\ (~At("none") \/ proxy.file # proxy.serves)
    /\ run' = NoRun
    /\ proxy' = [proxy EXCEPT !.serves = proxy.file]
    /\ UNCHANGED <<disk, api, crew, commands>>

DeploymentSteps ==
    \/ \E release \in 2 .. MaxRelease : Deploy(release)
    \/ RollBack \/ Backup \/ Journal \/ WriteMetadata \/ Up \/ WaitReady \/ Switch \/ Activate
    \/ CutWorkers \/ StopWorkers \/ UpWorkers \/ RecordWorkers \/ RecordPrevious \/ Clear
    \/ Fail \/ SwitchFails \/ TrafficBack \/ TrafficRestored \/ RestoreWorkers \/ TargetStop
    \/ StandbyBack \/ Forget
    \/ Recover \/ RecoverTraffic \/ RecoverGivesUp \/ RecoverWorkers \/ RecoverTarget
    \/ RecoverActive \/ Killed \/ Reboot

DeploymentNext ==
    /\ DeploymentSteps
    /\ misled' = (misled \/ (run'.at = "traffic" /\ run.at \in RecoverySteps))

-----------------------------------------------------------------------------
(* Properties                                                                *)

Quiet == At("none")

(* "The previous API stays running": from the journal on, whatever fails, is *)
(* killed or restarts, the API that served before still runs the release its *)
(* metadata names, so that traffic can be restored to it.                    *)
PreviousStaysUp ==
    (disk.pending # NoJournal /\ disk.pending.from # "none") =>
        api[disk.pending.from] # 0 /\ api[disk.pending.from] = disk.env[disk.pending.from]

(* "Never stop a target that may still be serving traffic after a failed     *)
(* restore": once a deployment has ended in success, no step stops or        *)
(* replaces the container nginx sends traffic to.  (After a recovery failed  *)
(* at the workers the journal is gone and the active colour may be wrong.)   *)
ServingUntouched ==
    [][(disk.active # "none" /\ api[proxy.serves] # 0 /\ ~misled)
         => api'[proxy.serves] = api[proxy.serves]]_deployment

(* "A failure restores old workers without overlapping": two generations of  *)
(* workers never run at once.                                                *)
OneGeneration == crew["legacy"] = 0 \/ crew["workers"] = 0

(* "Preserving rollback without rebuilding": between commands the standby    *)
(* that a rollback would return to runs the release of its metadata, after   *)
(* failed releases and recoveries too, unless a recovery was misled.         *)
StandbyKept ==
    (Quiet /\ disk.pending = NoJournal /\ disk.previous \notin {"none", disk.active} /\ ~misled) =>
        api[disk.previous] # 0 /\ api[disk.previous] = disk.env[disk.previous]

(* Between commands, without a journal, the active colour on disk is the one *)
(* traffic goes to and its metadata names the release that serves, unless a  *)
(* recovery failed at the workers and its handler took the journal away.     *)
StateIsTrue ==
    (Quiet /\ disk.pending = NoJournal /\ disk.active # "none" /\ ~misled) =>
        proxy.serves = disk.active /\ api[disk.active] = disk.env[disk.active]

(* deploy, rollback and recover, failing, killed or rebooted at any step:    *)
(* what serves stays, what served can return, workers never overlap, and the *)
(* files on disk tell which is which.                                        *)
ReleasesSurvive ==
    /\ ServingUntouched
    /\ [](PreviousStaysUp /\ OneGeneration /\ StandbyKept /\ StateIsTrue)
=============================================================================
