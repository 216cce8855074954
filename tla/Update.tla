-------------------------------- MODULE Update --------------------------------
(***************************************************************************)
(* Self-update: app/update_orchestrator.py, app/update_controller.py,      *)
(* logic/update/install_service.py and the updater window that drives them *)
(* (ui/update/presenter.py).  The running tool unpacks a release over its  *)
(* own directory, stages what it may not overwrite, copies itself to       *)
(* updater.exe, records the update in the settings and starts the updater; *)
(* the updater ends the tool, moves the staged files, replaces the launch  *)
(* binary and starts it; the new tool removes what the update left.  What  *)
(* a process does next is decided by the settings file alone, and a        *)
(* process can die between any two of these steps.                         *)
(*                                                                         *)
(* A file is known by the release it comes from.  A settings write is one  *)
(* step; a file being written when the process dies is left broken.        *)
(***************************************************************************)
EXTENDS Naturals, Sequences

CONSTANTS
  Files,         \* the files of a release besides the launch binary
  Held,          \* files a running tool keeps open: they cannot be replaced
  Stubborn,      \* files that can be replaced by nobody
  MaxVersion,    \* bound on the releases published
  MaxCrashes,    \* bound on the processes that die
  MaxFailures,   \* bound on the operations that fail
  Faults         \* the operations that may fail

ASSUME UpdateAssumption ==
  /\ Held \subseteq Files
  /\ Stubborn \subseteq Files
  /\ Held \cap Stubborn = {}
  /\ MaxVersion \in Nat \ {0}
  /\ MaxCrashes \in Nat
  /\ MaxFailures \in Nat
  /\ Files \cap {"tool", "settings"} = {}
  /\ Faults \subseteq {"download", "extract", "launch", "apply", "missing", "relaunch"}

VARIABLES
  cwd,         \* the installed files
  temp,        \* the staging directory temp/updates
  tool,        \* the launch binary
  newTool,     \* bin/tool, the launch binary of the release being installed
  updater,     \* updater.exe
  disk,        \* the options of settings.ini the update uses
  proc,        \* the process in charge
  lingering,   \* is the process that started it still there?
  latest,      \* the latest release published
  crashes, failures

storage == <<cwd, temp, tool, newTool, updater>>
bounds == <<latest, crashes, failures>>
vars == <<storage, disk, proc, lingering, bounds>>

Absent == 0
Broken == MaxVersion + 1
Releases == 1 .. MaxVersion
Contents == 0 .. MaxVersion + 1

Unknown == 0                   \* version_old of a fresh settings file

Settings == [updating : BOOLEAN, done : BOOLEAN, hasTool : BOOLEAN, waits : BOOLEAN,
             files : SUBSET Files, version : 0 .. MaxVersion,
             versionOld : 0 .. MaxVersion]

\* What config/settings.ini of a release says, an option it lacks by its default.
ReleaseSettings(v) ==
  [updating |-> FALSE, done |-> FALSE, hasTool |-> FALSE, waits |-> FALSE,
   files |-> {}, version |-> v, versionOld |-> Unknown]

Options == {"updating", "done", "hasTool", "waits", "files", "version", "versionOld"}

Phases == {"off", "idle", "download", "extract", "prepared", "write",
           "apply", "moving", "cleanup", "cleanTool", "hidden"}

Processes == [exe : {"tool", "updater"}, phase : Phases, mem : Settings,
              todo : SUBSET (Files \cup {"tool", "settings"}), staged : SUBSET Files,
              target : 0 .. MaxVersion, view : BOOLEAN, plan : Settings,
              writes : Seq(Options), next : {"idle", "launch", "relaunch"}]

Off == [exe |-> "tool", phase |-> "off", mem |-> ReleaseSettings(Unknown), todo |-> {},
        staged |-> {}, target |-> Unknown, view |-> FALSE,
        plan |-> ReleaseSettings(Unknown), writes |-> <<>>, next |-> "idle"]

Init ==
  /\ cwd = [f \in Files |-> 1]
  /\ temp = [f \in Files |-> Absent]
  /\ tool = 1
  /\ newTool = Absent
  /\ updater = Absent
  /\ disk = ReleaseSettings(1)
  /\ proc = Off
  /\ lingering = FALSE
  /\ latest = 1
  /\ crashes = 0
  /\ failures = 0

------------------------------------------------------------------------------
(* Starting a process                                                      *)

\* Process p is to set these options, in this order, to their values in plan, and
\* then to do what next says.
Writing(p, plan, options, next) ==
  [p EXCEPT !.phase = "write", !.plan = plan, !.writes = options, !.next = next]

\* recover_pending_failure: a pending update that raised is given up.
Recover(p) ==
  Writing(p, [p.mem EXCEPT !.updating = FALSE, !.version = p.mem.versionOld],
          <<"updating", "version">>, "idle")

\* UpdatePresentationController.start and detect_pending_update_mode; the mode
\* PREPARE raises, and the error handler recovers.
Boot(exe, s) ==
  LET p == [Off EXCEPT !.exe = exe, !.mem = s]
  IN  CASE ~s.updating -> [p EXCEPT !.phase = "idle"]
        [] s.updating /\ exe = "updater" -> [p EXCEPT !.phase = "apply", !.todo = s.files]
        [] s.updating /\ exe = "tool" /\ s.done -> [p EXCEPT !.phase = "cleanup"]
        [] s.updating /\ exe = "tool" /\ ~s.done -> Recover(p)

Whole(content) == content \in Releases

\* The user starts the tool, and the updater only when the tool will not start.
UserStarts ==
  /\ proc.phase = "off"
  /\ \/ Whole(tool) /\ proc' = Boot("tool", disk)
     \/ ~Whole(tool) /\ Whole(updater) /\ proc' = Boot("updater", disk)
  /\ UNCHANGED <<storage, disk, lingering, bounds>>

\* The user ends the program; a program without a window is ended from outside.
Quit ==
  /\ proc.phase \in {"idle", "hidden"}
  /\ proc' = Off
  /\ UNCHANGED <<storage, disk, lingering, bounds>>

\* A process that has started its successor destroys its window and ends.
LauncherExits ==
  /\ lingering
  /\ lingering' = FALSE
  /\ UNCHANGED <<storage, disk, proc, bounds>>

NewRelease ==
  /\ latest < MaxVersion
  /\ latest' = latest + 1
  /\ UNCHANGED <<storage, disk, proc, lingering, crashes, failures>>

Fails(operation) ==
  /\ operation \in Faults
  /\ failures < MaxFailures
  /\ failures' = failures + 1

------------------------------------------------------------------------------
(* Settings                                                                *)

\* SettingsRepository.set_value reads the file over the options the process
\* holds, sets one option and writes them all: of an option the file lacks, the
\* process's own value survives.  Extraction replaces the file by one that
\* states the version only.
SetValue(option) ==
  disk' = [proc.mem EXCEPT !.version = disk.version, ![option] = proc.plan[option]]

\* One turn of a loop of set_value calls.
WriteNext ==
  /\ proc.phase = "write"
  /\ proc.writes # <<>>
  /\ SetValue(Head(proc.writes))
  /\ proc' = [proc EXCEPT !.mem = disk', !.writes = Tail(@)]
  /\ UNCHANGED <<storage, lingering, bounds>>

WritesDone ==
  /\ proc.phase = "write"
  /\ proc.writes = <<>>
  /\ proc.next = "idle"
  /\ proc' = [proc EXCEPT !.phase = "idle"]
  /\ UNCHANGED <<storage, disk, lingering, bounds>>

------------------------------------------------------------------------------
(* Preparation, by the running tool                                        *)

\* Where a worker's result goes: to the error handler, which shows the main
\* window again, or nowhere if the updater window is gone; the main window then
\* stays withdrawn.
AfterError == [proc EXCEPT !.phase = IF proc.view THEN "idle" ELSE "hidden"]

\* request_install, of a release other than the recorded version.
RequestInstall ==
  /\ proc.phase = "idle"
  /\ proc.mem.version # latest
  /\ proc' = [proc EXCEPT !.phase = "download", !.target = latest, !.view = TRUE]
  /\ UNCHANGED <<storage, disk, lingering, bounds>>

\* The user closes the updater window; the worker goes on.
CloseView ==
  /\ proc.phase \in {"download", "extract", "prepared"}
  /\ proc.view
  /\ proc' = [proc EXCEPT !.view = FALSE]
  /\ UNCHANGED <<storage, disk, lingering, bounds>>

\* A chunk finds the window closed, or the download fails.
DownloadEnds ==
  /\ proc.phase = "download"
  /\ \/ ~proc.view /\ UNCHANGED failures
     \/ Fails("download")
  /\ proc' = AfterError
  /\ UNCHANGED <<storage, disk, lingering, latest, crashes>>

\* prepare_update_payload is only reached after the last chunk.
Downloaded ==
  /\ proc.phase = "download"
  /\ proc' = [proc EXCEPT !.phase = "extract", !.todo = Files \cup {"tool", "settings"},
                          !.staged = {}]
  /\ UNCHANGED <<storage, disk, lingering, bounds>>

\* Writing the file raises PermissionError: a missing file is held by nobody.
Denied(f) == f \in Stubborn \/ (f \in Held /\ cwd[f] # Absent)

\* Write content to where member m of the archive goes.
Unpack(m, content) ==
  \/ /\ m \in Files
     /\ Denied(m)
     /\ temp' = [temp EXCEPT ![m] = content]
     /\ UNCHANGED <<cwd, newTool, disk>>
  \/ /\ m \in Files
     /\ ~Denied(m)
     /\ cwd' = [cwd EXCEPT ![m] = content]
     /\ UNCHANGED <<temp, newTool, disk>>
  \/ /\ m = "tool"
     /\ newTool' = content
     /\ UNCHANGED <<cwd, temp, disk>>
  \/ /\ m = "settings"
     /\ disk' = ReleaseSettings(proc.target)
     /\ UNCHANGED <<cwd, temp, newTool>>

Extract(m) ==
  /\ proc.phase = "extract"
  /\ m \in proc.todo
  /\ Unpack(m, proc.target)
  /\ proc' = [proc EXCEPT
       !.todo = @ \ {m},
       !.staged = IF m \in Files /\ Denied(m) THEN @ \cup {m} ELSE @]
  /\ UNCHANGED <<tool, updater, lingering, bounds>>

\* A member cannot be written, or copying the tool onto itself raises
\* SameFileError: what is already extracted stays.
ExtractFails ==
  /\ proc.phase = "extract"
  /\ \/ /\ Fails("extract")
        /\ \E m \in proc.todo : Unpack(m, Broken)
     \/ /\ proc.todo = {}
        /\ proc.exe = "updater"
        /\ UNCHANGED <<cwd, temp, newTool, disk, failures>>
  /\ proc' = AfterError
  /\ UNCHANGED <<tool, updater, lingering, latest, crashes>>

\* The tool copies itself to updater.exe and returns the payload.
CopyUpdater ==
  /\ proc.phase = "extract"
  /\ proc.todo = {}
  /\ proc.exe = "tool"
  /\ updater' = tool
  /\ proc' = [proc EXCEPT !.phase = "prepared"]
  /\ UNCHANGED <<cwd, temp, tool, newTool, disk, lingering, bounds>>

\* update_dict, in its order.
RecordUpdate ==
  Writing(proc, [proc.mem EXCEPT !.updating = TRUE, !.hasTool = TRUE,
                                 !.versionOld = proc.mem.version,
                                 !.files = proc.staged, !.waits = TRUE],
          <<"updating", "hasTool", "versionOld", "files", "waits">>, "launch")

\* _finalize_install, or nothing at all if the window is gone.
FinalizeInstall ==
  /\ proc.phase = "prepared"
  /\ proc' = IF proc.view THEN RecordUpdate ELSE [proc EXCEPT !.phase = "hidden"]
  /\ UNCHANGED <<storage, disk, lingering, bounds>>

\* persist_and_launch_updater starts the updater and the tool ends; if the
\* launch raises, the tool is left behind its withdrawn window.
LaunchUpdater ==
  /\ proc.phase = "write"
  /\ proc.writes = <<>>
  /\ proc.next = "launch"
  /\ \/ proc' = Boot("updater", disk) /\ lingering' = TRUE /\ UNCHANGED failures
     \/ Fails("launch") /\ proc' = [proc EXCEPT !.phase = "hidden"] /\ UNCHANGED lingering
  /\ UNCHANGED <<storage, disk, latest, crashes>>

------------------------------------------------------------------------------
(* Application, by the updater                                             *)

\* Mutant: the launcher is left running.
EndLauncherNot ==
  /\ proc.phase = "apply"
  /\ UNCHANGED lingering
  /\ proc' = [proc EXCEPT !.phase = "moving"]
  /\ UNCHANGED <<storage, disk, bounds>>

\* The processes in wait_pids are killed.
EndLauncher ==
  /\ proc.phase = "apply"
  /\ lingering' = (lingering /\ ~proc.mem.waits)
  /\ proc' = [proc EXCEPT !.phase = "moving"]
  /\ UNCHANGED <<storage, disk, bounds>>

\* The installed file can be removed, or is not there.
Removable(f) == cwd[f] = Absent \/ ~(f \in Stubborn \/ (f \in Held /\ lingering))

\* Mutant: the target is removed before anyone asks for its replacement.
MoveBlindly(f) ==
  /\ proc.phase = "moving"
  /\ f \in proc.todo
  /\ proc' = [proc EXCEPT !.todo = @ \ {f}]
  /\ cwd' = [cwd EXCEPT ![f] = IF Removable(f) THEN temp[f] ELSE @]
  /\ temp' = [temp EXCEPT ![f] = IF Removable(f) THEN Absent ELSE @]
  /\ UNCHANGED <<tool, newTool, updater, disk, lingering, bounds>>

\* Mutant: a file that cannot be moved yet is tried again.
MoveOrRetry(f) ==
  /\ proc.phase = "moving"
  /\ f \in proc.todo
  /\ IF temp[f] # Absent /\ Removable(f)
     THEN /\ cwd' = [cwd EXCEPT ![f] = temp[f]]
          /\ temp' = [temp EXCEPT ![f] = Absent]
          /\ proc' = [proc EXCEPT !.todo = @ \ {f}]
     ELSE UNCHANGED <<cwd, temp, proc>>
  /\ UNCHANGED <<tool, newTool, updater, disk, lingering, bounds>>

\* One turn of the loop of apply_staged_update; a file that is not staged and one
\* that cannot be removed are passed over with a warning.
Move(f) ==
  /\ proc.phase = "moving"
  /\ f \in proc.todo
  /\ proc' = [proc EXCEPT !.todo = @ \ {f}]
  /\ IF temp[f] # Absent /\ Removable(f)
     THEN /\ cwd' = [cwd EXCEPT ![f] = temp[f]]
          /\ temp' = [temp EXCEPT ![f] = Absent]
     ELSE UNCHANGED <<cwd, temp>>
  /\ UNCHANGED <<tool, newTool, updater, disk, lingering, bounds>>

\* The old file is removed and the new one not yet in its place.
HalfMove ==
  \E f \in proc.todo :
    /\ temp[f] # Absent
    /\ Removable(f)
    /\ cwd' = [cwd EXCEPT ![f] = Absent]

\* An exception other than PermissionError leaves the loop for the error handler.
MoveFails ==
  /\ proc.phase = "moving"
  /\ Fails("apply")
  /\ HalfMove \/ UNCHANGED cwd
  /\ proc' = Recover(proc)
  /\ UNCHANGED <<temp, tool, newTool, updater, disk, lingering, latest, crashes>>

\* The new launch binary disappears: an archive without it, an antivirus.
NewToolVanishes ==
  /\ proc.phase \in {"apply", "moving"}
  /\ newTool # Absent
  /\ Fails("missing")
  /\ newTool' = Absent
  /\ UNCHANGED <<cwd, temp, tool, updater, disk, proc, lingering, latest, crashes>>

InstallTool ==
  /\ proc.phase = "moving"
  /\ proc.todo = {}
  /\ proc.mem.hasTool /\ newTool # Absent
  /\ tool' = newTool
  /\ proc' = Writing(proc, [proc.mem EXCEPT !.waits = TRUE, !.done = TRUE],
                     <<"waits", "done">>, "relaunch")
  /\ UNCHANGED <<cwd, temp, newTool, updater, disk, lingering, bounds>>

\* The outcome of an update without a new launch binary.
Forsaken ==
  Writing(proc, [proc.mem EXCEPT !.version = proc.mem.versionOld, !.updating = FALSE],
          <<"version", "updating">>, "idle")

\* Mutant: a failed update removes the updater.
GiveUpCleansUp ==
  /\ proc.phase = "moving"
  /\ proc.todo = {}
  /\ ~(proc.mem.hasTool /\ newTool # Absent)
  /\ proc' = Forsaken
  /\ updater' = Absent
  /\ UNCHANGED <<cwd, temp, tool, newTool, disk, lingering, bounds>>

\* Without a new launch binary the update has failed.
GiveUp ==
  /\ proc.phase = "moving"
  /\ proc.todo = {}
  /\ ~(proc.mem.hasTool /\ newTool # Absent)
  /\ proc' = Forsaken
  /\ UNCHANGED <<storage, disk, lingering, bounds>>

\* apply_staged_and_launch starts the new tool, or raises and is recovered.
Relaunch ==
  /\ proc.phase = "write"
  /\ proc.writes = <<>>
  /\ proc.next = "relaunch"
  /\ \/ /\ Whole(tool)
        /\ proc' = Boot("tool", disk)
        /\ lingering' = TRUE
        /\ UNCHANGED failures
     \/ /\ Fails("relaunch")
        /\ proc' = Recover(proc)
        /\ UNCHANGED lingering
  /\ UNCHANGED <<storage, disk, latest, crashes>>

------------------------------------------------------------------------------
(* Cleanup, by the new tool                                                *)

\* The updater is ended; its file can only be removed once it is.
RemoveUpdater ==
  /\ proc.phase = "cleanup"
  /\ lingering' = (lingering /\ ~proc.mem.waits)
  /\ updater' = IF lingering' THEN updater ELSE Absent
  /\ proc' = [proc EXCEPT !.phase = "cleanTool"]
  /\ UNCHANGED <<cwd, temp, tool, newTool, disk, bounds>>

\* The settings are reset in the order of cleanup_completed.
RemoveNewTool ==
  /\ proc.phase = "cleanTool"
  /\ newTool' = IF proc.mem.hasTool THEN Absent ELSE newTool
  /\ proc' = Writing(proc, [proc.mem EXCEPT !.updating = FALSE, !.hasTool = FALSE,
                                            !.files = {}, !.done = FALSE],
                     <<"updating", "hasTool", "files", "done">>, "idle")
  /\ UNCHANGED <<cwd, temp, tool, updater, disk, lingering, bounds>>

------------------------------------------------------------------------------
(* A process dies                                                          *)

\* What the interrupted step leaves: a member, the updater or the launch binary
\* half written, an installed file removed.
Damage ==
  \/ /\ proc.phase = "extract"
     /\ \E m \in proc.todo : Unpack(m, Broken)
     /\ UNCHANGED <<tool, updater>>
  \/ /\ proc.phase = "extract"
     /\ proc.todo = {} /\ proc.exe = "tool"
     /\ updater' = Broken
     /\ UNCHANGED <<cwd, temp, newTool, disk, tool>>
  \/ /\ proc.phase = "moving"
     /\ HalfMove
     /\ UNCHANGED <<temp, newTool, disk, tool, updater>>
  \/ /\ proc.phase = "moving"
     /\ proc.todo = {} /\ proc.mem.hasTool /\ newTool # Absent
     /\ tool' = Broken
     /\ UNCHANGED <<cwd, temp, newTool, disk, updater>>

Crash ==
  /\ proc.phase # "off"
  /\ crashes < MaxCrashes
  /\ crashes' = crashes + 1
  /\ proc' = Off
  /\ Damage \/ UNCHANGED <<storage, disk>>
  /\ UNCHANGED <<lingering, latest, failures>>

------------------------------------------------------------------------------
\* What a process does on its own, once it is to install an update.
ProcessStep ==
  \/ WriteNext \/ WritesDone \/ LaunchUpdater
  \/ EndLauncher \/ (\E f \in Files : Move(f)) \/ InstallTool \/ GiveUp \/ Relaunch
  \/ RemoveUpdater \/ RemoveNewTool

Next ==
  \/ ProcessStep
  \/ UserStarts \/ Quit \/ LauncherExits \/ NewRelease
  \/ RequestInstall \/ CloseView \/ DownloadEnds \/ Downloaded
  \/ (\E m \in Files \cup {"tool", "settings"} : Extract(m))
  \/ ExtractFails \/ CopyUpdater \/ FinalizeInstall
  \/ MoveFails \/ NewToolVanishes
  \/ Crash

Safety == Init /\ [][Next]_vars
Spec == Safety /\ WF_vars(ProcessStep)

------------------------------------------------------------------------------
(* Properties                                                              *)

\* The values the variables range over; crashes and failures keep to their bounds.
TypeOK ==
  /\ cwd \in [Files -> Contents]
  /\ temp \in [Files -> Contents]
  /\ tool \in Contents /\ newTool \in Contents /\ updater \in Contents
  /\ disk \in Settings
  /\ proc \in Processes
  /\ lingering \in BOOLEAN
  /\ latest \in Releases
  /\ crashes \in 0 .. MaxCrashes
  /\ failures \in 0 .. MaxFailures

\* However an update is interrupted, the user can start the launch binary or the
\* updater: the tool is overwritten by the updater alone, and the updater is
\* removed or overwritten only by a tool that started.
Startable == Whole(tool) \/ Whole(updater)

\* An installed file that an interrupted move removed is still staged, whole.
NothingLost == \A f \in Files : cwd[f] = Absent => Whole(temp[f])

\* When the updater has replaced the launch binary, every file that can be
\* replaced at all is of the same release, and so is the recorded version.
AppliedIsComplete ==
  proc.phase = "write" /\ proc.next = "relaunch" =>
    /\ disk.version = tool
    /\ \A f \in Files \ Stubborn : cwd[f] = tool

\* An update the tool has begun to record is carried through or given up: some
\* process comes to rest with nothing pending, unless a process dies or cannot
\* start the updater.
Settles ==
  (proc.phase = "write" /\ proc.next = "launch")
    ~> \/ proc.phase = "idle" /\ ~disk.updating
       \/ proc.phase \in {"off", "hidden"}

==============================================================================
