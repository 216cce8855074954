---------------------------- MODULE UpdateProofs -----------------------------
(* What an interrupted update never destroys, and that what it leaves is    *)
(* complete once it is applied, for any files, any number of releases and   *)
(* any number of crashes and failures.                                      *)
EXTENDS Update, TLAPS

\* What the process in charge runs from is whole: the tool overwrites only the
\* updater, the updater only the tool.
RunsWhole ==
  proc.phase # "off" =>
    /\ proc.exe = "tool" => Whole(tool)
    /\ proc.exe = "updater" => Whole(updater)

\* Who is in which phase, and when the updater has been written.
Roles ==
  /\ proc.phase \in {"apply", "moving"} => proc.exe = "updater"
  /\ proc.phase = "write" /\ proc.next = "relaunch" => proc.exe = "updater"
  /\ proc.phase \in {"cleanup", "cleanTool"} => proc.exe = "tool"
  /\ proc.phase = "prepared" => Whole(updater)
  /\ proc.phase = "write" /\ proc.next = "launch" => Whole(updater)

StartInv == TypeOK /\ RunsWhole /\ Roles /\ Startable

\* The process knows whether an update is pending; a new one is only prepared when
\* none is, and a process that is to give one up or end it still has that write
\* before it.
PendingKnown ==
  /\ proc.phase # "off" => proc.mem.updating = disk.updating
  /\ proc.phase \in {"idle", "download", "extract"} => disk.updating = FALSE
  /\ proc.phase = "write" /\ proc.next = "idle" =>
       /\ proc.plan.updating = FALSE
       /\ disk.updating => \E i \in 1 .. Len(proc.writes) : proc.writes[i] = "updating"

\* An update about to be recorded, recorded or being applied.
Committed ==
  \/ disk.updating
  \/ proc.phase \in {"prepared", "apply", "moving"}
  \/ proc.phase = "write" /\ proc.next \in {"launch", "relaunch"}

StagedWhole == Committed => \A f \in Files : temp[f] # Broken

\* A file broken in the staging directory is one that extraction stages again, and
\* the file it is to replace is in its place; extraction has replaced whatever is
\* not left to do.
Restaged ==
  /\ \A f \in Files : temp[f] = Broken => f \in Stubborn \cup Held
  /\ \A f \in Stubborn : cwd[f] # Absent

Extraction ==
  /\ proc.phase \in {"download", "extract"} => proc.target \in Releases
  /\ proc.phase = "extract" => \A f \in Files \ proc.todo : temp[f] # Broken
  /\ proc.phase \in {"apply", "moving"} => proc.todo \subseteq Files

LossInv == TypeOK /\ NothingLost /\ Restaged /\ PendingKnown /\ StagedWhole /\ Extraction

------------------------------------------------------------------------------
(* The operators the actions are built from                                *)

LEMMA ReleaseSettingsTyped ==
  ASSUME NEW v \in 0 .. MaxVersion
  PROVE  /\ ReleaseSettings(v) \in Settings
         /\ ReleaseSettings(v).updating = FALSE
BY UpdateAssumption DEF ReleaseSettings, Settings, Unknown

LEMMA OffTyped == Off \in Processes /\ Off.phase = "off"
<1>1. PICK mem : mem = ReleaseSettings(Unknown)
  BY Zenon
<1>2. PICK none : none = <<>>
  BY Zenon
<1>3. Off = [exe |-> "tool", phase |-> "off", mem |-> mem, todo |-> {}, staged |-> {},
             target |-> Unknown, view |-> FALSE, plan |-> mem, writes |-> none,
             next |-> "idle"]
  BY <1>1, <1>2, Zenon DEF Off
<1>4. mem \in Settings /\ Unknown \in 0 .. MaxVersion
  <2>1. Unknown \in 0 .. MaxVersion
    BY UpdateAssumption DEF Unknown
  <2> QED BY <1>1, <2>1, ReleaseSettingsTyped
<1>5. none \in Seq(Options)
  BY <1>2
<1>6. Off \in Processes
  BY <1>3, <1>4, <1>5 DEF Processes, Phases
<1>7. Off.phase = "off"
  BY Zenon DEF Off
<1> QED BY <1>6, <1>7

LEMMA WritingTyped ==
  ASSUME NEW p \in Processes, NEW plan \in Settings, NEW options \in Seq(Options),
         NEW next \in {"idle", "launch", "relaunch"}
  PROVE  /\ Writing(p, plan, options, next) \in Processes
         /\ Writing(p, plan, options, next).phase = "write"
         /\ Writing(p, plan, options, next).next = next
         /\ Writing(p, plan, options, next).plan = plan
         /\ Writing(p, plan, options, next).writes = options
         /\ Writing(p, plan, options, next).exe = p.exe
         /\ Writing(p, plan, options, next).mem = p.mem
BY DEF Writing, Processes, Phases

\* A recovery ends the pending update and writes that first.
LEMMA RecoverTyped ==
  ASSUME NEW p \in Processes
  PROVE  /\ Recover(p) \in Processes
         /\ Recover(p).phase = "write" /\ Recover(p).next = "idle"
         /\ Recover(p).plan.updating = FALSE
         /\ Recover(p).writes = <<"updating", "version">>
         /\ Recover(p).exe = p.exe /\ Recover(p).mem = p.mem
<1> DEFINE plan == [p.mem EXCEPT !.updating = FALSE, !.version = p.mem.versionOld]
           options == <<"updating", "version">>
<1>1. plan \in Settings /\ plan.updating = FALSE
  BY DEF Processes, Settings
<1>2. options \in Seq(Options)
  BY DEF Options
<1>3. Recover(p) = Writing(p, plan, options, "idle")
  BY DEF Recover
<1>4. options = <<"updating", "version">>
  OBVIOUS
<1> HIDE DEF plan, options
<1>5. /\ Recover(p) \in Processes
      /\ Recover(p).phase = "write" /\ Recover(p).next = "idle"
      /\ Recover(p).plan = plan /\ Recover(p).writes = options
      /\ Recover(p).exe = p.exe /\ Recover(p).mem = p.mem
  BY <1>1, <1>2, <1>3, WritingTyped
<1> QED BY <1>1, <1>4, <1>5

\* A process starts in the phase its binary and the settings call for.
LEMMA BootTyped ==
  ASSUME NEW exe \in {"tool", "updater"}, NEW s \in Settings
  PROVE  /\ Boot(exe, s) \in Processes
         /\ Boot(exe, s).exe = exe /\ Boot(exe, s).mem = s
         /\ ~s.updating => Boot(exe, s).phase = "idle"
         /\ s.updating /\ exe = "updater" =>
              Boot(exe, s).phase = "apply" /\ Boot(exe, s).todo = s.files
         /\ s.updating /\ exe = "tool" /\ s.done => Boot(exe, s).phase = "cleanup"
         /\ s.updating /\ exe = "tool" /\ ~s.done =>
              /\ Boot(exe, s).phase = "write" /\ Boot(exe, s).next = "idle"
              /\ Boot(exe, s).plan.updating = FALSE
              /\ Boot(exe, s).writes = <<"updating", "version">>
<1> DEFINE p == [Off EXCEPT !.exe = exe, !.mem = s]
<1>1. p \in Processes /\ p.exe = exe /\ p.mem = s
  BY OffTyped DEF Processes
<1>2. s.updating \in BOOLEAN /\ s.files \subseteq Files
  BY DEF Settings
<1> HIDE DEF p
<1>3. CASE ~s.updating
  <2>1. Boot(exe, s) = [p EXCEPT !.phase = "idle"]
    BY <1>3 DEF Boot, p
  <2> QED BY <1>1, <1>3, <2>1 DEF Processes, Phases
<1>4. CASE s.updating /\ exe = "updater"
  <2>1. Boot(exe, s) = [p EXCEPT !.phase = "apply", !.todo = s.files]
    BY <1>4 DEF Boot, p
  <2> DEFINE files == s.files
  <2>2. files \in SUBSET Files
    BY <1>2
  <2>3. Boot(exe, s) = [p EXCEPT !.phase = "apply", !.todo = files]
    BY <2>1
  <2> HIDE DEF files
  <2>4. /\ Boot(exe, s) \in Processes
        /\ Boot(exe, s).exe = p.exe /\ Boot(exe, s).mem = p.mem
        /\ Boot(exe, s).phase = "apply" /\ Boot(exe, s).todo = files
    BY <1>1, <2>2, <2>3, ZenonT(60) DEF Processes, Phases
  <2> QED BY <1>1, <1>4, <2>4 DEF files
<1>5. CASE s.updating /\ exe = "tool" /\ s.done
  <2>1. Boot(exe, s) = [p EXCEPT !.phase = "cleanup"]
    BY <1>5 DEF Boot, p
  <2> QED BY <1>1, <1>5, <2>1 DEF Processes, Phases
<1>6. CASE s.updating /\ exe = "tool" /\ ~s.done
  <2>1. Boot(exe, s) = Recover(p)
    BY <1>6 DEF Boot, p
  <2> QED BY <1>1, <1>6, <2>1, RecoverTyped
<1> QED BY <1>2, <1>3, <1>4, <1>5, <1>6

\* An idle process, or one without a window, is the same process in another phase.
LEMMA PhaseTyped ==
  ASSUME NEW p \in Processes, NEW phase \in Phases
  PROVE  LET q == [p EXCEPT !.phase = phase]
         IN  /\ q \in Processes
             /\ q.phase = phase /\ q.exe = p.exe /\ q.mem = p.mem /\ q.todo = p.todo
             /\ q.target = p.target
BY DEF Processes

LEMMA AfterErrorTyped ==
  ASSUME TypeOK
  PROVE  /\ AfterError \in Processes
         /\ AfterError.phase \in {"idle", "hidden"}
         /\ AfterError.exe = proc.exe /\ AfterError.mem = proc.mem
<1>1. proc \in Processes
  BY DEF TypeOK
<1>2. CASE proc.view
  <2>1. AfterError = [proc EXCEPT !.phase = "idle"]
    BY <1>2 DEF AfterError
  <2> QED BY <1>1, <2>1, PhaseTyped DEF Phases
<1>3. CASE ~proc.view
  <2>1. AfterError = [proc EXCEPT !.phase = "hidden"]
    BY <1>3 DEF AfterError
  <2> QED BY <1>1, <2>1, PhaseTyped DEF Phases
<1> QED BY <1>2, <1>3

LEMMA UnpackTyped ==
  ASSUME TypeOK, NEW m, NEW content \in Contents, Unpack(m, content)
  PROVE  /\ cwd' \in [Files -> Contents] /\ temp' \in [Files -> Contents]
         /\ newTool' \in Contents /\ disk' \in Settings
<1>1. proc.target \in 0 .. MaxVersion
  BY DEF TypeOK, Processes
<1>2. ReleaseSettings(proc.target) \in Settings
  BY <1>1, ReleaseSettingsTyped
<1> QED BY <1>2 DEF TypeOK, Unpack

\* One write sets the option to its planned value and the version to the file's;
\* the rest is the process's own.
LEMMA SetValueTyped ==
  ASSUME TypeOK, NEW option \in Options, SetValue(option)
  PROVE  /\ disk' \in Settings
         /\ option = "updating" => disk'.updating = proc.plan.updating
         /\ option # "updating" => disk'.updating = proc.mem.updating
<1>1. proc.mem \in Settings /\ proc.plan \in Settings /\ disk \in Settings
  BY DEF TypeOK, Processes
<1> DEFINE base == [proc.mem EXCEPT !.version = disk.version]
<1>2. base \in Settings /\ base.updating = proc.mem.updating
  BY <1>1 DEF Settings
<1>3. disk' = [base EXCEPT ![option] = proc.plan[option]]
  BY <1>1 DEF SetValue, Settings
<1> HIDE DEF base
<1>4. CASE option = "updating"
  BY <1>1, <1>2, <1>3, <1>4 DEF Settings
<1>5. CASE option # "updating"
  BY <1>1, <1>2, <1>3, <1>5 DEF Settings, Options
<1> QED BY <1>4, <1>5

LEMMA RecordUpdateTyped ==
  ASSUME TypeOK
  PROVE  /\ RecordUpdate \in Processes
         /\ RecordUpdate.phase = "write" /\ RecordUpdate.next = "launch"
         /\ RecordUpdate.exe = proc.exe /\ RecordUpdate.mem = proc.mem
<1>1. PICK plan : plan = [proc.mem EXCEPT !.updating = TRUE, !.hasTool = TRUE,
                                          !.versionOld = proc.mem.version,
                                          !.files = proc.staged, !.waits = TRUE]
  BY Zenon
<1>2. PICK options : options = <<"updating", "hasTool", "versionOld", "files", "waits">>
  BY Zenon
<1>3. proc \in Processes /\ proc.mem \in Settings /\ proc.staged \in SUBSET Files
  BY DEF TypeOK, Processes
<1>4. plan \in Settings
  BY <1>1, <1>3 DEF Settings
<1>5. options \in Seq(Options)
  BY <1>2 DEF Options
<1>6. RecordUpdate = Writing(proc, plan, options, "launch")
  BY <1>1, <1>2, Zenon DEF RecordUpdate
<1>7. LET w == Writing(proc, plan, options, "launch")
      IN  w \in Processes /\ w.phase = "write" /\ w.next = "launch" /\ w.exe = proc.exe /\ w.mem = proc.mem
  BY <1>3, <1>4, <1>5, WritingTyped
<1> QED BY <1>6, <1>7

\* What the process does after replacing the launch binary, giving up or cleaning
\* up; the last two end the update and have that write before them.
LEMMA InstallToolTyped ==
  ASSUME TypeOK, InstallTool
  PROVE  /\ proc' \in Processes
         /\ proc'.phase = "write" /\ proc'.next = "relaunch"
         /\ proc'.exe = proc.exe /\ proc'.mem = proc.mem
<1>1. PICK plan : plan = [proc.mem EXCEPT !.waits = TRUE, !.done = TRUE]
  BY Zenon
<1>2. PICK options : options = <<"waits", "done">>
  BY Zenon
<1>3. proc \in Processes /\ proc.mem \in Settings
  BY DEF TypeOK, Processes
<1>4. plan \in Settings
  BY <1>1, <1>3 DEF Settings
<1>5. options \in Seq(Options)
  BY <1>2 DEF Options
<1>6. proc' = Writing(proc, plan, options, "relaunch")
  BY <1>1, <1>2, Zenon DEF InstallTool
<1>7. LET w == Writing(proc, plan, options, "relaunch")
      IN  w \in Processes /\ w.phase = "write" /\ w.next = "relaunch" /\ w.exe = proc.exe /\ w.mem = proc.mem
  BY <1>3, <1>4, <1>5, WritingTyped
<1> QED BY <1>6, <1>7

LEMMA ForsakenTyped ==
  ASSUME TypeOK
  PROVE  /\ Forsaken \in Processes
         /\ Forsaken.phase = "write" /\ Forsaken.next = "idle"
         /\ Forsaken.plan.updating = FALSE
         /\ Forsaken.writes = <<"version", "updating">>
         /\ Forsaken.exe = proc.exe /\ Forsaken.mem = proc.mem
<1>1. PICK plan : plan = [proc.mem EXCEPT !.version = proc.mem.versionOld, !.updating = FALSE]
  BY Zenon
<1>2. PICK options : options = <<"version", "updating">>
  BY Zenon
<1>3. proc \in Processes /\ proc.mem \in Settings
  BY DEF TypeOK, Processes
<1>4. plan \in Settings /\ plan.updating = FALSE
  BY <1>1, <1>3 DEF Settings
<1>5. options \in Seq(Options)
  BY <1>2 DEF Options
<1>6. Forsaken = Writing(proc, plan, options, "idle")
  BY <1>1, <1>2, Zenon DEF Forsaken
<1>7. /\ Forsaken \in Processes /\ Forsaken.phase = "write" /\ Forsaken.next = "idle"
      /\ Forsaken.plan = plan /\ Forsaken.writes = options
      /\ Forsaken.exe = proc.exe /\ Forsaken.mem = proc.mem
  <2> DEFINE written == Writing(proc, plan, options, "idle")
  <2>1. /\ written \in Processes /\ written.phase = "write" /\ written.next = "idle"
        /\ written.plan = plan /\ written.writes = options
        /\ written.exe = proc.exe /\ written.mem = proc.mem
    BY <1>3, <1>4, <1>5, WritingTyped
  <2> QED BY <1>6, <2>1, Zenon
<1> QED BY <1>2, <1>4, <1>7

LEMMA RemoveNewToolTyped ==
  ASSUME TypeOK, RemoveNewTool
  PROVE  /\ proc' \in Processes
         /\ proc'.phase = "write" /\ proc'.next = "idle"
         /\ proc'.plan.updating = FALSE
         /\ proc'.writes = <<"updating", "hasTool", "files", "done">>
         /\ proc'.exe = proc.exe /\ proc'.mem = proc.mem
<1>1. PICK plan : plan = [proc.mem EXCEPT !.updating = FALSE, !.hasTool = FALSE,
                                          !.files = {}, !.done = FALSE]
  BY Zenon
<1>2. PICK options : options = <<"updating", "hasTool", "files", "done">>
  BY Zenon
<1>3. proc \in Processes /\ proc.mem \in Settings
  BY DEF TypeOK, Processes
<1>4. plan \in Settings /\ plan.updating = FALSE
  BY <1>1, <1>3 DEF Settings
<1>5. options \in Seq(Options)
  BY <1>2 DEF Options
<1>6. proc' = Writing(proc, plan, options, "idle")
  BY <1>1, <1>2, Zenon DEF RemoveNewTool
<1>7. /\ proc' \in Processes /\ proc'.phase = "write" /\ proc'.next = "idle"
      /\ proc'.plan = plan /\ proc'.writes = options
      /\ proc'.exe = proc.exe /\ proc'.mem = proc.mem
  <2> DEFINE written == Writing(proc, plan, options, "idle")
  <2>1. /\ written \in Processes /\ written.phase = "write" /\ written.next = "idle"
        /\ written.plan = plan /\ written.writes = options
        /\ written.exe = proc.exe /\ written.mem = proc.mem
    BY <1>3, <1>4, <1>5, WritingTyped
  <2> QED BY <1>6, <2>1, Zenon
<1> QED BY <1>2, <1>4, <1>7

------------------------------------------------------------------------------
(* Types                                                                   *)

LEMMA TypeInit == Init => TypeOK
<1> SUFFICES ASSUME Init PROVE TypeOK
  OBVIOUS
<1>1. 1 \in 0 .. MaxVersion /\ 1 \in Contents /\ 1 \in Releases /\ Absent \in Contents
  BY UpdateAssumption DEF Contents, Releases, Absent
<1>2. disk \in Settings
  BY <1>1, ReleaseSettingsTyped DEF Init
<1>3. 0 \in 0 .. MaxCrashes /\ 0 \in 0 .. MaxFailures
  BY UpdateAssumption
<1> QED BY <1>1, <1>2, <1>3, OffTyped DEF Init, TypeOK

\* A failing operation keeps to the bound.
LEMMA FailsTyped ==
  ASSUME TypeOK, NEW operation, Fails(operation)
  PROVE  failures' \in 0 .. MaxFailures
BY UpdateAssumption DEF TypeOK, Fails

LEMMA DamageTyped ==
  ASSUME TypeOK, Damage
  PROVE  /\ cwd' \in [Files -> Contents] /\ temp' \in [Files -> Contents]
         /\ tool' \in Contents /\ newTool' \in Contents /\ updater' \in Contents
         /\ disk' \in Settings
<1>1. Broken \in Contents /\ Absent \in Contents
  BY UpdateAssumption DEF Broken, Contents, Absent
<1>2. CASE /\ \E m \in proc.todo : Unpack(m, Broken)
           /\ UNCHANGED <<tool, updater>>
  BY <1>1, <1>2, UnpackTyped DEF TypeOK
<1>3. CASE updater' = Broken /\ UNCHANGED <<cwd, temp, newTool, disk, tool>>
  BY <1>1, <1>3 DEF TypeOK
<1>4. CASE HalfMove /\ UNCHANGED <<temp, newTool, disk, tool, updater>>
  BY <1>1, <1>4 DEF TypeOK, HalfMove
<1>5. CASE tool' = Broken /\ UNCHANGED <<cwd, temp, newTool, disk, updater>>
  BY <1>1, <1>5 DEF TypeOK
<1> QED BY <1>2, <1>3, <1>4, <1>5 DEF Damage

LEMMA ProcessStepTyped ==
  ASSUME TypeOK, ProcessStep
  PROVE  TypeOK'
<1> USE DEF storage, bounds
<1>1. proc \in Processes
  BY DEF TypeOK
<1>2. CASE WriteNext
  <2>1. Head(proc.writes) \in Options /\ Tail(proc.writes) \in Seq(Options)
    BY <1>1, <1>2 DEF WriteNext, Processes
  <2>2. disk' \in Settings
    BY <1>2, <2>1, SetValueTyped DEF WriteNext
  <2>3. proc' \in Processes
    BY <1>1, <1>2, <2>1, <2>2 DEF WriteNext, Processes
  <2> QED BY <1>2, <2>2, <2>3 DEF WriteNext, TypeOK
<1>3. CASE WritesDone
  <2>1. proc' \in Processes
    BY <1>1, <1>3, PhaseTyped DEF WritesDone, Phases
  <2> QED BY <1>3, <2>1 DEF WritesDone, TypeOK
<1>4. CASE LaunchUpdater
  <2>1. proc' \in Processes
    <3>1. CASE proc' = Boot("updater", disk)
      BY <3>1, BootTyped DEF TypeOK
    <3>2. CASE proc' = [proc EXCEPT !.phase = "hidden"]
      BY <1>1, <3>2, PhaseTyped DEF Phases
    <3> QED BY <1>4, <3>1, <3>2 DEF LaunchUpdater
  <2>2. failures' \in 0 .. MaxFailures /\ lingering' \in BOOLEAN
    BY <1>4, FailsTyped DEF LaunchUpdater, TypeOK
  <2> QED BY <1>4, <2>1, <2>2 DEF LaunchUpdater, TypeOK
<1>5. CASE EndLauncher
  <2>1. proc' \in Processes
    BY <1>1, <1>5, PhaseTyped DEF EndLauncher, Phases
  <2> QED BY <1>5, <2>1 DEF EndLauncher, TypeOK
<1>6. CASE \E f \in Files : Move(f)
  <2>1. PICK f \in Files : Move(f)
    BY <1>6
  <2>2. proc' \in Processes
    BY <1>1, <2>1 DEF Move, Processes
  <2>3. cwd' \in [Files -> Contents] /\ temp' \in [Files -> Contents]
    <3>1. Absent \in Contents
      BY UpdateAssumption DEF Absent, Contents
    <3> QED BY <2>1, <3>1 DEF Move, TypeOK
  <2> QED BY <2>1, <2>2, <2>3 DEF Move, TypeOK
<1>7. CASE InstallTool
  BY <1>7, InstallToolTyped DEF InstallTool, TypeOK
<1>8. CASE GiveUp
  BY <1>8, ForsakenTyped DEF GiveUp, TypeOK
<1>9. CASE Relaunch
  <2>1. proc' \in Processes
    <3>1. CASE proc' = Boot("tool", disk)
      BY <3>1, BootTyped DEF TypeOK
    <3>2. CASE proc' = Recover(proc)
      BY <1>1, <3>2, RecoverTyped
    <3> QED BY <1>9, <3>1, <3>2 DEF Relaunch
  <2>2. failures' \in 0 .. MaxFailures /\ lingering' \in BOOLEAN
    BY <1>9, FailsTyped DEF Relaunch, TypeOK
  <2> QED BY <1>9, <2>1, <2>2 DEF Relaunch, TypeOK
<1>10. CASE RemoveUpdater
  <2>1. proc' \in Processes
    BY <1>1, <1>10, PhaseTyped DEF RemoveUpdater, Phases
  <2>2. updater' \in Contents
    BY <1>10, UpdateAssumption DEF RemoveUpdater, TypeOK, Absent, Contents
  <2> QED BY <1>10, <2>1, <2>2 DEF RemoveUpdater, TypeOK
<1>11. CASE RemoveNewTool
  <2>1. newTool' \in Contents
    BY <1>11, UpdateAssumption DEF RemoveNewTool, TypeOK, Absent, Contents
  <2> QED BY <1>11, <2>1, RemoveNewToolTyped DEF RemoveNewTool, TypeOK
<1> QED BY <1>2, <1>3, <1>4, <1>5, <1>6, <1>7, <1>8, <1>9, <1>10, <1>11 DEF ProcessStep

LEMMA TypeStep ==
  ASSUME TypeOK, [Next]_vars
  PROVE  TypeOK'
<1> USE DEF storage, bounds
<1>1. proc \in Processes
  BY DEF TypeOK
<1>2. CASE ProcessStep
  BY <1>2, ProcessStepTyped
<1>3. CASE UserStarts
  <2>1. CASE proc' = Boot("tool", disk)
    BY <1>3, <2>1, BootTyped DEF UserStarts, TypeOK
  <2>2. CASE proc' = Boot("updater", disk)
    BY <1>3, <2>2, BootTyped DEF UserStarts, TypeOK
  <2> QED BY <1>3, <2>1, <2>2 DEF UserStarts
<1>4. CASE Quit
  BY <1>4, OffTyped DEF Quit, TypeOK
<1>5. CASE LauncherExits
  BY <1>5 DEF LauncherExits, TypeOK
<1>6. CASE NewRelease
  BY <1>6, UpdateAssumption DEF NewRelease, TypeOK, Releases
<1>7. CASE RequestInstall
  <2>1. latest \in 0 .. MaxVersion
    BY UpdateAssumption DEF TypeOK, Releases
  <2>2. proc' \in Processes
    BY <1>1, <1>7, <2>1 DEF RequestInstall, Processes, Phases
  <2> QED BY <1>7, <2>2 DEF RequestInstall, TypeOK
<1>8. CASE CloseView
  <2>1. proc' \in Processes
    BY <1>1, <1>8 DEF CloseView, Processes
  <2> QED BY <1>8, <2>1 DEF CloseView, TypeOK
<1>9. CASE DownloadEnds
  <2>1. failures' \in 0 .. MaxFailures
    BY <1>9, FailsTyped DEF DownloadEnds, TypeOK
  <2> QED BY <1>9, <2>1, AfterErrorTyped DEF DownloadEnds, TypeOK
<1>10. CASE Downloaded
  <2>1. proc' \in Processes
    BY <1>1, <1>10 DEF Downloaded, Processes, Phases
  <2> QED BY <1>10, <2>1 DEF Downloaded, TypeOK
<1>11. CASE \E m \in Files \cup {"tool", "settings"} : Extract(m)
  <2>1. PICK m \in Files \cup {"tool", "settings"} : Extract(m)
    BY <1>11
  <2>2. proc.target \in Contents
    BY <1>1, UpdateAssumption DEF Processes, Contents
  <2>3. proc' \in Processes
    BY <1>1, <2>1 DEF Extract, Processes
  <2> QED BY <2>1, <2>2, <2>3, UnpackTyped DEF Extract, TypeOK
<1>12. CASE ExtractFails
  <2>1. Broken \in Contents
    BY UpdateAssumption DEF Broken, Contents
  <2>2. /\ cwd' \in [Files -> Contents] /\ temp' \in [Files -> Contents]
        /\ newTool' \in Contents /\ disk' \in Settings
    BY <1>12, <2>1, UnpackTyped DEF ExtractFails, TypeOK
  <2>3. failures' \in 0 .. MaxFailures
    BY <1>12, FailsTyped DEF ExtractFails, TypeOK
  <2> QED BY <1>12, <2>2, <2>3, AfterErrorTyped DEF ExtractFails, TypeOK
<1>13. CASE CopyUpdater
  <2>1. proc' \in Processes
    BY <1>1, <1>13, PhaseTyped DEF CopyUpdater, Phases
  <2> QED BY <1>13, <2>1 DEF CopyUpdater, TypeOK
<1>14. CASE FinalizeInstall
  <2>1. CASE proc' = RecordUpdate
    BY <1>14, <2>1, RecordUpdateTyped DEF FinalizeInstall, TypeOK
  <2>2. CASE proc' = [proc EXCEPT !.phase = "hidden"]
    <3>1. proc' \in Processes
      BY <1>1, <2>2, PhaseTyped DEF Phases
    <3> QED BY <1>14, <3>1 DEF FinalizeInstall, TypeOK
  <2> QED BY <1>14, <2>1, <2>2 DEF FinalizeInstall
<1>15. CASE MoveFails
  <2>1. Absent \in Contents
    BY UpdateAssumption DEF Absent, Contents
  <2>2. cwd' \in [Files -> Contents]
    BY <1>15, <2>1 DEF MoveFails, HalfMove, TypeOK
  <2>3. failures' \in 0 .. MaxFailures
    BY <1>15, FailsTyped DEF MoveFails
  <2> QED BY <1>1, <1>15, <2>2, <2>3, RecoverTyped DEF MoveFails, TypeOK
<1>16. CASE NewToolVanishes
  <2>1. Absent \in Contents
    BY UpdateAssumption DEF Absent, Contents
  <2>2. failures' \in 0 .. MaxFailures
    BY <1>16, FailsTyped DEF NewToolVanishes
  <2> QED BY <1>16, <2>1, <2>2 DEF NewToolVanishes, TypeOK
<1>17. CASE Crash
  <2>1. /\ cwd' \in [Files -> Contents] /\ temp' \in [Files -> Contents]
        /\ tool' \in Contents /\ newTool' \in Contents /\ updater' \in Contents
        /\ disk' \in Settings
    BY <1>17, DamageTyped DEF Crash, TypeOK
  <2>2. crashes' \in 0 .. MaxCrashes
    BY <1>17, UpdateAssumption DEF Crash, TypeOK
  <2> QED BY <1>17, <2>1, <2>2, OffTyped DEF Crash, TypeOK
<1>18. CASE UNCHANGED vars
  BY <1>18 DEF vars, TypeOK
<1> QED BY <1>2, <1>3, <1>4, <1>5, <1>6, <1>7, <1>8, <1>9, <1>10, <1>11, <1>12, <1>13,
           <1>14, <1>15, <1>16, <1>17, <1>18 DEF Next

\* Every variable keeps to its values: crashes and failures are bounded, the settings
\* file never holds an option of another kind, and no file has content of no release.
THEOREM UpdateTyped == Safety => []TypeOK
BY TypeInit, TypeStep, PTL DEF Safety

------------------------------------------------------------------------------
(* Something can always be started                                         *)

LEMMA StartInit == Init => StartInv
<1> SUFFICES ASSUME Init PROVE StartInv
  OBVIOUS
<1>1. Whole(tool)
  BY UpdateAssumption DEF Init, Whole, Releases
<1>2. proc.phase = "off"
  BY OffTyped DEF Init
<1> QED BY <1>1, <1>2, TypeInit DEF StartInv, RunsWhole, Roles, Startable

LEMMA BootRole ==
  ASSUME NEW s \in Settings
  PROVE  /\ Boot("tool", s).exe = "tool" /\ Boot("updater", s).exe = "updater"
         /\ Boot("tool", s).phase \in {"idle", "cleanup", "write"}
         /\ Boot("tool", s).phase = "write" => Boot("tool", s).next = "idle"
         /\ Boot("updater", s).phase \in {"idle", "apply", "write"}
         /\ Boot("updater", s).phase = "write" => Boot("updater", s).next = "idle"
<1>1. /\ Boot("tool", s).exe = "tool"
      /\ Boot("tool", s).phase \in {"idle", "cleanup", "write"}
      /\ Boot("tool", s).phase = "write" => Boot("tool", s).next = "idle"
  BY BootTyped
<1>2. /\ Boot("updater", s).exe = "updater"
      /\ Boot("updater", s).phase \in {"idle", "apply", "write"}
      /\ Boot("updater", s).phase = "write" => Boot("updater", s).next = "idle"
  BY BootTyped
<1> QED BY <1>1, <1>2

\* A process that runs keeps what it runs from; a phase that asks for a role is
\* entered by the process that has it.
LEMMA StartProcessStep ==
  ASSUME StartInv, ProcessStep
  PROVE  RunsWhole' /\ Roles' /\ Startable'
<1> USE DEF StartInv, RunsWhole, Roles, Startable
<1>1. proc \in Processes /\ proc.exe \in {"tool", "updater"} /\ disk \in Settings
  BY DEF TypeOK, Processes
<1>2. CASE WriteNext
  <2>1. /\ proc'.phase = proc.phase /\ proc'.exe = proc.exe /\ proc'.next = proc.next
        /\ UNCHANGED <<tool, updater>>
    BY <1>1, <1>2 DEF WriteNext, Processes, storage
  <2> QED BY <2>1 DEF Whole
<1>3. CASE WritesDone
  <2>1. proc'.phase = "idle" /\ proc'.exe = proc.exe /\ UNCHANGED <<tool, updater>>
    BY <1>1, <1>3, PhaseTyped DEF WritesDone, Phases, storage
  <2> QED BY <1>1, <1>3, <2>1 DEF WritesDone, Whole
<1>4. CASE LaunchUpdater
  <2>1. Whole(updater) /\ Whole(updater)' /\ (Whole(tool) <=> Whole(tool)')
    BY <1>4 DEF LaunchUpdater, storage, Whole
  <2>2. CASE proc' = Boot("updater", disk)
    <3>1. /\ proc'.exe = "updater"
          /\ proc'.phase \in {"idle", "apply", "write"}
          /\ proc'.phase = "write" => proc'.next = "idle"
      BY <1>1, <2>2, BootRole
    <3> QED BY <2>1, <3>1
  <2>3. CASE proc' = [proc EXCEPT !.phase = "hidden"]
    <3>1. proc'.phase = "hidden" /\ proc'.exe = proc.exe
      BY <1>1, <2>3, PhaseTyped DEF Phases
    <3> QED BY <1>1, <1>4, <2>1, <3>1 DEF LaunchUpdater
  <2> QED BY <1>4, <2>2, <2>3 DEF LaunchUpdater
<1>5. CASE EndLauncher
  <2>1. proc'.phase = "moving" /\ proc'.exe = proc.exe /\ UNCHANGED <<tool, updater>>
    BY <1>1, <1>5, PhaseTyped DEF EndLauncher, Phases, storage
  <2> QED BY <1>1, <1>5, <2>1 DEF EndLauncher, Whole
<1>6. CASE \E f \in Files : Move(f)
  <2>1. proc'.phase = "moving" /\ proc'.exe = proc.exe /\ UNCHANGED <<tool, updater>>
    BY <1>1, <1>6 DEF Move, Processes
  <2> QED BY <1>1, <1>6, <2>1 DEF Move, Whole
<1>7. CASE InstallTool
  <2>1. proc.exe = "updater" /\ Whole(updater)
    BY <1>7 DEF InstallTool
  <2>2. /\ proc'.phase = "write" /\ proc'.next = "relaunch" /\ proc'.exe = "updater"
        /\ Whole(updater)'
    BY <1>7, <2>1, InstallToolTyped DEF InstallTool, Whole
  <2> QED BY <2>2
<1>8. CASE GiveUp
  <2>1. /\ proc'.phase = "write" /\ proc'.next = "idle" /\ proc'.exe = proc.exe
        /\ UNCHANGED <<tool, updater>>
    BY <1>8, ForsakenTyped DEF GiveUp, storage
  <2> QED BY <1>1, <1>8, <2>1 DEF GiveUp, Whole
<1>9. CASE Relaunch
  <2>1. UNCHANGED <<tool, updater>> /\ proc.exe = "updater" /\ Whole(updater)
    BY <1>9 DEF Relaunch, storage
  <2>2. CASE Whole(tool) /\ proc' = Boot("tool", disk)
    <3>1. /\ proc'.exe = "tool"
          /\ proc'.phase \in {"idle", "cleanup", "write"}
          /\ proc'.phase = "write" => proc'.next = "idle"
      BY <1>1, <2>2, BootRole
    <3> QED BY <2>1, <2>2, <3>1 DEF Whole
  <2>3. CASE proc' = Recover(proc)
    <3>1. proc'.phase = "write" /\ proc'.next = "idle" /\ proc'.exe = proc.exe
      BY <1>1, <2>3, RecoverTyped
    <3> QED BY <2>1, <3>1 DEF Whole
  <2> QED BY <1>9, <2>2, <2>3 DEF Relaunch
<1>10. CASE RemoveUpdater
  <2>1. proc.exe = "tool" /\ Whole(tool)
    BY <1>10 DEF RemoveUpdater
  <2>2. proc'.phase = "cleanTool" /\ proc'.exe = "tool" /\ UNCHANGED tool
    BY <1>1, <1>10, <2>1, PhaseTyped DEF RemoveUpdater, Phases
  <2> QED BY <2>1, <2>2 DEF Whole
<1>11. CASE RemoveNewTool
  <2>1. proc.exe = "tool" /\ Whole(tool)
    BY <1>11 DEF RemoveNewTool
  <2>2. /\ proc'.phase = "write" /\ proc'.next = "idle" /\ proc'.exe = "tool"
        /\ UNCHANGED tool
    BY <1>11, <2>1, RemoveNewToolTyped DEF RemoveNewTool
  <2> QED BY <2>1, <2>2 DEF Whole
<1> QED BY <1>2, <1>3, <1>4, <1>5, <1>6, <1>7, <1>8, <1>9, <1>10, <1>11 DEF ProcessStep

LEMMA StartDamage ==
  ASSUME StartInv, proc.phase # "off", Damage
  PROVE  Startable'
<1> USE DEF StartInv, RunsWhole, Roles, Startable
<1>1. proc.exe \in {"tool", "updater"}
  BY DEF TypeOK, Processes
<1>2. CASE UNCHANGED <<tool, updater>>
  BY <1>1, <1>2 DEF Whole
<1>3. CASE proc.exe = "tool" /\ UNCHANGED tool
  BY <1>3 DEF Whole
<1>4. CASE proc.exe = "updater" /\ UNCHANGED updater
  BY <1>4 DEF Whole
<1> QED BY <1>2, <1>3, <1>4 DEF Damage

LEMMA StartStep ==
  ASSUME StartInv, [Next]_vars
  PROVE  StartInv'
<1> USE DEF RunsWhole, Roles, Startable
<1>1. TypeOK'
  BY TypeStep DEF StartInv
<1>2. SUFFICES RunsWhole' /\ Roles' /\ Startable'
  BY <1>1 DEF StartInv
<1>3. /\ proc \in Processes /\ proc.exe \in {"tool", "updater"} /\ disk \in Settings
      /\ RunsWhole /\ Roles /\ Startable
  BY DEF StartInv, TypeOK, Processes
<1>4. CASE ProcessStep
  BY <1>4, StartProcessStep
<1>5. CASE UserStarts
  <2>1. UNCHANGED <<tool, updater>>
    BY <1>5 DEF UserStarts, storage
  <2>2. CASE Whole(tool) /\ proc' = Boot("tool", disk)
    BY <1>3, <2>1, <2>2, BootRole DEF Whole
  <2>3. CASE Whole(updater) /\ proc' = Boot("updater", disk)
    BY <1>3, <2>1, <2>3, BootRole DEF Whole
  <2> QED BY <1>5, <2>2, <2>3 DEF UserStarts
<1>6. CASE Quit
  <2>1. proc'.phase = "off" /\ UNCHANGED <<tool, updater>> /\ proc.phase # "off"
    BY <1>6, OffTyped DEF Quit, storage
  <2> QED BY <1>3, <2>1 DEF Whole
<1>7. CASE LauncherExits \/ NewRelease \/ NewToolVanishes \/ UNCHANGED vars
  <2>1. UNCHANGED <<proc, tool, updater>>
    BY <1>7 DEF LauncherExits, NewRelease, NewToolVanishes, vars, storage
  <2> QED BY <1>3, <2>1 DEF Whole
<1>8. CASE RequestInstall \/ CloseView \/ Downloaded
  <2>1. /\ UNCHANGED <<tool, updater>> /\ proc'.exe = proc.exe /\ proc.phase # "off"
        /\ proc'.phase \in {"download", "extract"} \/ proc'.phase = proc.phase
        /\ proc'.phase # "write"
    <3>1. CASE RequestInstall
      BY <1>3, <3>1 DEF RequestInstall, Processes, storage
    <3>2. CASE CloseView
      BY <1>3, <3>2 DEF CloseView, Processes, storage
    <3>3. CASE Downloaded
      BY <1>3, <3>3 DEF Downloaded, Processes, storage
    <3> QED BY <1>8, <3>1, <3>2, <3>3
  <2> QED BY <1>3, <2>1 DEF Whole
<1>9. CASE DownloadEnds \/ ExtractFails
  <2>1. /\ UNCHANGED <<tool, updater>> /\ proc'.exe = proc.exe /\ proc.phase # "off"
        /\ proc'.phase \in {"idle", "hidden"}
    BY <1>9, AfterErrorTyped DEF DownloadEnds, ExtractFails, storage, StartInv
  <2> QED BY <1>3, <2>1 DEF Whole
<1>10. CASE \E m \in Files \cup {"tool", "settings"} : Extract(m)
  <2>1. /\ UNCHANGED <<tool, updater>> /\ proc'.exe = proc.exe
        /\ proc'.phase = "extract" /\ proc.phase = "extract"
    BY <1>3, <1>10 DEF Extract, Processes
  <2> QED BY <1>3, <2>1 DEF Whole
<1>11. CASE CopyUpdater
  <2>1. /\ proc.exe = "tool" /\ Whole(tool) /\ UNCHANGED tool /\ updater' = tool
    BY <1>3, <1>11 DEF CopyUpdater
  <2>2. proc'.phase = "prepared" /\ proc'.exe = "tool"
    BY <1>3, <1>11, <2>1, PhaseTyped DEF CopyUpdater, Phases
  <2> QED BY <2>1, <2>2 DEF Whole
<1>12. CASE FinalizeInstall
  <2>1. UNCHANGED <<tool, updater>> /\ Whole(updater) /\ proc.phase # "off"
    BY <1>3, <1>12 DEF FinalizeInstall, storage
  <2>2. CASE proc' = RecordUpdate
    <3>1. proc'.phase = "write" /\ proc'.next = "launch" /\ proc'.exe = proc.exe
      BY <2>2, RecordUpdateTyped DEF StartInv
    <3> QED BY <1>3, <2>1, <3>1 DEF Whole
  <2>3. CASE proc' = [proc EXCEPT !.phase = "hidden"]
    <3>1. proc'.phase = "hidden" /\ proc'.exe = proc.exe
      BY <1>3, <2>3, PhaseTyped DEF Phases
    <3> QED BY <1>3, <2>1, <3>1 DEF Whole
  <2> QED BY <1>12, <2>2, <2>3 DEF FinalizeInstall
<1>13. CASE MoveFails
  <2>1. /\ UNCHANGED <<tool, updater>> /\ proc'.phase = "write" /\ proc'.next = "idle"
        /\ proc'.exe = proc.exe /\ proc.phase # "off"
    BY <1>3, <1>13, RecoverTyped DEF MoveFails
  <2> QED BY <1>3, <2>1 DEF Whole
<1>14. CASE Crash
  <2>1. Startable'
    <3>1. CASE Damage
      BY <1>14, <3>1, StartDamage DEF Crash
    <3>2. CASE UNCHANGED <<storage, disk>>
      BY <1>3, <1>14, <3>2 DEF Crash, storage, Whole
    <3> QED BY <1>14, <3>1, <3>2 DEF Crash
  <2>2. proc'.phase = "off"
    BY <1>14, OffTyped DEF Crash
  <2> QED BY <2>1, <2>2
<1> QED BY <1>4, <1>5, <1>6, <1>7, <1>8, <1>9, <1>10, <1>11, <1>12, <1>13, <1>14 DEF Next

\* However often an update is interrupted, and by whatever operation that fails, the
\* user can start the launch binary or the updater.
THEOREM SomethingStarts == Safety => []Startable
<1>1. StartInv => Startable
  BY DEF StartInv
<1> QED BY <1>1, StartInit, StartStep, PTL DEF Safety

------------------------------------------------------------------------------
(* No installed file is lost                                               *)

LEMMA LossInit == Init => LossInv
<1> SUFFICES ASSUME Init PROVE LossInv
  OBVIOUS
<1>1. proc.phase = "off" /\ disk.updating = FALSE
  <2>1. 1 \in 0 .. MaxVersion
    BY UpdateAssumption
  <2> QED BY <2>1, OffTyped, ReleaseSettingsTyped DEF Init
<1>2. ~Committed
  BY <1>1 DEF Committed
<1>3. \A f \in Files : cwd[f] # Absent /\ temp[f] # Broken
  <2>1. cwd = [f \in Files |-> 1] /\ temp = [f \in Files |-> Absent]
    BY DEF Init
  <2>2. 1 # Absent /\ Absent # Broken
    BY UpdateAssumption DEF Absent, Broken
  <2> QED BY <2>1, <2>2
<1>4. NothingLost /\ Restaged
  BY <1>3, UpdateAssumption DEF NothingLost, Restaged
<1>5. PendingKnown /\ StagedWhole /\ Extraction
  BY <1>1, <1>2 DEF PendingKnown, StagedWhole, Extraction
<1> QED BY <1>4, <1>5, TypeInit DEF LossInv

\* Neither the installed files nor the staged ones are touched.
LEMMA FilesKept ==
  ASSUME NothingLost, Restaged, UNCHANGED <<cwd, temp>>
  PROVE  NothingLost' /\ Restaged'
BY DEF NothingLost, Restaged, Whole

\* Extraction of a member, whole or not, loses no file and leaves no update pending.
LEMMA UnpackKeeps ==
  ASSUME LossInv, proc.phase = "extract", NEW m, NEW content \in Contents,
         content # Absent, Unpack(m, content)
  PROVE  /\ NothingLost' /\ Restaged' /\ disk'.updating = FALSE
         /\ content # Broken => \A f \in Files \ (proc.todo \ {m}) : temp'[f] # Broken
<1>1. /\ cwd \in [Files -> Contents] /\ temp \in [Files -> Contents]
      /\ disk.updating = FALSE /\ proc.target \in 0 .. MaxVersion
      /\ NothingLost /\ Restaged
      /\ \A f \in Files \ proc.todo : temp[f] # Broken
  BY DEF LossInv, TypeOK, PendingKnown, Extraction, Processes
<1>2. disk'.updating = FALSE
  BY <1>1, ReleaseSettingsTyped DEF Unpack
<1>3. CASE m \in Files /\ Denied(m) /\ temp' = [temp EXCEPT ![m] = content]
           /\ UNCHANGED cwd
  <2>1. cwd[m] # Absent /\ m \in Stubborn \cup Held
    BY <1>1, <1>3 DEF Denied, Restaged
  <2>2. \A f \in Files : temp'[f] = IF f = m THEN content ELSE temp[f]
    BY <1>1, <1>3
  <2>3. NothingLost'
    BY <1>1, <1>3, <2>1, <2>2 DEF NothingLost, Whole
  <2>4. Restaged'
    BY <1>1, <1>3, <2>1, <2>2 DEF Restaged
  <2> QED BY <1>1, <1>2, <2>2, <2>3, <2>4
<1>4. CASE m \in Files /\ ~Denied(m) /\ cwd' = [cwd EXCEPT ![m] = content]
           /\ UNCHANGED temp
  <2>1. \A f \in Files : cwd'[f] = IF f = m THEN content ELSE cwd[f]
    BY <1>1, <1>4
  <2>2. Restaged'
    BY <1>1, <1>4, <2>1, UpdateAssumption DEF Restaged
  <2>3. NothingLost'
    BY <1>1, <1>4, <2>1 DEF NothingLost, Whole
  <2>4. temp[m] # Broken
    <3>1. ~Whole(Broken)
      BY UpdateAssumption DEF Whole, Broken, Releases
    <3> QED BY <1>1, <1>4, <3>1 DEF Denied, Restaged, NothingLost
  <2> QED BY <1>1, <1>2, <1>4, <2>2, <2>3, <2>4
<1>5. CASE m \in {"tool", "settings"} /\ UNCHANGED <<cwd, temp>>
  BY <1>1, <1>2, <1>5, FilesKept, UpdateAssumption
<1> QED BY <1>3, <1>4, <1>5 DEF Unpack

\* A move begun while no staged file is broken removes only what it can replace.
LEMMA HalfMoveKeeps ==
  ASSUME LossInv, proc.phase = "moving", HalfMove, UNCHANGED temp
  PROVE  NothingLost' /\ Restaged'
<1>1. /\ cwd \in [Files -> Contents] /\ temp \in [Files -> Contents]
      /\ proc.todo \subseteq Files /\ NothingLost /\ Restaged
      /\ \A f \in Files : temp[f] # Broken
  BY DEF LossInv, TypeOK, Extraction, StagedWhole, Committed
<1>2. PICK f \in proc.todo : temp[f] # Absent /\ Removable(f) /\ cwd' = [cwd EXCEPT ![f] = Absent]
  BY DEF HalfMove
<1>3. Whole(temp[f])
  BY <1>1, <1>2, UpdateAssumption DEF Whole, Contents, Releases, Absent, Broken
<1>4. f \notin Stubborn
  BY <1>1, <1>2 DEF Removable, Restaged
<1>5. \A g \in Files : cwd'[g] = IF g = f THEN Absent ELSE cwd[g]
  BY <1>1, <1>2
<1>6. NothingLost'
  BY <1>1, <1>3, <1>5 DEF NothingLost, Whole
<1>7. Restaged'
  BY <1>1, <1>4, <1>5, UpdateAssumption DEF Restaged
<1> QED BY <1>6, <1>7

LEMMA MoveKeeps ==
  ASSUME LossInv, NEW f \in Files, Move(f)
  PROVE  NothingLost' /\ Restaged' /\ \A g \in Files : temp'[g] # Broken
<1>1. /\ cwd \in [Files -> Contents] /\ temp \in [Files -> Contents]
      /\ NothingLost /\ Restaged
      /\ \A g \in Files : temp[g] # Broken
  BY DEF LossInv, TypeOK, StagedWhole, Committed, Move
<1>2. CASE UNCHANGED <<cwd, temp>>
  BY <1>1, <1>2, FilesKept
<1>3. CASE /\ temp[f] # Absent
           /\ cwd' = [cwd EXCEPT ![f] = temp[f]] /\ temp' = [temp EXCEPT ![f] = Absent]
  <2>1. \A g \in Files : cwd'[g] = IF g = f THEN temp[f] ELSE cwd[g]
    BY <1>1, <1>3
  <2>2. \A g \in Files : temp'[g] = IF g = f THEN Absent ELSE temp[g]
    BY <1>1, <1>3
  <2>3. Absent # Broken
    BY UpdateAssumption DEF Absent, Broken
  <2>4. NothingLost'
    BY <1>1, <1>3, <2>1, <2>2 DEF NothingLost, Whole
  <2>5. Restaged'
    BY <1>1, <1>3, <2>1, <2>2, <2>3, UpdateAssumption DEF Restaged
  <2>6. \A g \in Files : temp'[g] # Broken
    BY <1>1, <2>2, <2>3
  <2> QED BY <2>4, <2>5, <2>6
<1> QED BY <1>2, <1>3 DEF Move

\* A process that starts, or recovers, commits to an update only if one is pending.
LEMMA BootKeeps ==
  ASSUME TypeOK, disk' = disk,
         proc' = Boot("tool", disk) \/ proc' = Boot("updater", disk)
  PROVE  PendingKnown' /\ Extraction' /\ (Committed' => disk.updating)
<1>1. disk \in Settings /\ disk.updating \in BOOLEAN /\ disk.files \subseteq Files
  BY DEF TypeOK, Settings
<1> DEFINE Fits(b) ==
       /\ b.mem = disk
       /\ \/ ~disk.updating /\ b.phase = "idle"
          \/ disk.updating /\ b.phase = "apply" /\ b.todo = disk.files
          \/ disk.updating /\ b.phase = "cleanup"
          \/ /\ b.phase = "write" /\ b.next = "idle" /\ b.plan.updating = FALSE
             /\ b.writes = <<"updating", "version">>
<1>2. Fits(Boot("tool", disk))
  BY <1>1, BootTyped
<1>3. Fits(Boot("updater", disk))
  BY <1>1, BootTyped
<1>4. Fits(proc')
  BY <1>2, <1>3
<1>5. CASE proc'.phase = "write" /\ proc'.writes = <<"updating", "version">>
           /\ proc'.next = "idle" /\ proc'.plan.updating = FALSE
  <2>1. 1 \in 1 .. Len(proc'.writes) /\ proc'.writes[1] = "updating"
    BY <1>5
  <2> QED BY <1>4, <1>5, <2>1 DEF PendingKnown, Extraction, Committed
<1>6. CASE proc'.phase # "write"
  BY <1>1, <1>4, <1>6 DEF PendingKnown, Extraction, Committed
<1> QED BY <1>4, <1>5, <1>6

LEMMA RecoverKeeps ==
  ASSUME TypeOK, PendingKnown, proc.phase # "off", disk' = disk, proc' = Recover(proc)
  PROVE  PendingKnown' /\ Extraction' /\ (Committed' => disk.updating)
<1>1. /\ proc'.phase = "write" /\ proc'.next = "idle" /\ proc'.plan.updating = FALSE
      /\ proc'.writes = <<"updating", "version">> /\ proc'.mem = proc.mem
  BY RecoverTyped DEF TypeOK
<1>2. 1 \in 1 .. Len(proc'.writes) /\ proc'.writes[1] = "updating"
  BY <1>1
<1>3. proc.mem.updating = disk.updating
  BY DEF PendingKnown
<1> QED BY <1>1, <1>2, <1>3 DEF PendingKnown, Extraction, Committed

\* A write sets updating only on the way to the updater; on the way to rest it ends
\* the update, or leaves the write that will.
LEMMA WriteNextKeeps ==
  ASSUME LossInv, WriteNext
  PROVE  PendingKnown' /\ Extraction' /\ (Committed' => Committed)
<1> DEFINE option == Head(proc.writes)
<1>1. /\ proc \in Processes /\ proc.writes \in Seq(Options) /\ proc.writes # <<>>
      /\ proc.phase = "write" /\ proc.mem.updating = disk.updating
  BY DEF LossInv, TypeOK, Processes, WriteNext, PendingKnown
<1>2. option \in Options /\ option = proc.writes[1]
  BY <1>1
<1>3. /\ proc'.phase = "write" /\ proc'.next = proc.next /\ proc'.plan = proc.plan
      /\ proc'.writes = Tail(proc.writes) /\ proc'.mem = disk'
  BY <1>1 DEF WriteNext, Processes
<1>4. /\ option = "updating" => disk'.updating = proc.plan.updating
      /\ option # "updating" => disk'.updating = disk.updating
  BY <1>1, <1>2, SetValueTyped DEF LossInv, WriteNext
<1> HIDE DEF option
<1>5. CASE proc.next = "idle"
  <2>1. /\ proc.plan.updating = FALSE
        /\ disk.updating => \E i \in 1 .. Len(proc.writes) : proc.writes[i] = "updating"
    BY <1>1, <1>5 DEF LossInv, PendingKnown
  <2>2. disk'.updating => disk.updating /\ option # "updating"
    BY <1>4, <2>1
  <2>3. disk'.updating => \E i \in 1 .. Len(proc'.writes) : proc'.writes[i] = "updating"
    <3>1. SUFFICES ASSUME disk'.updating
                   PROVE  \E i \in 1 .. Len(proc'.writes) : proc'.writes[i] = "updating"
      OBVIOUS
    <3>2. PICK i \in 1 .. Len(proc.writes) : proc.writes[i] = "updating"
      BY <2>1, <2>2, <3>1
    <3>3. i # 1
      BY <1>2, <2>2, <3>1, <3>2
    <3>4. i - 1 \in 1 .. Len(proc'.writes) /\ proc'.writes[i - 1] = "updating"
      BY <1>1, <1>3, <3>2, <3>3
    <3> QED BY <3>4
  <2> QED BY <1>1, <1>3, <1>5, <2>1, <2>2, <2>3 DEF PendingKnown, Extraction, Committed
<1>6. CASE proc.next \in {"launch", "relaunch"}
  BY <1>1, <1>3, <1>6 DEF PendingKnown, Extraction, Committed
<1> QED BY <1>1, <1>5, <1>6 DEF Processes

\* No new commitment: what holds of the staged files goes on holding.
LEMMA StagedKept ==
  ASSUME StagedWhole, Committed' => Committed, UNCHANGED temp
  PROVE  StagedWhole'
BY DEF StagedWhole

LEMMA LossProcessStep ==
  ASSUME LossInv, ProcessStep
  PROVE  NothingLost' /\ Restaged' /\ PendingKnown' /\ StagedWhole' /\ Extraction'
<1> USE DEF storage
<1>1. /\ TypeOK /\ NothingLost /\ Restaged /\ PendingKnown /\ StagedWhole /\ Extraction
      /\ proc \in Processes /\ disk.updating \in BOOLEAN
  BY DEF LossInv, TypeOK, Settings
<1>2. CASE WriteNext
  BY <1>1, <1>2, WriteNextKeeps, FilesKept, StagedKept DEF WriteNext
<1>3. CASE WritesDone
  <2>1. /\ proc'.phase = "idle" /\ proc'.mem = proc.mem /\ UNCHANGED <<cwd, temp, disk>>
        /\ proc.phase = "write" /\ proc.next = "idle" /\ Len(proc.writes) = 0
    BY <1>1, <1>3, PhaseTyped DEF WritesDone, Phases
  <2>2. disk.updating = FALSE /\ proc.mem.updating = disk.updating
    BY <1>1, <2>1 DEF PendingKnown
  <2>3. PendingKnown' /\ Extraction' /\ ~Committed'
    BY <2>1, <2>2 DEF PendingKnown, Extraction, Committed
  <2> QED BY <1>1, <2>1, <2>3, FilesKept, StagedKept
<1>4. CASE LaunchUpdater
  <2>1. UNCHANGED <<cwd, temp, disk>> /\ Committed /\ proc.phase = "write"
    BY <1>4 DEF LaunchUpdater, Committed
  <2>2. CASE proc' = Boot("updater", disk)
    BY <1>1, <2>1, <2>2, BootKeeps, FilesKept, StagedKept
  <2>3. CASE proc' = [proc EXCEPT !.phase = "hidden"]
    <3>1. proc'.phase = "hidden" /\ proc'.mem = proc.mem
      BY <1>1, <2>3, PhaseTyped DEF Phases
    <3>2. PendingKnown' /\ Extraction'
      BY <1>1, <2>1, <3>1 DEF PendingKnown, Extraction
    <3> QED BY <1>1, <2>1, <3>2, FilesKept, StagedKept
  <2> QED BY <1>4, <2>2, <2>3 DEF LaunchUpdater
<1>5. CASE EndLauncher
  <2>1. /\ proc.phase = "apply" /\ proc'.phase = "moving" /\ proc'.mem = proc.mem
        /\ proc'.todo = proc.todo /\ UNCHANGED <<cwd, temp, disk>>
    BY <1>1, <1>5, PhaseTyped DEF EndLauncher, Phases
  <2>2. PendingKnown' /\ Extraction' /\ Committed
    BY <1>1, <2>1 DEF PendingKnown, Extraction, Committed
  <2> QED BY <1>1, <2>1, <2>2, FilesKept, StagedKept
<1>6. CASE \E f \in Files : Move(f)
  <2>1. PICK f \in Files : Move(f)
    BY <1>6
  <2>2. /\ proc.phase = "moving" /\ proc'.phase = "moving" /\ proc'.mem = proc.mem
        /\ proc'.todo \subseteq proc.todo /\ UNCHANGED disk
    BY <1>1, <2>1 DEF Move, Processes
  <2>3. PendingKnown' /\ Extraction'
    BY <1>1, <2>2 DEF PendingKnown, Extraction
  <2>4. NothingLost' /\ Restaged' /\ \A g \in Files : temp'[g] # Broken
    BY <2>1, MoveKeeps
  <2> QED BY <2>3, <2>4 DEF StagedWhole
<1>7. CASE InstallTool
  <2>1. /\ proc.phase = "moving" /\ proc'.phase = "write" /\ proc'.next = "relaunch"
        /\ proc'.mem = proc.mem /\ UNCHANGED <<cwd, temp, disk>>
    BY <1>1, <1>7, InstallToolTyped DEF InstallTool
  <2>2. PendingKnown' /\ Extraction' /\ Committed
    BY <1>1, <2>1 DEF PendingKnown, Extraction, Committed
  <2> QED BY <1>1, <2>1, <2>2, FilesKept, StagedKept
<1>8. CASE GiveUp
  <2>1. /\ proc.phase = "moving" /\ proc'.phase = "write" /\ proc'.next = "idle"
        /\ proc'.plan.updating = FALSE /\ proc'.writes = <<"version", "updating">>
        /\ proc'.mem = proc.mem /\ UNCHANGED <<cwd, temp, disk>>
    BY <1>1, <1>8, ForsakenTyped DEF GiveUp
  <2>2. 2 \in 1 .. Len(proc'.writes) /\ proc'.writes[2] = "updating"
    BY <2>1
  <2>3. PendingKnown' /\ Extraction' /\ Committed
    BY <1>1, <2>1, <2>2 DEF PendingKnown, Extraction, Committed
  <2> QED BY <1>1, <2>1, <2>3, FilesKept, StagedKept
<1>9. CASE Relaunch
  <2>1. UNCHANGED <<cwd, temp, disk>> /\ Committed /\ proc.phase # "off"
    BY <1>9 DEF Relaunch, Committed
  <2>2. CASE proc' = Boot("tool", disk)
    BY <1>1, <2>1, <2>2, BootKeeps, FilesKept, StagedKept
  <2>3. CASE proc' = Recover(proc)
    BY <1>1, <2>1, <2>3, RecoverKeeps, FilesKept, StagedKept
  <2> QED BY <1>9, <2>2, <2>3 DEF Relaunch
<1>10. CASE RemoveUpdater
  <2>1. /\ proc.phase = "cleanup" /\ proc'.phase = "cleanTool" /\ proc'.mem = proc.mem
        /\ UNCHANGED <<cwd, temp, disk>>
    BY <1>1, <1>10, PhaseTyped DEF RemoveUpdater, Phases
  <2>2. PendingKnown' /\ Extraction' /\ (Committed' => Committed)
    BY <1>1, <2>1 DEF PendingKnown, Extraction, Committed
  <2> QED BY <1>1, <2>1, <2>2, FilesKept, StagedKept
<1>11. CASE RemoveNewTool
  <2>1. /\ proc.phase = "cleanTool" /\ proc'.phase = "write" /\ proc'.next = "idle"
        /\ proc'.plan.updating = FALSE /\ proc'.mem = proc.mem
        /\ proc'.writes = <<"updating", "hasTool", "files", "done">>
        /\ UNCHANGED <<cwd, temp, disk>>
    BY <1>1, <1>11, RemoveNewToolTyped DEF RemoveNewTool
  <2>2. 1 \in 1 .. Len(proc'.writes) /\ proc'.writes[1] = "updating"
    BY <2>1
  <2>3. PendingKnown' /\ Extraction' /\ (Committed' => Committed)
    BY <1>1, <2>1, <2>2 DEF PendingKnown, Extraction, Committed
  <2> QED BY <1>1, <2>1, <2>3, FilesKept, StagedKept
<1> QED BY <1>2, <1>3, <1>4, <1>5, <1>6, <1>7, <1>8, <1>9, <1>10, <1>11 DEF ProcessStep

\* A process that dies while extracting has no update pending; one that dies while
\* moving has only whole files staged.
LEMMA CrashKeeps ==
  ASSUME LossInv, Crash
  PROVE  NothingLost' /\ Restaged' /\ PendingKnown' /\ StagedWhole' /\ Extraction'
<1> USE DEF storage
<1>1. /\ NothingLost /\ Restaged /\ StagedWhole
      /\ proc'.phase = "off" /\ Broken \in Contents /\ Broken # Absent
  BY OffTyped, UpdateAssumption DEF LossInv, Crash, Broken, Contents, Absent
<1>2. PendingKnown' /\ Extraction' /\ (Committed' => disk'.updating)
  BY <1>1 DEF PendingKnown, Extraction, Committed
<1>3. CASE UNCHANGED <<cwd, temp, disk>>
  BY <1>1, <1>2, <1>3, FilesKept, StagedKept DEF Committed
<1>4. CASE proc.phase = "extract" /\ \E m \in proc.todo : Unpack(m, Broken)
  <2>1. NothingLost' /\ Restaged' /\ disk'.updating = FALSE
    BY <1>1, <1>4, UnpackKeeps
  <2> QED BY <1>2, <2>1 DEF StagedWhole
<1>5. CASE proc.phase = "moving" /\ HalfMove /\ UNCHANGED <<temp, disk>>
  BY <1>1, <1>2, <1>5, HalfMoveKeeps, StagedKept DEF Committed
<1> QED BY <1>3, <1>4, <1>5 DEF Crash, Damage

LEMMA LossStep ==
  ASSUME LossInv, [Next]_vars
  PROVE  LossInv'
<1> USE DEF storage
<1>1. SUFFICES NothingLost' /\ Restaged' /\ PendingKnown' /\ StagedWhole' /\ Extraction'
  BY TypeStep DEF LossInv
<1>2. /\ TypeOK /\ NothingLost /\ Restaged /\ PendingKnown /\ StagedWhole /\ Extraction
      /\ proc \in Processes /\ disk.updating \in BOOLEAN /\ latest \in Releases
  BY DEF LossInv, TypeOK, Settings
<1>3. CASE ProcessStep
  BY <1>3, LossProcessStep
<1>4. CASE UserStarts
  <2>1. UNCHANGED <<cwd, temp, disk>>
    BY <1>4 DEF UserStarts
  <2>2. PendingKnown' /\ Extraction' /\ (Committed' => disk.updating)
    BY <1>2, <1>4, <2>1, BootKeeps DEF UserStarts
  <2> QED BY <1>2, <2>1, <2>2, FilesKept, StagedKept DEF Committed
<1>5. CASE Quit
  <2>1. proc'.phase = "off" /\ UNCHANGED <<cwd, temp, disk>>
    BY <1>5, OffTyped DEF Quit
  <2>2. PendingKnown' /\ Extraction' /\ (Committed' => Committed)
    BY <2>1 DEF PendingKnown, Extraction, Committed
  <2> QED BY <1>2, <2>1, <2>2, FilesKept, StagedKept
<1>6. CASE LauncherExits \/ NewRelease \/ NewToolVanishes \/ UNCHANGED vars
  <2>1. UNCHANGED <<cwd, temp, disk, proc>>
    BY <1>6 DEF LauncherExits, NewRelease, NewToolVanishes, vars
  <2>2. PendingKnown' /\ Extraction' /\ (Committed' => Committed)
    BY <1>2, <2>1 DEF PendingKnown, Extraction, Committed
  <2> QED BY <1>2, <2>1, <2>2, FilesKept, StagedKept
<1>7. CASE RequestInstall
  <2>1. /\ proc.phase = "idle" /\ proc'.phase = "download" /\ proc'.target = latest
        /\ proc'.mem = proc.mem /\ UNCHANGED <<cwd, temp, disk>>
    BY <1>2, <1>7 DEF RequestInstall, Processes
  <2>2. PendingKnown' /\ Extraction' /\ (Committed' => Committed)
    BY <1>2, <2>1 DEF PendingKnown, Extraction, Committed
  <2> QED BY <1>2, <2>1, <2>2, FilesKept, StagedKept
<1>8. CASE CloseView
  <2>1. /\ proc.phase \in {"download", "extract", "prepared"} /\ proc'.phase = proc.phase
        /\ proc'.target = proc.target /\ proc'.todo = proc.todo
        /\ proc'.mem = proc.mem /\ UNCHANGED <<cwd, temp, disk>>
    BY <1>2, <1>8 DEF CloseView, Processes
  <2>2. PendingKnown' /\ Extraction' /\ (Committed' => Committed)
    BY <1>2, <2>1 DEF PendingKnown, Extraction, Committed
  <2> QED BY <1>2, <2>1, <2>2, FilesKept, StagedKept
<1>9. CASE DownloadEnds
  <2>1. /\ proc.phase = "download" /\ proc'.phase \in {"idle", "hidden"}
        /\ proc'.mem = proc.mem /\ UNCHANGED <<cwd, temp, disk>>
    BY <1>2, <1>9, AfterErrorTyped DEF DownloadEnds
  <2>2. PendingKnown' /\ Extraction' /\ (Committed' => Committed)
    BY <1>2, <2>1 DEF PendingKnown, Extraction, Committed
  <2> QED BY <1>2, <2>1, <2>2, FilesKept, StagedKept
<1>10. CASE Downloaded
  <2>1. /\ proc.phase = "download" /\ proc'.phase = "extract" /\ proc'.target = proc.target
        /\ Files \subseteq proc'.todo
        /\ proc'.mem = proc.mem /\ UNCHANGED <<cwd, temp, disk>>
    BY <1>2, <1>10 DEF Downloaded, Processes
  <2>2. PendingKnown' /\ Extraction' /\ (Committed' => Committed)
    BY <1>2, <2>1 DEF PendingKnown, Extraction, Committed
  <2> QED BY <1>2, <2>1, <2>2, FilesKept, StagedKept
<1>11. CASE \E m \in Files \cup {"tool", "settings"} : Extract(m)
  <2>1. PICK m \in Files \cup {"tool", "settings"} : Extract(m)
    BY <1>11
  <2>2. /\ proc.phase = "extract" /\ proc'.phase = "extract" /\ proc'.target = proc.target
        /\ proc'.todo = proc.todo \ {m} /\ proc'.mem = proc.mem
    BY <1>2, <2>1 DEF Extract, Processes
  <2>3. proc.target \in Contents /\ proc.target # Absent /\ proc.target # Broken
    BY <1>2, <2>2, UpdateAssumption DEF Extraction, Releases, Contents, Absent, Broken
  <2>4. /\ NothingLost' /\ Restaged' /\ disk'.updating = FALSE
        /\ \A f \in Files \ (proc.todo \ {m}) : temp'[f] # Broken
    BY <2>1, <2>2, <2>3, UnpackKeeps DEF Extract
  <2>5. PendingKnown' /\ Extraction' /\ StagedWhole'
    BY <1>2, <2>2, <2>4 DEF PendingKnown, Extraction, Committed, StagedWhole
  <2> QED BY <2>4, <2>5
<1>12. CASE ExtractFails
  <2>1. /\ proc.phase = "extract" /\ proc'.phase \in {"idle", "hidden"} /\ proc'.mem = proc.mem
    BY <1>2, <1>12, AfterErrorTyped DEF ExtractFails
  <2>2. Broken \in Contents /\ Broken # Absent
    BY UpdateAssumption DEF Broken, Contents, Absent
  <2>3. NothingLost' /\ Restaged' /\ disk'.updating = FALSE
    <3>1. CASE \E m \in proc.todo : Unpack(m, Broken)
      BY <2>1, <2>2, <3>1, UnpackKeeps
    <3>2. CASE UNCHANGED <<cwd, temp, disk>>
      BY <1>2, <2>1, <3>2, FilesKept DEF PendingKnown
    <3> QED BY <1>12, <3>1, <3>2 DEF ExtractFails
  <2>4. PendingKnown' /\ Extraction' /\ StagedWhole'
    BY <1>2, <2>1, <2>3 DEF PendingKnown, Extraction, Committed, StagedWhole
  <2> QED BY <2>3, <2>4
<1>13. CASE CopyUpdater
  <2>1. /\ proc.phase = "extract" /\ proc'.phase = "prepared" /\ proc'.mem = proc.mem
        /\ proc.todo = {} /\ UNCHANGED <<cwd, temp, disk>>
    BY <1>2, <1>13, PhaseTyped DEF CopyUpdater, Phases
  <2>2. PendingKnown' /\ Extraction' /\ StagedWhole'
    BY <1>2, <2>1 DEF PendingKnown, Extraction, Committed, StagedWhole
  <2> QED BY <1>2, <2>1, <2>2, FilesKept
<1>14. CASE FinalizeInstall
  <2>1. proc.phase = "prepared" /\ Committed /\ UNCHANGED <<cwd, temp, disk>>
    BY <1>14 DEF FinalizeInstall, Committed
  <2>2. /\ proc'.mem = proc.mem
        /\ proc'.phase \in {"write", "hidden"}
        /\ proc'.phase = "write" => proc'.next = "launch"
    BY <1>2, <1>14, RecordUpdateTyped, PhaseTyped DEF FinalizeInstall, Phases
  <2>3. PendingKnown' /\ Extraction'
    BY <1>2, <2>1, <2>2 DEF PendingKnown, Extraction
  <2> QED BY <1>2, <2>1, <2>3, FilesKept, StagedKept
<1>15. CASE MoveFails
  <2>1. /\ proc.phase = "moving" /\ Committed /\ UNCHANGED <<temp, disk>>
    BY <1>15 DEF MoveFails, Committed
  <2>2. NothingLost' /\ Restaged'
    BY <1>2, <1>15, <2>1, HalfMoveKeeps, FilesKept DEF MoveFails
  <2>3. PendingKnown' /\ Extraction' /\ StagedWhole'
    BY <1>2, <1>15, <2>1, RecoverKeeps, StagedKept DEF MoveFails
  <2> QED BY <2>2, <2>3
<1>16. CASE Crash
  BY <1>16, CrashKeeps
<1> QED BY <1>3, <1>4, <1>5, <1>6, <1>7, <1>8, <1>9, <1>10, <1>11, <1>12, <1>13,
           <1>14, <1>15, <1>16 DEF Next

\* An installed file that an interrupted or failed move removed is still staged, and
\* whole: a file broken by an interrupted extraction is never what replaces it.
THEOREM NothingIsLost == Safety => []NothingLost
<1>1. LossInv => NothingLost
  BY DEF LossInv
<1> QED BY <1>1, LossInit, LossStep, PTL DEF Safety

------------------------------------------------------------------------------
(* What the updater applies is complete                                    *)

\* Each file that can be replaced is of the release being installed, or staged as
\* one of these and of that release.
Brought(files) ==
  \A f \in Files \ Stubborn :
    \/ cwd[f] = newTool /\ (f \in files => temp[f] \in {Absent, newTool})
    \/ temp[f] = newTool /\ f \in files

\* Applying what the settings record, from the beginning, brings the release about.
Resumable ==
  disk.hasTool /\ newTool # Absent =>
    disk.waits /\ disk.version = newTool /\ Brought(disk.files)

\* What extraction has put in place so far.
Extracting ==
  proc.phase = "extract" =>
    /\ \A f \in Files \ (Stubborn \cup proc.todo) : cwd[f] = proc.target \/ f \in proc.staged
    /\ \A f \in proc.staged \ Stubborn : temp[f] = proc.target
    /\ "tool" \notin proc.todo => newTool = proc.target
    /\ "settings" \notin proc.todo => disk.version = proc.target

\* The files an update is recorded with are those that were staged, and they are
\* recorded by the time the updater starts.
Recording ==
  /\ proc.phase = "prepared" =>
       proc.exe = "tool" /\ disk.version = newTool /\ Brought(proc.staged)
  /\ proc.phase = "write" /\ proc.next = "launch" =>
       /\ proc.exe = "tool" /\ disk.version = newTool /\ Brought(proc.plan.files)
       /\ proc.plan.waits
       /\ \A i \in 1 .. Len(proc.writes) : proc.writes[i] # "version"
       /\ \/ \E i \in 1 .. Len(proc.writes) : proc.writes[i] = "files"
          \/ proc.mem.files = proc.plan.files /\ disk.files = proc.plan.files
       /\ \/ \E i \in 1 .. Len(proc.writes) : proc.writes[i] = "waits"
          \/ proc.mem.waits /\ disk.waits

\* The updater has done what is not left to do, and nothing keeps it from the rest.
Applying ==
  proc.phase \in {"apply", "moving"} =>
    /\ proc.mem = disk /\ proc.todo \subseteq disk.files
    /\ Resumable
    /\ disk.hasTool /\ newTool # Absent =>
         /\ proc.phase = "moving" => ~lingering
         /\ \A f \in Files \ (Stubborn \cup proc.todo) : cwd[f] = newTool

\* A broken launch binary is left only by an updater that can start again from the
\* beginning; it spoils the record of an update only after giving it up, or when there
\* is no new launch binary.
Restartable ==
  /\ ~Whole(tool) /\ disk.updating => Resumable
  /\ proc.phase = "write" /\ proc.next = "idle" /\ disk.updating =>
       \/ proc.writes # <<>> /\ Head(proc.writes) = "updating"
       \/ newTool = Absent
       \/ ~proc.mem.hasTool /\ ~proc.plan.hasTool

\* Nothing that an applied update has still to record touches the version.
Applied ==
  proc.phase = "write" /\ proc.next = "relaunch" =>
    /\ Whole(tool) /\ disk.version = tool /\ \A f \in Files \ Stubborn : cwd[f] = tool
    /\ \A i \in 1 .. Len(proc.writes) : proc.writes[i] # "version"

Completion == Extracting /\ Recording /\ Applying /\ Restartable /\ Applied

CompleteInv == StartInv /\ LossInv /\ Completion

LEMMA CompleteInit == Init => CompleteInv
<1> SUFFICES ASSUME Init PROVE CompleteInv
  OBVIOUS
<1>1. proc.phase = "off" /\ Whole(tool)
  <2>1. proc.phase = "off"
    BY OffTyped DEF Init
  <2>2. Whole(tool)
    BY UpdateAssumption DEF Init, Whole, Releases
  <2> QED BY <2>1, <2>2
<1>2. Completion
  BY <1>1 DEF Completion, Extracting, Recording, Applying, Restartable, Applied
<1> QED BY <1>2, StartInit, LossInit DEF CompleteInv

------------------------------------------------------------------------------
(* What steps have in common                                               *)

LEMMA ResumableKept ==
  ASSUME Resumable, UNCHANGED <<cwd, temp, newTool, disk>>
  PROVE  Resumable'
BY DEF Resumable, Brought

\* A step that leaves the files and the settings leaves a broken launch binary with
\* what it needs.
LEMMA RestartKept ==
  ASSUME Completion, UNCHANGED <<cwd, temp, newTool, disk>>, UNCHANGED tool \/ Whole(tool)'
  PROVE  ~Whole(tool)' /\ disk'.updating => Resumable'
BY ResumableKept DEF Completion, Restartable, Whole

\* Nothing but that is asked of a process that neither installs nor writes.
LEMMA CompleteElsewhere ==
  ASSUME proc'.phase \in {"off", "idle", "download", "cleanup", "cleanTool", "hidden"},
         ~Whole(tool)' /\ disk'.updating => Resumable'
  PROVE  Completion'
BY DEF Completion, Extracting, Recording, Applying, Restartable, Applied

\* A process that gives an update up, or ends it, writes that first.
LEMMA CompleteEnding ==
  ASSUME proc'.phase = "write", proc'.next = "idle",
         \/ proc'.writes # <<>> /\ Head(proc'.writes) = "updating"
         \/ newTool' = Absent
         \/ ~proc'.mem.hasTool /\ ~proc'.plan.hasTool,
         ~Whole(tool)' /\ disk'.updating => Resumable'
  PROVE  Completion'
BY DEF Completion, Extracting, Recording, Applying, Restartable, Applied

\* A recovery is such a process, and so is the tool that starts on an update that the
\* updater has not done.
LEMMA CompleteRecovering ==
  ASSUME NEW p \in Processes, proc' = Recover(p),
         ~Whole(tool)' /\ disk'.updating => Resumable'
  PROVE  Completion'
<1>1. proc'.phase = "write" /\ proc'.next = "idle" /\ proc'.writes = <<"updating", "version">>
  BY RecoverTyped
<1> QED BY <1>1, CompleteEnding

LEMMA CompleteToolStarts ==
  ASSUME TypeOK, proc' = Boot("tool", disk), UNCHANGED disk,
         ~Whole(tool)' /\ disk'.updating => Resumable'
  PROVE  Completion'
<1>1. disk \in Settings /\ disk.updating \in BOOLEAN
  BY DEF TypeOK, Settings
<1>2. CASE disk.updating /\ ~disk.done
  <2>1. /\ proc'.phase = "write" /\ proc'.next = "idle"
        /\ proc'.writes = <<"updating", "version">>
    BY <1>1, <1>2, BootTyped
  <2> QED BY <2>1, CompleteEnding
<1>3. CASE ~(disk.updating /\ ~disk.done)
  <2>1. proc'.phase \in {"idle", "cleanup"}
    BY <1>1, <1>3, BootTyped
  <2> QED BY <2>1, CompleteElsewhere
<1> QED BY <1>2, <1>3

\* An updater starts from the beginning.
LEMMA CompleteUpdaterStarts ==
  ASSUME TypeOK, proc' = Boot("updater", disk), UNCHANGED <<cwd, temp, newTool, disk>>,
         disk.updating => Resumable
  PROVE  Completion'
<1>1. disk \in Settings /\ disk.updating \in BOOLEAN /\ disk.files \subseteq Files
  BY DEF TypeOK, Settings
<1>2. disk.updating => Resumable'
  BY ResumableKept
<1>3. CASE disk.updating
  <2>1. proc'.phase = "apply" /\ proc'.mem = disk' /\ proc'.todo = disk'.files
    BY <1>1, <1>3, BootTyped
  <2>2. disk'.hasTool /\ newTool' # Absent =>
          \A f \in Files \ (Stubborn \cup proc'.todo) : cwd'[f] = newTool'
    BY <1>2, <1>3, <2>1 DEF Resumable, Brought
  <2>3. Applying'
    BY <1>2, <1>3, <2>1, <2>2 DEF Applying
  <2> QED BY <1>2, <1>3, <2>1, <2>3 DEF Completion, Extracting, Recording, Restartable, Applied
<1>4. CASE ~disk.updating
  <2>1. proc'.phase = "idle"
    BY <1>1, <1>4, BootTyped
  <2> QED BY <1>4, <2>1, CompleteElsewhere
<1> QED BY <1>3, <1>4

------------------------------------------------------------------------------
(* Writing the settings                                                    *)

\* What one write does to the options an updater goes by.
LEMMA SetValueOf ==
  ASSUME TypeOK, NEW option \in Options, SetValue(option)
  PROVE  /\ option # "version" => disk'.version = disk.version
         /\ disk'.hasTool = IF option = "hasTool" THEN proc.plan.hasTool ELSE proc.mem.hasTool
         /\ disk'.waits = IF option = "waits" THEN proc.plan.waits ELSE proc.mem.waits
         /\ disk'.files = IF option = "files" THEN proc.plan.files ELSE proc.mem.files
<1>1. proc.mem \in Settings /\ proc.plan \in Settings /\ disk \in Settings
  BY DEF TypeOK, Processes
<1> DEFINE base == [proc.mem EXCEPT !.version = disk.version]
<1>2. /\ base \in Settings /\ base.hasTool = proc.mem.hasTool /\ base.waits = proc.mem.waits
      /\ base.files = proc.mem.files /\ base.version = disk.version
  BY <1>1 DEF Settings
<1>3. disk' = [base EXCEPT ![option] = proc.plan[option]]
  BY <1>1 DEF SetValue, Settings
<1> HIDE DEF base
<1>4. option # "version" => disk'.version = disk.version
  BY <1>2, <1>3 DEF Settings, Options
<1>5. disk'.hasTool = IF option = "hasTool" THEN proc.plan.hasTool ELSE proc.mem.hasTool
  BY <1>1, <1>2, <1>3 DEF Settings, Options
<1>6. disk'.waits = IF option = "waits" THEN proc.plan.waits ELSE proc.mem.waits
  BY <1>1, <1>2, <1>3 DEF Settings, Options
<1>7. disk'.files = IF option = "files" THEN proc.plan.files ELSE proc.mem.files
  BY <1>1, <1>2, <1>3 DEF Settings, Options
<1> QED BY <1>4, <1>5, <1>6, <1>7

LEMMA CompleteWriteNext ==
  ASSUME CompleteInv, WriteNext
  PROVE  Completion'
<1> DEFINE option == Head(proc.writes)
<1>1. /\ TypeOK /\ Completion /\ proc.writes \in Seq(Options) /\ proc.writes # <<>>
      /\ proc.phase = "write" /\ proc \in Processes
      /\ UNCHANGED <<cwd, temp, tool, newTool, updater>>
  BY DEF CompleteInv, LossInv, TypeOK, Processes, WriteNext, storage
<1>2. option \in Options /\ option = proc.writes[1] /\ 1 \in 1 .. Len(proc.writes)
  BY <1>1
<1>3. /\ proc'.phase = "write" /\ proc'.next = proc.next /\ proc'.plan = proc.plan
      /\ proc'.writes = Tail(proc.writes) /\ proc'.mem = disk' /\ proc'.exe = proc.exe
  BY <1>1 DEF WriteNext, Processes
<1>4. /\ option # "version" => disk'.version = disk.version
      /\ disk'.hasTool = IF option = "hasTool" THEN proc.plan.hasTool ELSE proc.mem.hasTool
      /\ disk'.waits = IF option = "waits" THEN proc.plan.waits ELSE proc.mem.waits
      /\ disk'.files = IF option = "files" THEN proc.plan.files ELSE proc.mem.files
  BY <1>1, <1>2, SetValueOf DEF WriteNext
<1>5. /\ option = "updating" => disk'.updating = proc.plan.updating
      /\ option # "updating" => disk'.updating = disk.updating
  BY <1>1, <1>2, SetValueTyped DEF WriteNext, CompleteInv, LossInv, PendingKnown
<1>6. \A i \in 1 .. Len(proc'.writes) : i + 1 \in 1 .. Len(proc.writes)
                                      /\ proc'.writes[i] = proc.writes[i + 1]
  BY <1>1, <1>3
<1>7. \A i \in 1 .. Len(proc.writes) : i = 1 \/ (i - 1 \in 1 .. Len(proc'.writes)
                                               /\ proc'.writes[i - 1] = proc.writes[i])
  BY <1>1, <1>3
<1> HIDE DEF option
<1>8. CASE proc.next = "idle"
  <2>1. proc.plan.updating = FALSE
    BY <1>1, <1>8 DEF CompleteInv, LossInv, PendingKnown
  <2>2. CASE option = "updating" \/ ~disk.updating
    <3>1. disk'.updating = FALSE
      BY <1>1, <1>5, <2>1, <2>2 DEF TypeOK, Settings
    <3> QED BY <1>1, <1>3, <1>8, <3>1 DEF Completion, Extracting, Recording, Applying,
                                          Restartable, Applied
  <2>3. CASE option # "updating" /\ disk.updating
    <3>1. newTool = Absent \/ (~proc.mem.hasTool /\ ~proc.plan.hasTool)
      BY <1>1, <1>8, <2>3 DEF Completion, Restartable, option
    <3>2. newTool' = Absent \/ (~proc'.mem.hasTool /\ ~proc'.plan.hasTool)
      BY <1>1, <1>3, <1>4, <3>1
    <3>3. Resumable'
      BY <1>3, <3>2 DEF Resumable
    <3> QED BY <1>1, <1>3, <1>8, <3>2, <3>3, CompleteEnding
  <2> QED BY <2>2, <2>3
<1>9. CASE proc.next = "launch"
  <2>1. /\ proc.exe = "tool" /\ disk.version = newTool /\ Brought(proc.plan.files)
        /\ proc.plan.waits /\ option # "version"
        /\ \A i \in 1 .. Len(proc.writes) : proc.writes[i] # "version"
        /\ \/ \E i \in 1 .. Len(proc.writes) : proc.writes[i] = "files"
           \/ proc.mem.files = proc.plan.files
        /\ \/ \E i \in 1 .. Len(proc.writes) : proc.writes[i] = "waits"
           \/ proc.mem.waits
    BY <1>1, <1>2, <1>9 DEF Completion, Recording
  <2>2. Brought(proc.plan.files)'
    BY <1>1, <1>3, <2>1 DEF Brought
  <2>3. Whole(tool)'
    BY <1>1, <2>1 DEF CompleteInv, StartInv, RunsWhole, Whole
  <2>4. \/ \E i \in 1 .. Len(proc'.writes) : proc'.writes[i] = "files"
        \/ proc'.mem.files = proc'.plan.files /\ disk'.files = proc'.plan.files
    BY <1>2, <1>3, <1>4, <1>7, <2>1
  <2>5. \/ \E i \in 1 .. Len(proc'.writes) : proc'.writes[i] = "waits"
        \/ proc'.mem.waits /\ disk'.waits
    BY <1>2, <1>3, <1>4, <1>7, <2>1
  <2>6. Recording'
    BY <1>1, <1>3, <1>4, <1>6, <1>9, <2>1, <2>2, <2>4, <2>5 DEF Recording
  <2> QED BY <1>1, <1>3, <1>9, <2>3, <2>6 DEF Completion, Extracting, Applying, Restartable,
                                             Applied
<1>10. CASE proc.next = "relaunch"
  <2>1. /\ disk.version = tool /\ option # "version"
        /\ \A f \in Files \ Stubborn : cwd[f] = tool
        /\ \A i \in 1 .. Len(proc.writes) : proc.writes[i] # "version"
    BY <1>1, <1>2, <1>10 DEF Completion, Applied
  <2>2. Whole(tool)'
    BY <1>1, <1>10 DEF Completion, Applied, Whole
  <2> QED BY <1>1, <1>3, <1>4, <1>6, <1>10, <2>1, <2>2
             DEF Completion, Extracting, Recording, Applying, Restartable, Applied
<1> QED BY <1>1, <1>8, <1>9, <1>10 DEF Processes

------------------------------------------------------------------------------
(* The steps of a process                                                  *)

\* The processes an installation writes its settings as.
LEMMA RecordUpdateOf ==
  ASSUME TypeOK
  PROVE  /\ RecordUpdate.plan.files = proc.staged /\ RecordUpdate.plan.waits
         /\ RecordUpdate.writes = <<"updating", "hasTool", "versionOld", "files", "waits">>
<1>1. PICK plan : plan = [proc.mem EXCEPT !.updating = TRUE, !.hasTool = TRUE,
                                          !.versionOld = proc.mem.version,
                                          !.files = proc.staged, !.waits = TRUE]
  BY Zenon
<1>2. PICK options : options = <<"updating", "hasTool", "versionOld", "files", "waits">>
  BY Zenon
<1>3. proc \in Processes /\ proc.mem \in Settings /\ proc.staged \in SUBSET Files
  BY DEF TypeOK, Processes
<1>4. plan \in Settings /\ plan.files = proc.staged /\ plan.waits
  BY <1>1, <1>3 DEF Settings
<1>5. options \in Seq(Options)
  BY <1>2 DEF Options
<1>6. RecordUpdate = Writing(proc, plan, options, "launch")
  BY <1>1, <1>2, Zenon DEF RecordUpdate
<1>7. RecordUpdate.plan = plan /\ RecordUpdate.writes = options
  BY <1>3, <1>4, <1>5, <1>6, WritingTyped, SMTT(30)
<1> QED BY <1>2, <1>4, <1>7

LEMMA InstallToolOf ==
  ASSUME TypeOK, InstallTool
  PROVE  proc'.writes = <<"waits", "done">>
<1>1. PICK plan : plan = [proc.mem EXCEPT !.waits = TRUE, !.done = TRUE]
  BY Zenon
<1>2. PICK options : options = <<"waits", "done">>
  BY Zenon
<1>3. proc \in Processes /\ proc.mem \in Settings
  BY DEF TypeOK, Processes
<1>4. plan \in Settings
  BY <1>1, <1>3 DEF Settings
<1>5. options \in Seq(Options)
  BY <1>2 DEF Options
<1>6. proc' = Writing(proc, plan, options, "relaunch")
  BY <1>1, <1>2, Zenon DEF InstallTool
<1>7. proc'.writes = options
  BY <1>3, <1>4, <1>5, <1>6, WritingTyped, SMTT(30)
<1> QED BY <1>2, <1>7

LEMMA ForsakenOf ==
  ASSUME TypeOK
  PROVE  Forsaken.plan.hasTool = proc.mem.hasTool
<1>1. PICK plan : plan = [proc.mem EXCEPT !.version = proc.mem.versionOld, !.updating = FALSE]
  BY Zenon
<1>2. PICK options : options = <<"version", "updating">>
  BY Zenon
<1>3. proc \in Processes /\ proc.mem \in Settings
  BY DEF TypeOK, Processes
<1>4. plan \in Settings /\ plan.hasTool = proc.mem.hasTool
  BY <1>1, <1>3 DEF Settings
<1>5. options \in Seq(Options)
  BY <1>2 DEF Options
<1>6. Forsaken = Writing(proc, plan, options, "idle")
  BY <1>1, <1>2, Zenon DEF Forsaken
<1>7. Forsaken.plan = plan
  BY <1>3, <1>4, <1>5, <1>6, WritingTyped, SMTT(30)
<1> QED BY <1>4, <1>7

\* A staged file is moved when nothing keeps the installed one, and is the release's.
LEMMA CompleteMove ==
  ASSUME CompleteInv, NEW f \in Files, Move(f)
  PROVE  Completion'
<1>1. /\ TypeOK /\ Completion /\ proc \in Processes /\ proc.phase = "moving"
      /\ cwd \in [Files -> Contents] /\ temp \in [Files -> Contents]
      /\ UNCHANGED <<tool, newTool, disk, lingering>>
  BY DEF CompleteInv, LossInv, TypeOK, Move
<1>2. /\ proc'.phase = "moving" /\ proc'.mem = proc.mem /\ proc'.todo = proc.todo \ {f}
  BY <1>1 DEF Move, Processes
<1>3. /\ proc.mem = disk /\ proc.todo \subseteq disk.files /\ Resumable
      /\ disk.hasTool /\ newTool # Absent =>
           /\ ~lingering
           /\ \A g \in Files \ (Stubborn \cup proc.todo) : cwd[g] = newTool
  BY <1>1 DEF Completion, Applying
<1>4. /\ \A g \in Files \ {f} : cwd'[g] = cwd[g] /\ temp'[g] = temp[g]
      /\ IF temp[f] # Absent /\ Removable(f)
         THEN cwd'[f] = temp[f] /\ temp'[f] = Absent
         ELSE cwd'[f] = cwd[f] /\ temp'[f] = temp[f]
  BY <1>1 DEF Move
<1>5. f \in proc.todo
  BY DEF Move
<1>6. ASSUME disk.hasTool, newTool # Absent
      PROVE  /\ disk.waits /\ disk.version = newTool
             /\ f \notin Stubborn =>
                  cwd'[f] = newTool /\ temp'[f] \in {Absent, newTool}
             /\ \A g \in Files \ Stubborn :
                  \/ cwd'[g] = newTool /\ (g \in disk.files => temp'[g] \in {Absent, newTool})
                  \/ temp'[g] = newTool /\ g \in disk.files
  <2>1. disk.waits /\ disk.version = newTool /\ Brought(disk.files) /\ ~lingering
    BY <1>3, <1>6 DEF Resumable
  <2>2. f \notin Stubborn => cwd'[f] = newTool /\ temp'[f] \in {Absent, newTool}
    <3>1. f \notin Stubborn => Removable(f) /\ (temp[f] = newTool \/ cwd[f] = newTool)
                               /\ temp[f] \in {Absent, newTool}
      BY <1>3, <1>5, <2>1 DEF Removable, Brought
    <3> QED BY <1>4, <1>6, <3>1
  <2> QED BY <1>3, <1>4, <1>5, <2>1, <2>2 DEF Brought
<1>7. Resumable'
  BY <1>1, <1>6 DEF Resumable, Brought
<1>8. Applying'
  <2>1. disk.hasTool /\ newTool # Absent =>
          \A g \in Files \ (Stubborn \cup (proc.todo \ {f})) : cwd'[g] = newTool
    BY <1>3, <1>4, <1>6
  <2> QED BY <1>1, <1>2, <1>3, <1>7, <2>1 DEF Applying
<1> QED BY <1>2, <1>7, <1>8 DEF Completion, Extracting, Recording, Restartable, Applied

LEMMA CompleteProcessStep ==
  ASSUME CompleteInv, ProcessStep
  PROVE  Completion'
<1> USE DEF storage
<1>1. TypeOK /\ Completion /\ proc \in Processes /\ RunsWhole /\ Roles
  BY DEF CompleteInv, StartInv, LossInv, TypeOK
<1>2. CASE WriteNext
  BY <1>2, CompleteWriteNext
<1>3. CASE WritesDone
  <2>1. proc'.phase = "idle" /\ UNCHANGED <<cwd, temp, tool, newTool, disk>>
    BY <1>1, <1>3, PhaseTyped DEF WritesDone, Phases
  <2> QED BY <1>1, <2>1, RestartKept, CompleteElsewhere
<1>4. CASE LaunchUpdater
  <2>1. /\ UNCHANGED <<cwd, temp, tool, newTool, disk>>
        /\ proc.phase = "write" /\ proc.next = "launch" /\ Len(proc.writes) = 0
    BY <1>4 DEF LaunchUpdater
  <2>2. CASE proc' = Boot("updater", disk)
    <3>1. /\ disk.version = newTool /\ Brought(proc.plan.files)
          /\ disk.files = proc.plan.files /\ disk.waits
      BY <1>1, <2>1 DEF Completion, Recording
    <3>2. Resumable
      BY <3>1 DEF Resumable
    <3> QED BY <1>1, <2>1, <2>2, <3>2, CompleteUpdaterStarts
  <2>3. CASE proc' = [proc EXCEPT !.phase = "hidden"]
    <3>1. proc'.phase = "hidden"
      BY <1>1, <2>3, PhaseTyped DEF Phases
    <3> QED BY <1>1, <2>1, <3>1, RestartKept, CompleteElsewhere
  <2> QED BY <1>4, <2>2, <2>3 DEF LaunchUpdater
<1>5. CASE EndLauncher
  <2>1. /\ proc.phase = "apply" /\ proc'.phase = "moving" /\ proc'.mem = proc.mem
        /\ proc'.todo = proc.todo /\ UNCHANGED <<cwd, temp, tool, newTool, disk>>
        /\ lingering' = (lingering /\ ~proc.mem.waits)
    BY <1>1, <1>5, PhaseTyped DEF EndLauncher, Phases
  <2>2. /\ proc.mem = disk /\ proc.todo \subseteq disk.files /\ Resumable
        /\ disk.hasTool /\ newTool # Absent =>
             \A g \in Files \ (Stubborn \cup proc.todo) : cwd[g] = newTool
    BY <1>1, <2>1 DEF Completion, Applying
  <2>3. disk.hasTool /\ newTool # Absent => ~lingering'
    BY <2>1, <2>2 DEF Resumable
  <2>4. Resumable'
    BY <2>1, <2>2, ResumableKept
  <2>5. Applying'
    BY <2>1, <2>2, <2>3, <2>4 DEF Applying
  <2> QED BY <2>1, <2>4, <2>5 DEF Completion, Extracting, Recording, Restartable, Applied
<1>6. CASE \E f \in Files : Move(f)
  BY <1>6, CompleteMove
<1>7. CASE InstallTool
  <2>1. /\ proc.phase = "moving" /\ proc.todo = {} /\ proc.mem.hasTool /\ newTool # Absent
        /\ tool' = newTool /\ UNCHANGED <<cwd, disk>>
    BY <1>7 DEF InstallTool
  <2>2. /\ proc'.phase = "write" /\ proc'.next = "relaunch"
        /\ proc'.writes = <<"waits", "done">>
    BY <1>1, <1>7, InstallToolTyped, InstallToolOf
  <2>3. /\ disk.version = newTool /\ \A f \in Files \ Stubborn : cwd[f] = newTool
    BY <1>1, <2>1 DEF Completion, Applying, Resumable
  <2>4. Whole(tool)'
    <3>1. disk.version \in 0 .. MaxVersion
      BY <1>1 DEF TypeOK, Settings
    <3> QED BY <2>1, <2>3, <3>1, UpdateAssumption DEF Whole, Releases, Absent
  <2>5. \A i \in 1 .. Len(proc'.writes) : proc'.writes[i] # "version"
    BY <2>2
  <2>6. Applied'
    BY <2>1, <2>3, <2>4, <2>5 DEF Applied
  <2> QED BY <2>2, <2>4, <2>6 DEF Completion, Extracting, Recording, Applying, Restartable
<1>8. CASE GiveUp
  <2>1. /\ proc'.phase = "write" /\ proc'.next = "idle" /\ proc'.mem = proc.mem
        /\ proc'.plan.hasTool = proc.mem.hasTool
        /\ UNCHANGED <<cwd, temp, tool, newTool, disk>>
        /\ ~(proc.mem.hasTool /\ newTool # Absent)
    BY <1>1, <1>8, ForsakenTyped, ForsakenOf DEF GiveUp
  <2>2. newTool' = Absent \/ (~proc'.mem.hasTool /\ ~proc'.plan.hasTool)
    BY <2>1
  <2> QED BY <1>1, <2>1, <2>2, RestartKept, CompleteEnding
<1>9. CASE Relaunch
  <2>1. UNCHANGED <<cwd, temp, tool, newTool, disk>>
    BY <1>9 DEF Relaunch
  <2>2. ~Whole(tool)' /\ disk'.updating => Resumable'
    BY <1>1, <2>1, RestartKept
  <2> QED BY <1>1, <1>9, <2>1, <2>2, CompleteToolStarts, CompleteRecovering DEF Relaunch
<1>10. CASE RemoveUpdater
  <2>1. proc'.phase = "cleanTool" /\ UNCHANGED <<cwd, temp, tool, newTool, disk>>
    BY <1>1, <1>10, PhaseTyped DEF RemoveUpdater, Phases
  <2> QED BY <1>1, <2>1, RestartKept, CompleteElsewhere
<1>11. CASE RemoveNewTool
  <2>1. Whole(tool) /\ UNCHANGED tool
    BY <1>1, <1>11 DEF RemoveNewTool, Roles, RunsWhole
  <2>2. /\ proc'.phase = "write" /\ proc'.next = "idle"
        /\ proc'.writes = <<"updating", "hasTool", "files", "done">>
    BY <1>1, <1>11, RemoveNewToolTyped
  <2>3. proc'.writes # <<>> /\ Head(proc'.writes) = "updating"
    BY <2>2
  <2> QED BY <2>1, <2>2, <2>3, CompleteEnding DEF Whole
<1> QED BY <1>2, <1>3, <1>4, <1>5, <1>6, <1>7, <1>8, <1>9, <1>10, <1>11 DEF ProcessStep

------------------------------------------------------------------------------
(* Preparation, and what the environment does                              *)

\* A member that is extracted is where it belongs.
LEMMA CompleteExtract ==
  ASSUME CompleteInv, NEW m \in Files \cup {"tool", "settings"}, Extract(m)
  PROVE  Completion'
<1>1. /\ TypeOK /\ Completion /\ proc \in Processes /\ proc.phase = "extract"
      /\ cwd \in [Files -> Contents] /\ temp \in [Files -> Contents]
      /\ disk.updating = FALSE
      /\ UNCHANGED tool
  BY DEF CompleteInv, LossInv, TypeOK, Extract, PendingKnown
<1>2. /\ proc'.phase = "extract" /\ proc'.target = proc.target /\ proc'.todo = proc.todo \ {m}
      /\ proc'.staged = IF m \in Files /\ Denied(m) THEN proc.staged \cup {m} ELSE proc.staged
  BY <1>1 DEF Extract, Processes
<1>3. proc.target \in 0 .. MaxVersion /\ Unpack(m, proc.target)
  BY <1>1 DEF Extract, Processes
<1>4. /\ \A f \in Files \ {m} : cwd'[f] = cwd[f] /\ temp'[f] = temp[f]
      /\ m \in Files => IF Denied(m) THEN temp'[m] = proc.target
                                     ELSE cwd'[m] = proc.target /\ temp'[m] = temp[m]
  BY <1>1, <1>3, UpdateAssumption DEF Unpack
<1>5. /\ newTool' = IF m = "tool" THEN proc.target ELSE newTool
      /\ disk'.version = IF m = "settings" THEN proc.target ELSE disk.version
      /\ disk'.updating = FALSE
  BY <1>1, <1>3, ReleaseSettingsTyped, UpdateAssumption DEF Unpack, ReleaseSettings
<1>6. Extracting
  BY <1>1 DEF Completion
<1>7. Extracting'
  <2>1. \A f \in Files \ (Stubborn \cup proc'.todo) : cwd'[f] = proc.target \/ f \in proc'.staged
    <3> SUFFICES ASSUME NEW f \in Files, f \notin Stubborn, f \notin proc'.todo
                 PROVE  cwd'[f] = proc.target \/ f \in proc'.staged
      OBVIOUS
    <3>1. CASE f = m
      BY <1>2, <1>4, <3>1
    <3>2. CASE f # m
      BY <1>1, <1>2, <1>4, <1>6, <3>2 DEF Extracting
    <3> QED BY <3>1, <3>2
  <2>2. \A f \in proc'.staged \ Stubborn : temp'[f] = proc.target
    <3>1. proc.staged \subseteq Files
      BY <1>1 DEF Processes
    <3> QED BY <1>1, <1>2, <1>4, <1>6, <3>1 DEF Extracting
  <2>3. /\ "tool" \notin proc'.todo => newTool' = proc.target
        /\ "settings" \notin proc'.todo => disk'.version = proc.target
    BY <1>1, <1>2, <1>5, <1>6 DEF Extracting
  <2> QED BY <1>2, <2>1, <2>2, <2>3 DEF Extracting
<1> QED BY <1>2, <1>5, <1>7 DEF Completion, Recording, Applying, Restartable, Applied

\* An interrupted or failed move leaves an updater what it needs.
LEMMA HalfMoveResumable ==
  ASSUME CompleteInv, proc.phase = "moving", HalfMove, UNCHANGED <<temp, newTool, disk>>
  PROVE  Resumable'
<1>1. PICK f \in proc.todo : temp[f] # Absent /\ cwd' = [cwd EXCEPT ![f] = Absent]
  BY DEF HalfMove
<1>2. /\ proc.todo \subseteq disk.files /\ Resumable /\ cwd \in [Files -> Contents]
      /\ disk.files \subseteq Files
  BY DEF CompleteInv, LossInv, TypeOK, Settings, Completion, Applying
<1>3. ASSUME disk.hasTool, newTool # Absent
      PROVE  /\ disk.waits /\ disk.version = newTool
             /\ \A g \in Files \ Stubborn :
                  \/ cwd'[g] = newTool /\ (g \in disk.files => temp[g] \in {Absent, newTool})
                  \/ temp[g] = newTool /\ g \in disk.files
  <2>1. disk.waits /\ disk.version = newTool /\ Brought(disk.files)
    BY <1>2, <1>3 DEF Resumable
  <2>2. f \notin Stubborn => temp[f] = newTool /\ f \in disk.files
    BY <1>1, <1>2, <2>1 DEF Brought
  <2>3. \A g \in Files \ {f} : cwd'[g] = cwd[g]
    BY <1>1, <1>2
  <2> QED BY <2>1, <2>2, <2>3 DEF Brought
<1> QED BY <1>3 DEF Resumable, Brought

LEMMA CompleteStep ==
  ASSUME CompleteInv, [Next]_vars
  PROVE  CompleteInv'
<1> USE DEF storage
<1>1. SUFFICES Completion'
  BY StartStep, LossStep DEF CompleteInv
<1>2. /\ TypeOK /\ Completion /\ RunsWhole /\ Roles /\ PendingKnown
      /\ proc \in Processes /\ disk.updating \in BOOLEAN
  BY DEF CompleteInv, StartInv, LossInv, TypeOK, Settings
<1>3. CASE ProcessStep
  BY <1>3, CompleteProcessStep
<1>4. CASE UserStarts
  <2>1. UNCHANGED <<cwd, temp, tool, newTool, disk>>
    BY <1>4 DEF UserStarts
  <2>2. ~Whole(tool)' /\ disk'.updating => Resumable'
    BY <1>2, <2>1, RestartKept
  <2>3. CASE proc' = Boot("tool", disk)
    BY <1>2, <2>1, <2>2, <2>3, CompleteToolStarts
  <2>4. CASE ~Whole(tool) /\ proc' = Boot("updater", disk)
    <3>1. disk.updating => Resumable
      BY <1>2, <2>4 DEF Completion, Restartable
    <3> QED BY <1>2, <2>1, <2>4, <3>1, CompleteUpdaterStarts
  <2> QED BY <1>4, <2>3, <2>4 DEF UserStarts
<1>5. CASE Quit
  <2>1. proc'.phase = "off" /\ UNCHANGED <<cwd, temp, tool, newTool, disk>>
    BY <1>5, OffTyped DEF Quit
  <2> QED BY <1>2, <2>1, RestartKept, CompleteElsewhere
<1>6. CASE LauncherExits \/ NewRelease \/ UNCHANGED vars
  <2>1. /\ UNCHANGED <<cwd, temp, tool, newTool, disk, proc>>
        /\ ~lingering => ~lingering'
    BY <1>6 DEF LauncherExits, NewRelease, vars
  <2>2. Resumable => Resumable'
    BY <2>1, ResumableKept
  <2>3. Extracting' /\ Restartable' /\ Applied'
    BY <1>2, <2>1, <2>2 DEF Completion, Extracting, Restartable, Applied, Whole
  <2>4. Recording'
    BY <1>2, <2>1 DEF Completion, Recording, Brought
  <2>5. Applying'
    BY <1>2, <2>1, <2>2 DEF Completion, Applying
  <2> QED BY <2>3, <2>4, <2>5 DEF Completion
<1>7. CASE NewToolVanishes
  <2>1. /\ newTool' = Absent /\ UNCHANGED <<cwd, temp, tool, disk, proc, lingering>>
        /\ proc.phase \in {"apply", "moving"}
    BY <1>7 DEF NewToolVanishes
  <2>2. Resumable'
    BY <2>1 DEF Resumable
  <2>3. Applying'
    BY <1>2, <2>1, <2>2 DEF Completion, Applying
  <2> QED BY <2>1, <2>2, <2>3 DEF Completion, Extracting, Recording, Restartable, Applied
<1>8. CASE RequestInstall
  <2>1. proc'.phase = "download" /\ UNCHANGED <<cwd, temp, tool, newTool, disk>>
    BY <1>2, <1>8 DEF RequestInstall, Processes
  <2> QED BY <1>2, <2>1, RestartKept, CompleteElsewhere
<1>9. CASE CloseView
  <2>1. /\ proc.phase \in {"download", "extract", "prepared"} /\ proc'.phase = proc.phase
        /\ proc'.target = proc.target /\ proc'.todo = proc.todo /\ proc'.staged = proc.staged
        /\ proc'.exe = proc.exe /\ UNCHANGED <<cwd, temp, tool, newTool, disk>>
    BY <1>2, <1>9 DEF CloseView, Processes
  <2>2. ~Whole(tool)' /\ disk'.updating => Resumable'
    BY <1>2, <2>1, RestartKept
  <2>3. Extracting'
    BY <1>2, <2>1 DEF Completion, Extracting
  <2>4. Recording'
    BY <1>2, <2>1 DEF Completion, Recording, Brought
  <2> QED BY <2>1, <2>2, <2>3, <2>4 DEF Completion, Applying, Restartable, Applied
<1>10. CASE DownloadEnds
  <2>1. proc'.phase \in {"idle", "hidden"} /\ UNCHANGED <<cwd, temp, tool, newTool, disk>>
    BY <1>2, <1>10, AfterErrorTyped DEF DownloadEnds
  <2> QED BY <1>2, <2>1, RestartKept, CompleteElsewhere
<1>11. CASE Downloaded
  <2>1. /\ proc'.phase = "extract" /\ proc'.todo = Files \cup {"tool", "settings"}
        /\ proc'.staged = {} /\ UNCHANGED <<cwd, temp, tool, newTool, disk>>
    BY <1>2, <1>11 DEF Downloaded, Processes
  <2>2. ~Whole(tool)' /\ disk'.updating => Resumable'
    BY <1>2, <2>1, RestartKept
  <2> QED BY <2>1, <2>2 DEF Completion, Extracting, Recording, Applying, Restartable, Applied
<1>12. CASE \E m \in Files \cup {"tool", "settings"} : Extract(m)
  BY <1>12, CompleteExtract
<1>13. CASE ExtractFails
  <2>1. proc.phase = "extract" /\ proc'.phase \in {"idle", "hidden"}
    BY <1>2, <1>13, AfterErrorTyped DEF ExtractFails
  <2>2. disk'.updating = FALSE
    <3>1. proc.target \in 0 .. MaxVersion
      BY <1>2 DEF Processes
    <3> QED BY <1>2, <1>13, <2>1, <3>1, ReleaseSettingsTyped
            DEF ExtractFails, Unpack, PendingKnown
  <2> QED BY <2>1, <2>2, CompleteElsewhere
<1>14. CASE CopyUpdater
  <2>1. /\ proc.phase = "extract" /\ proc.todo = {} /\ proc.exe = "tool"
        /\ proc'.phase = "prepared" /\ proc'.exe = "tool" /\ proc'.staged = proc.staged
        /\ UNCHANGED <<cwd, temp, tool, newTool, disk>>
    BY <1>2, <1>14 DEF CopyUpdater, Processes
  <2>2. ~Whole(tool)' /\ disk'.updating => Resumable'
    BY <1>2, <2>1, RestartKept
  <2>3. /\ disk.version = newTool
        /\ \A f \in Files \ Stubborn : cwd[f] = newTool \/ f \in proc.staged
        /\ \A f \in proc.staged \ Stubborn : temp[f] = newTool
    BY <1>2, <2>1 DEF Completion, Extracting
  <2>4. Recording'
    BY <2>1, <2>3 DEF Recording, Brought
  <2> QED BY <2>1, <2>2, <2>4 DEF Completion, Extracting, Applying, Restartable, Applied
<1>15. CASE FinalizeInstall
  <2>1. /\ proc.phase = "prepared" /\ UNCHANGED <<cwd, temp, tool, newTool, disk>>
        /\ proc.exe = "tool" /\ disk.version = newTool /\ Brought(proc.staged)
    BY <1>2, <1>15 DEF FinalizeInstall, Completion, Recording
  <2>2. ~Whole(tool)' /\ disk'.updating => Resumable'
    BY <1>2, <2>1, RestartKept
  <2>3. CASE proc' = RecordUpdate
    <3>1. /\ proc'.phase = "write" /\ proc'.next = "launch" /\ proc'.exe = "tool"
          /\ proc'.plan.files = proc.staged /\ proc'.plan.waits
          /\ proc'.writes = <<"updating", "hasTool", "versionOld", "files", "waits">>
      BY <1>2, <2>1, <2>3, RecordUpdateTyped, RecordUpdateOf
    <3>2. /\ \A i \in 1 .. Len(proc'.writes) : proc'.writes[i] # "version"
          /\ \E i \in 1 .. Len(proc'.writes) : proc'.writes[i] = "files"
          /\ \E i \in 1 .. Len(proc'.writes) : proc'.writes[i] = "waits"
      <4>1. Len(proc'.writes) = 5 /\ proc'.writes[4] = "files" /\ proc'.writes[5] = "waits"
            /\ \A i \in 1 .. 5 : proc'.writes[i] # "version"
        BY <3>1
      <4> QED BY <4>1
    <3>3. Brought(proc.plan.files)'
      BY <2>1, <3>1 DEF Brought
    <3>4. Recording'
      BY <2>1, <3>1, <3>2, <3>3 DEF Recording
    <3> QED BY <2>2, <3>1, <3>4 DEF Completion, Extracting, Applying, Restartable, Applied
  <2>4. CASE proc' = [proc EXCEPT !.phase = "hidden"]
    <3>1. proc'.phase = "hidden"
      BY <1>2, <2>4, PhaseTyped DEF Phases
    <3> QED BY <2>2, <3>1, CompleteElsewhere
  <2> QED BY <1>15, <2>3, <2>4 DEF FinalizeInstall
<1>16. CASE MoveFails
  <2>1. /\ proc.phase = "moving" /\ UNCHANGED <<temp, newTool, tool, disk>>
        /\ HalfMove \/ UNCHANGED cwd
    BY <1>16 DEF MoveFails
  <2>2. ~Whole(tool)' /\ disk'.updating => Resumable'
    BY <1>2, <2>1, RestartKept, HalfMoveResumable
  <2> QED BY <1>2, <1>16, <2>2, CompleteRecovering DEF MoveFails
<1>17. CASE Crash
  <2>1. proc'.phase = "off"
    BY <1>17, OffTyped DEF Crash
  <2>2. ~Whole(tool)' /\ disk'.updating => Resumable'
    <3>1. CASE UNCHANGED <<cwd, temp, newTool, disk, tool>>
      BY <1>2, <3>1, RestartKept
    <3>2. CASE proc.phase = "extract" /\ \E m \in proc.todo : Unpack(m, Broken)
      <4>1. proc.target \in 0 .. MaxVersion
        BY <1>2 DEF Processes
      <4>2. disk'.updating = FALSE
        BY <1>2, <3>2, <4>1, ReleaseSettingsTyped DEF Unpack, PendingKnown
      <4> QED BY <4>2
    <3>3. CASE proc.phase = "moving" /\ HalfMove /\ UNCHANGED <<temp, newTool, disk>>
      BY <3>3, HalfMoveResumable
    <3>4. CASE proc.phase = "moving" /\ UNCHANGED <<cwd, temp, newTool, disk>>
      BY <1>2, <3>4, ResumableKept DEF Completion, Applying
    <3> QED BY <1>17, <3>1, <3>2, <3>3, <3>4 DEF Crash, Damage
  <2> QED BY <2>1, <2>2, CompleteElsewhere
<1> QED BY <1>3, <1>4, <1>5, <1>6, <1>7, <1>8, <1>9, <1>10, <1>11, <1>12, <1>13,
           <1>14, <1>15, <1>16, <1>17 DEF Next

\* An update that the updater has applied is complete: every file that can be replaced
\* at all is of the release of the new launch binary, and the version recorded is that
\* release's, whatever was interrupted or failed before.
THEOREM AppliedUpdateIsComplete == Safety => []AppliedIsComplete
<1>1. CompleteInv => AppliedIsComplete
  BY DEF CompleteInv, Completion, Applied, AppliedIsComplete
<1> QED BY <1>1, CompleteInit, CompleteStep, PTL DEF Safety
====
