-------------------------------- MODULE Install --------------------------------
(***************************************************************************)
(* What `rotten-apple install` (or `update`) and `rotten-apple boot-mode`  *)
(* do to a host: the binaries and the daemon's unit, the boot into the     *)
(* cockpit instead of the display manager, and the kernel command line of  *)
(* a host that was lifted by an early version. A run is a list of steps;   *)
(* an error or a kill ends it where it stands, except at the steps the     *)
(* code calls best-effort, which go on in silence. Runs follow one another *)
(* in any order.                                                           *)
(*                                                                         *)
(* The content of a file is the release whose code wrote it.               *)
(***************************************************************************)
EXTENDS Naturals, Sequences

CONSTANTS KnownDMs,     \* KNOWN_DMS: display managers, in the order of the probe
          NoDM,         \* no display manager
          Garbled,      \* a name that was cut off in the middle
          Releases,     \* bound: releases of the repository
          MaxBreaks     \* bound: steps that fail or are killed

DMs == {KnownDMs[i] : i \in 1..Len(KnownDMs)}

ASSUME InstallAssumption == /\ KnownDMs \in Seq(DMs)
                            /\ Releases \in Nat \ {0} /\ MaxBreaks \in Nat
                            /\ NoDM \notin DMs \cup {Garbled} /\ Garbled \notin DMs

Absent   == 0                \* no such file; or: the daemon is not running
Torn     == Releases + 1     \* a write that was cut off
Whole    == 1..Releases
Contents == 0..Releases + 1

VARIABLES release,    \* what a build in the repository gives now
          bin,        \* /usr/local/bin: the tool and the daemon
          unit,       \* the daemon's systemd unit
          enabled,    \* the unit is enabled
          daemon,     \* the binary the running daemon was started from
          dms,        \* the display managers installed
          masked,     \* the display managers masked
          override,   \* the getty@tty1 drop-in: its presence is the boot mode
          record,     \* boot-mode-state.toml: the display manager to unmask
          snippet,    \* /etc/default/grub.d/40-rotten-apple.cfg
          cmdline,    \* the snippet grub.cfg was generated from
          run,        \* the run of the tool: the latest, or the one under way
          freed,      \* `boot-mode desktop` runs in a row that met no failure
          breaks      \* how many steps have broken

hostVars == <<release, dms>>
binVars  == <<bin, unit, enabled, daemon>>
modeVars == <<masked, override, record>>
grubVars == <<snippet, cmdline>>
vars     == <<hostVars, binVars, modeVars, grubVars, run, freed, breaks>>

Underway   == run.left # <<>>
At(step)   == Underway /\ Head(run.left) = step
Completed(command) == run.command = command /\ ~Underway /\ ~run.broken

(* A host before its first install; an early version may have lifted it.    *)
Init == /\ release = 1
        /\ bin = [b \in {"cli", "daemon"} |-> Absent]
        /\ unit = Absent /\ enabled = FALSE /\ daemon = Absent
        /\ dms \in SUBSET DMs
        /\ masked = {} /\ override = Absent /\ record = NoDM
        /\ snippet \in {Absent, 1} /\ cmdline = snippet
        /\ run = [command |-> "none", left |-> <<>>, plan |-> 1, broken |-> TRUE, quiet |-> TRUE]
        /\ freed = 0 /\ breaks = 0

Start(command, steps, plan) ==
  /\ ~Underway
  /\ run' = [command |-> command, left |-> steps, plan |-> plan,
             broken |-> FALSE, quiet |-> TRUE]
  /\ UNCHANGED <<hostVars, binVars, modeVars, grubVars, breaks>>

(* install_system. The adjuncts are those beside the binary it is given.    *)
DaemonSteps == <<"stop", "daemon", "unit", "restart">>

InstallSteps(adjunct) ==
  <<"cli", "launcher">> \o (IF adjunct THEN DaemonSteps ELSE <<>>)
    \o <<"override", "snippet">> \o (IF adjunct THEN <<"smoke">> ELSE <<>>)

(* From a build in the repository; or from /usr/local/bin itself, where     *)
(* every copy is of a file onto itself, and is skipped.                     *)
StartInstall == Start("install", InstallSteps(TRUE), release) /\ UNCHANGED freed
StartUpdate  == /\ bin["cli"] \in Whole
                /\ Start("update", InstallSteps(bin["daemon"] # Absent), bin["cli"])
                /\ UNCHANGED freed

StartCockpit == /\ bin["cli"] \in Whole
                /\ Start("cockpit", <<"mask", "override", "record", "reload">>, bin["cli"])
                /\ freed' = 0
StartDesktop == /\ bin["cli"] \in Whole
                /\ Start("desktop", <<"unmask", "remove", "forget", "reload">>, bin["cli"])
                /\ UNCHANGED freed
StartRecover == /\ bin["cli"] \in Whole
                /\ Start("recover", <<"unmask", "remove", "forget", "reload", "unmask-all">>,
                         bin["cli"])
                /\ UNCHANGED freed

Step == [run EXCEPT !.left = Tail(@)]
(* A best-effort step that fails, and the run that does not mention it.     *)
StepLost == [Step EXCEPT !.quiet = FALSE]

Finishing == run' = Step /\ UNCHANGED breaks
Losing    == run' = StepLost /\ breaks < MaxBreaks /\ breaks' = breaks + 1

(* atomic_swap *)
Swap(b) == /\ At(b)
           /\ bin' = [bin EXCEPT ![b] = IF run.command = "update" THEN @ ELSE run.plan]
           /\ Finishing
           /\ UNCHANGED <<hostVars, unit, enabled, daemon, modeVars, grubVars, freed>>

Launcher == /\ At("launcher") /\ Finishing
            /\ UNCHANGED <<hostVars, binVars, modeVars, grubVars, freed>>

StopDaemon == /\ At("stop")
              /\ \/ daemon' = Absent /\ Finishing
                 \/ UNCHANGED daemon /\ Losing
              /\ UNCHANGED <<hostVars, bin, unit, enabled, modeVars, grubVars, freed>>

WriteUnit == /\ At("unit")
             /\ unit' = run.plan
             /\ Finishing
             /\ UNCHANGED <<hostVars, bin, enabled, daemon, modeVars, grubVars, freed>>

(* What comes up when the unit is started.                                  *)
Started == IF bin["daemon"] \in Whole /\ unit \in Whole THEN bin["daemon"] ELSE Absent

(* Mutant: `systemctl start`, which leaves a daemon that runs alone.        *)
StartedIfDown == IF daemon = Absent THEN Started ELSE daemon

Restarted == Started

(* Mutant: restarted, not enabled.                                          *)
RestartOnly == /\ At("restart")
               /\ daemon' = Restarted
               /\ Finishing
               /\ UNCHANGED <<hostVars, bin, unit, enabled, modeVars, grubVars, freed>>

RestartDaemon == /\ At("restart")
                 /\ enabled' = TRUE
                 /\ daemon' = Restarted
                 /\ Finishing
                 /\ UNCHANGED <<hostVars, bin, unit, modeVars, grubVars, freed>>

(* write_getty_override_with_font: of boot-mode cockpit always, of install  *)
(* only where there is one.                                                 *)
WriteOverride == /\ At("override")
                 /\ override' = IF run.command = "cockpit" \/ override # Absent
                                THEN run.plan ELSE Absent
                 /\ Finishing
                 /\ UNCHANGED <<hostVars, binVars, masked, record, grubVars, freed>>

(* refresh_xen_cmdline_if_present: nothing to do for a host without the     *)
(* snippet, and with one that is up to date. Of a snippet that was cut off  *)
(* the line with the sizes may be there or not: without it, it is left.     *)
Drift == IF snippet = Torn THEN BOOLEAN ELSE {snippet \notin {Absent, run.plan}}

RefreshSnippet == /\ At("snippet")
                  /\ \/ /\ TRUE \in Drift
                        /\ snippet' = run.plan
                        /\ run' = [run EXCEPT !.left = <<"update-grub">> \o Tail(@)]
                     \/ /\ FALSE \in Drift
                        /\ UNCHANGED snippet
                        /\ run' = Step
                  /\ UNCHANGED <<hostVars, binVars, modeVars, cmdline, freed, breaks>>

UpdateGrub == /\ At("update-grub")
              /\ cmdline' = snippet
              /\ Finishing
              /\ UNCHANGED <<hostVars, binVars, modeVars, snippet, freed>>

(* smoke_test_daemon: somebody answers on the socket.                       *)
SmokeTest == /\ At("smoke")
             /\ IF daemon # Absent THEN run' = Step
                ELSE run' = [run EXCEPT !.left = <<>>, !.broken = TRUE]
             /\ UNCHANGED <<hostVars, binVars, modeVars, grubVars, freed, breaks>>

(* detect_display_manager: the first one known that is installed.           *)
Installed == {i \in 1..Len(KnownDMs) : KnownDMs[i] \in dms}
Detected  == IF Installed = {} THEN NoDM
             ELSE KnownDMs[CHOOSE i \in Installed : \A j \in Installed : i <= j]

Mask == /\ At("mask")
        /\ \/ /\ Detected # NoDM
              /\ masked' = masked \cup {Detected}
              /\ Finishing
           \/ /\ Detected = NoDM                  \* nothing to mask, nothing to record
              /\ run' = [run EXCEPT !.left = <<"override", "reload">>]
              /\ UNCHANGED <<masked, breaks>>
        /\ UNCHANGED <<hostVars, binVars, override, record, grubVars, freed>>

(* systemctl cannot be spawned for the probe: taken for no display manager. *)
DetectFails == /\ At("mask") /\ breaks < MaxBreaks
               /\ run' = [run EXCEPT !.left = <<"override", "reload">>, !.quiet = FALSE]
               /\ breaks' = breaks + 1
               /\ UNCHANGED <<hostVars, binVars, modeVars, grubVars, freed>>

WriteRecord == /\ At("record")
               /\ record' = Detected
               /\ Finishing
               /\ UNCHANGED <<hostVars, binVars, masked, override, grubVars, freed>>

(* disable_cockpit_boot: the one recorded, or every one there is.           *)
(* Mutant: without a record nothing is unmasked.                            *)
OnlyRecorded == {record} \cap DMs

ToUnmask == IF record = NoDM THEN DMs ELSE {record} \cap DMs

Unmask == /\ At("unmask")
          /\ \/ masked' = masked \ ToUnmask /\ Finishing
             \/ /\ \E d \in ToUnmask : masked' = masked \ (ToUnmask \ {d})
                /\ Losing
          /\ UNCHANGED <<hostVars, binVars, override, record, grubVars, freed>>

(* remove_getty_override *)
Remove == /\ At("remove")
          /\ override' = Absent
          /\ Finishing
          /\ UNCHANGED <<hostVars, binVars, masked, record, grubVars, freed>>

(* The mutant of the removal of the state file: it stays.                   *)
Kept == record

Forgotten == NoDM

Forget == /\ At("forget")
          /\ \/ record' = Forgotten /\ Finishing
             \/ UNCHANGED record /\ Losing
          /\ UNCHANGED <<hostVars, binVars, masked, override, grubVars, freed>>

(* systemctl daemon-reload, the last step of both boot-mode commands.       *)
Reload == /\ At("reload") /\ Finishing
          /\ freed' = IF run.command = "cockpit" \/ ~run.quiet THEN 0
                      ELSE IF freed < 2 THEN freed + 1 ELSE freed
          /\ UNCHANGED <<hostVars, binVars, modeVars, grubVars>>

(* cmd_recover goes on when disable_cockpit_boot gives up.                  *)
StillToRecover == <<"unmask-all">>

DisableFails == /\ run.command = "recover" /\ (At("remove") \/ At("reload"))
                /\ breaks < MaxBreaks
                /\ run' = [run EXCEPT !.left = StillToRecover]
                /\ freed' = 0
                /\ breaks' = breaks + 1
                /\ UNCHANGED <<hostVars, binVars, modeVars, grubVars>>

(* ... and unmasks whatever is known, record or not.                        *)
UnmaskAll == /\ At("unmask-all")
             /\ \/ masked' = {} /\ Finishing
                \/ /\ \E d \in DMs : masked' = masked \cap {d}
                   /\ Losing
             /\ UNCHANGED <<hostVars, binVars, override, record, grubVars, freed>>

(* A step fails, or the tool dies in it. A copy may be cut off, or, while   *)
(* the old binary was running, stop between the renaming and the copy; a    *)
(* record that is cut off reads as none, or as a part of a name.            *)
Ruined(step, old) == {old} \cup (IF At(step) THEN {Torn} ELSE {})

Break == /\ Underway /\ breaks < MaxBreaks
         /\ \E b \in {"cli", "daemon"} :
              \E left \in {bin[b]} \cup (IF At(b) /\ run.command = "install"
                                         THEN {Torn, Absent} ELSE {}) :
                bin' = [bin EXCEPT ![b] = left]
         /\ unit' \in Ruined("unit", unit)
         /\ override' \in (IF run.command = "cockpit" \/ override # Absent
                          THEN Ruined("override", override) ELSE {override})
         /\ snippet' \in (IF TRUE \in Drift THEN Ruined("snippet", snippet) ELSE {snippet})
         /\ record' \in {record} \cup (IF At("record") THEN {NoDM, Garbled} ELSE {})
         /\ enabled' \in {enabled} \cup (IF At("restart") THEN {TRUE} ELSE {})
         /\ run' = [run EXCEPT !.left = <<>>, !.broken = TRUE]
         /\ freed' = IF run.command \in {"desktop", "recover"} THEN 0 ELSE freed
         /\ breaks' = breaks + 1
         /\ UNCHANGED <<hostVars, daemon, masked, cmdline>>

Tool == \/ \E b \in {"cli", "daemon"} : Swap(b)
        \/ Launcher \/ StopDaemon \/ WriteUnit \/ RestartDaemon
        \/ WriteOverride \/ RefreshSnippet \/ UpdateGrub \/ SmokeTest
        \/ Mask \/ WriteRecord \/ Unmask \/ Remove \/ Forget \/ Reload \/ UnmaskAll

(* The repository moves on.                                                 *)
NewRelease == /\ ~Underway /\ release < Releases
              /\ release' = release + 1
              /\ UNCHANGED <<dms, binVars, modeVars, grubVars, run, freed, breaks>>

InstallDM(d) == /\ ~Underway /\ d \notin dms
                /\ dms' = dms \cup {d}
                /\ UNCHANGED <<release, binVars, modeVars, grubVars, run, freed, breaks>>

(* systemd starts what is enabled.                                          *)
Reboot == /\ ~Underway
          /\ daemon' = IF enabled THEN Started ELSE Absent
          /\ UNCHANGED <<hostVars, bin, unit, enabled, modeVars, grubVars, run, freed, breaks>>

(* A kernel package calls update-grub.                                      *)
HostUpdatesGrub == /\ ~Underway /\ snippet # Torn
                   /\ cmdline' = snippet
                   /\ UNCHANGED <<hostVars, binVars, modeVars, snippet, run, freed, breaks>>

Next == \/ StartInstall \/ StartUpdate \/ StartCockpit \/ StartDesktop
        \/ StartRecover
        \/ Tool \/ DetectFails \/ DisableFails \/ Break
        \/ NewRelease \/ Reboot \/ HostUpdatesGrub \/ \E d \in DMs : InstallDM(d)

Spec == Init /\ [][Next]_vars

(* The tool never waits for anything; a user who wants the desktop back     *)
(* keeps asking for it, and installs the tool if it is gone.                *)
LiveSpec == Spec /\ WF_vars(Tool) /\ SF_vars(StartDesktop) /\ SF_vars(StartInstall)

-------------------------------------------------------------------------------

(* Types; and no daemon runs before its unit has been enabled.              *)
Steps == {"cli", "launcher", "stop", "daemon", "unit", "restart", "override",
          "snippet", "update-grub", "smoke", "mask", "record", "reload",
          "unmask", "remove", "forget", "unmask-all"}

TypeOK == /\ release \in 1..Releases
          /\ bin \in [{"cli", "daemon"} -> Contents]
          /\ unit \in Contents /\ enabled \in BOOLEAN
          /\ daemon \in Whole \cup {Absent}
          /\ daemon # Absent => enabled
          /\ dms \subseteq DMs /\ masked \subseteq DMs
          /\ override \in Contents /\ record \in DMs \cup {NoDM, Garbled}
          /\ snippet \in Contents /\ cmdline \in Contents
          /\ run \in [command : {"none", "install", "update", "cockpit", "desktop", "recover"},
                      left : Seq(Steps), plan : Whole, broken : BOOLEAN, quiet : BOOLEAN]
          /\ freed \in 0..2 /\ breaks \in 0..MaxBreaks

(* After an install from the repository that reports success, the daemon    *)
(* that runs is the one that was installed, whatever earlier runs left      *)
(* behind, and it is after the next boot ("a real bug pre-v0.0.3 where      *)
(* install left the old binary running", autowire.rs).                      *)
InstalledRuns == Completed("install") =>
                   /\ bin["cli"] = run.plan /\ bin["daemon"] = run.plan
                   /\ daemon = run.plan
                   /\ override \in {Absent, run.plan}

(* Two `boot-mode desktop` runs in a row that nothing went wrong in leave    *)
(* no display manager masked and nothing behind, whatever runs were broken  *)
(* off before and whatever display managers were installed meanwhile. One   *)
(* is not enough: it unmasks the recorded display manager only, and an      *)
(* earlier boot-mode cockpit may have masked another one. (A recover begins *)
(* like a boot-mode desktop and counts as one.)                             *)
TwoDesktopsFree == /\ freed >= 1 /\ ~Underway => override = Absent /\ record = NoDM
                   /\ freed = 2 /\ ~Underway => masked = {}

(* `recover`, the "one-command panic button" (cli/src/main.rs), frees every  *)
(* display manager at once where no unmasking fails, although its first half *)
(* gives up or finds a record that names another one.                       *)
RecoverFrees == Completed("recover") /\ run.quiet => masked = {}

(* A user who stops asking for the cockpit and keeps asking for the desktop  *)
(* gets it in the end: "disable must always succeed so the user can recover" *)
(* (boot_mode.rs).                                                           *)
DesktopReturns == []<><<StartCockpit>>_vars \/ <>[](masked = {} /\ override = Absent)

(* "This is how cmdline bug fixes propagate to a host that already lifted"   *)
(* (lib.rs): after an install that reports success grub.cfg has the command  *)
(* line of the snippet.                                                      *)
GrubFollowsSnippet == Completed("install") /\ snippet \in Whole => cmdline = snippet
===============================================================================
