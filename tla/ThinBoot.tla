------------------------------- MODULE ThinBoot -------------------------------
(***************************************************************************)
(* /init of the ThinDom0 image (render_init_script), the first process of  *)
(* the machine, up to the hand-off to tty1.  It runs one command after the *)
(* other and goes on whatever they return; what stops it is a command that *)
(* does not return and is not run under `timeout`, or a driver that takes  *)
(* the machine with it.                                                    *)
(*                                                                         *)
(* A line of the log names a step, or a device, and says how it went.      *)
(***************************************************************************)
EXTENDS Naturals

CONSTANT Devices  \* the PCI devices to load drivers for

ASSUME ThinBootAssumption == Devices \in Nat

VARIABLES
    machine, \* what is given: the command that hangs, the device whose driver kills the
             \* machine, the hints of the kernel's command line
    pc,      \* the step /init is at
    slot,    \* the device it is at
    fate,    \* "runs"; "hung" in a command, "parked" at a breakpoint; "wedged": the machine
    rescue,  \* there is a shell on tty2
    logged,  \* the boot file system is mounted and holds the log
    said,    \* the last line written
    disk,    \* the last line that is on the disk
    loaded,  \* Xen's modules are there
    xenstore,\* xenstored: "none", "starts", "up", "dead", "stuck"
    polls    \* how often it was asked

boot == <<machine, pc, slot, fate, rescue, logged, said, disk, loaded, xenstore, polls>>
control == <<xenstore, polls>>

POLLS == 10

Tools == {"storage", "bootfs", "coldplug", "bind", "xenmods", "xenstore", "pin", "dmesg"}
Timed == {"storage", "coldplug", "pin"}

Then == [early |-> "rescue", rescue |-> "storage", storage |-> "bootfs", bootfs |-> "coldplug",
         coldplug |-> "cmdline", cmdline |-> "bind", bind |-> "xenmods", xenmods |-> "xenstored",
         xenstored |-> "xenstore", xenstore |-> "pin", pin |-> "services", services |-> "dmesg",
         dmesg |-> "tty1"]

\* stage(): a line about a step, or about a device.
Line(step, says) == [step |-> step, device |-> 0, says |-> says]
DeviceLine(d, says) == [step |-> "coldplug", device |-> d, says |-> says]

BootInit ==
    /\ machine \in [hangs : Tools \cup {"none"}, kills : 0..Devices,
                    hides : BOOLEAN, pins : BOOLEAN, breaks : BOOLEAN]
    /\ pc = "early" /\ slot = 1 /\ fate = "runs" /\ rescue = FALSE /\ logged = FALSE
    /\ said = Line("early", "starting") /\ disk = Line("none", "none")
    /\ loaded = FALSE /\ xenstore = "none" /\ polls = 0

\* mutant: the line waits in the page cache for the file system's next commit
SaysUnsynced(line) == said' = line /\ UNCHANGED disk

\* stage(): the line is on the disk, once there is one, before the next command runs.
Says(line) == said' = line /\ disk' = IF logged THEN line ELSE disk

AtStep(step) == fate = "runs" /\ pc = step
Goes == pc' = Then[pc]
Quiet == UNCHANGED <<said, disk>>

\* mutant: the pin is run as it was, without `timeout`
HangsInPin(tool) == machine.hangs = tool /\ tool \notin Timed \ {"pin"}

\* A command that does not come back, and that nothing kills.
Hangs(tool) == machine.hangs = tool /\ tool \notin Timed

Returns(tool) == IF machine.hangs = tool THEN {"FAIL"} ELSE {"ok", "FAIL"}

\* try(): /init goes on whatever the command returns.
Try(tool) ==
    /\ AtStep(tool)
    /\ IF Hangs(tool)
       THEN fate' = "hung" /\ Quiet /\ UNCHANGED pc
       ELSE UNCHANGED fate /\ Goes /\ \E rc \in Returns(tool) : Says(Line(tool, rc))
    /\ UNCHANGED <<machine, slot, rescue, logged, control>>

Skip(step) == /\ AtStep(step) /\ Goes /\ Quiet
              /\ UNCHANGED <<machine, slot, fate, rescue, logged, loaded, control>>

-----------------------------------------------------------------------------
\* The mounts of the early file systems.
Early == /\ AtStep("early") /\ Goes /\ Says(Line("early", "ok"))
         /\ UNCHANGED <<machine, slot, fate, rescue, logged, loaded, control>>

\* The recovery shell on tty2.
Rescue == /\ AtStep("rescue") /\ Goes /\ Says(Line("rescue", "starting")) /\ rescue' = TRUE
          /\ UNCHANGED <<machine, slot, fate, logged, loaded, control>>

\* The drivers of the disks and xen_pciback, each under `timeout 10`.
Storage == Try("storage") /\ UNCHANGED loaded

\* mount_host_boot: twenty rounds, each mount under `timeout 5`, the remount for writing
\* under none; where that fails nobody looks, and the log is announced but not written.
BootFs == /\ AtStep("bootfs")
          /\ \/ /\ ~Hangs("bootfs") /\ Goes /\ logged' = TRUE /\ UNCHANGED fate
                /\ said' = Line("bootfs", "ok") /\ disk' = said'
             \/ /\ Goes /\ UNCHANGED <<fate, logged>>
                /\ \E rc \in {"ok", "FAIL"} : Says(Line("bootfs", rc))
             \/ Hangs("bootfs") /\ fate' = "hung" /\ Quiet /\ UNCHANGED <<pc, logged>>
          /\ UNCHANGED <<machine, slot, rescue, loaded, control>>

\* The line before the driver is loaded names the device.
Announced(d) == said = DeviceLine(d, "starting")

Announce == /\ AtStep("coldplug") /\ slot <= Devices /\ ~Announced(slot)
            /\ Says(DeviceLine(slot, "starting"))
            /\ UNCHANGED <<machine, pc, slot, fate, rescue, logged, loaded, control>>

\* Loading the driver returns, is killed after ten seconds, or is the end of the machine.
Load == /\ AtStep("coldplug") /\ slot <= Devices /\ Announced(slot)
        /\ IF machine.kills = slot
           THEN fate' = "wedged" /\ Quiet /\ UNCHANGED slot
           ELSE UNCHANGED fate /\ slot' = slot + 1 /\ \E rc \in Returns("coldplug") : Says(DeviceLine(slot, rc))
        /\ UNCHANGED <<machine, pc, rescue, logged, loaded, control>>

Coldplugged == slot > Devices /\ Skip("coldplug")

\* The command line is read; rotten_apple.break=before-xen stops here for good.
Cmdline == /\ AtStep("cmdline")
           /\ IF machine.breaks
              THEN fate' = "parked" /\ Says(Line("cmdline", "breakpoint")) /\ UNCHANGED pc
              ELSE UNCHANGED fate /\ Says(Line("cmdline", "ok")) /\ Goes
           /\ UNCHANGED <<machine, slot, rescue, logged, loaded, control>>

\* The GPU goes to pciback by writes to sysfs, if the command line names one.
Bind == IF machine.hides THEN Try("bind") /\ UNCHANGED loaded ELSE Skip("bind")

\* `modprobe -a`, not under `timeout`.
XenModules == Try("xenmods") /\ loaded' = (said' = Line("xenmods", "ok"))

\* xenstored dies without the modules; it can die with them, or not answer.
XenstoredStarts ==
    /\ AtStep("xenstored") /\ Goes /\ xenstore' = "starts" /\ Says(Line("xenstored", "starting"))
    /\ UNCHANGED <<machine, slot, fate, rescue, logged, loaded, polls>>

XenstoredSettles ==
    /\ xenstore = "starts" /\ fate # "wedged"
    /\ xenstore' \in IF ~loaded THEN {"dead"}
                     ELSE IF machine.hangs = "xenstore" THEN {"stuck"} ELSE {"up", "dead"}
    /\ UNCHANGED <<machine, pc, slot, fate, rescue, logged, said, disk, loaded, polls>>

\* The poll: `xenstore-exists`, up to ten times, none of them under `timeout`.
Ask == /\ AtStep("xenstore") /\ polls < POLLS
       /\ \/ xenstore = "stuck" /\ fate' = "hung" /\ UNCHANGED <<pc, polls, said, disk>>
          \/ xenstore = "up" /\ Goes /\ Says(Line("xenstore", "ready")) /\ UNCHANGED <<fate, polls>>
          \/ xenstore \in {"starts", "dead"} /\ polls' = polls + 1 /\ Quiet /\ UNCHANGED <<fate, pc>>
       /\ UNCHANGED <<machine, slot, rescue, logged, loaded, xenstore>>
GiveUp == /\ AtStep("xenstore") /\ polls = POLLS /\ Goes /\ Says(Line("xenstore", "not ready"))
          /\ UNCHANGED <<machine, slot, fate, rescue, logged, loaded, control>>

\* dom0's vCPU is pinned, if the command line names a CPU.
Pin == IF machine.pins THEN Try("pin") /\ UNCHANGED loaded ELSE Skip("pin")

\* The bridge, dhclient, dropbear and dom0-memd: in the background, or at once.
Services == /\ AtStep("services") /\ Goes /\ Says(Line("services", "starting"))
            /\ UNCHANGED <<machine, slot, fate, rescue, logged, loaded, control>>

\* dump_xen_logs: `xl dmesg`, if there is a log to write it to.
Dump == IF logged THEN Try("dmesg") /\ UNCHANGED loaded ELSE Skip("dmesg")

BootNext ==
    \/ Early \/ Rescue \/ Storage \/ BootFs \/ Announce \/ Load \/ Coldplugged \/ Cmdline \/ Bind
    \/ XenModules \/ XenstoredStarts \/ Ask \/ GiveUp \/ Pin \/ Services \/ Dump

\* The boot by itself, without the console it ends in.
BootSpec == BootInit /\ [][BootNext \/ XenstoredSettles]_boot

-----------------------------------------------------------------------------
\* "A boot that dies right here still names the device+driver that killed it": if a
\* driver wedges the machine after the log was mounted, the last line that reached the
\* disk names the device.
LastWord == fate = "wedged" /\ logged => disk = DeviceLine(machine.kills, "starting")
=============================================================================
