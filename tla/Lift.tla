--------------------------------- MODULE Lift ---------------------------------
(***************************************************************************)
(* `rotten-apple lift`: the run that puts a thin dom0 beside the host's    *)
(* Ubuntu, and its `--grub-only` recovery. A run is a list of steps, each  *)
(* of which overwrites one file in place or runs one command; an error or  *)
(* a kill at any step ends the run where it stands, and the operator runs  *)
(* it again. Around the tool, releases of the host's kernel and of the     *)
(* tool arrive, the firmware loses its boot entries, other packages call   *)
(* update-grub, and an EFI system partition turns up.                      *)
(*                                                                         *)
(* The content of a file is the release it was made from: an image, a      *)
(* configuration and a script of one release fit together.                 *)
(***************************************************************************)
EXTENDS Naturals, Sequences

CONSTANTS Releases,    \* bound: releases of the kernel and the tool
          MaxBreaks    \* bound: steps that fail, lose data or are killed

ASSUME LiftAssumption == Releases \in Nat \ {0} /\ MaxBreaks \in Nat

Absent   == 0                \* no such file
Torn     == Releases + 1     \* a write that was cut off, or lost a part
Contents == 0..Releases + 1

VARIABLES release,   \* the release that is running now
          esp,       \* an ESP is mounted and /boot has a xen-*.efi
          file,      \* /boot/rotten-apple, EFI/xen on the ESP, the manifest
          script,    \* /etc/grub.d/41_rotten_apple_thindom0
          grub,      \* our entries in grub.cfg: what script they came from
          nvram,     \* the firmware: is our entry there, who boots first
          run,       \* the run of the tool: the latest, or the one under way
          breaks,    \* how many steps have broken
          meant      \* history: who the firmware itself put first in its
                     \* order, and whether a run was cut off, or failed,
                     \* where it had that to put back

vars == <<release, esp, file, script, grub, nvram, run, breaks, meant>>

BootFiles == {"cpio", "kernel"}
EspFiles  == {"xen.efi", "vmlinuz", "initrd", "xen.cfg"}
Files     == BootFiles \cup EspFiles \cup {"manifest"}

(* The steps of execute() and execute_grub_only(), in their order. "build"  *)
(* stands for the packages and the root file system in its work directory,  *)
(* "entry" for the firmware's boot entry; creating it adds a step "order".  *)

(* Mutant: the script is made executable before it is written.              *)
ChmodFirst == <<"chmod", "script", "update-grub", "verify">>

GrubSteps == <<"script", "chmod", "update-grub", "verify">>
EspSteps  == <<"xen.efi", "vmlinuz", "initrd", "xen.cfg", "entry">>

(* Mutant: the ESP is staged before the files it is copied from.            *)
EspFirst == (IF esp THEN EspSteps ELSE <<>>) \o <<"build", "cpio", "kernel">>
              \o <<"manifest">> \o GrubSteps

LiftSteps == <<"build", "cpio", "kernel">> \o (IF esp THEN EspSteps ELSE <<>>)
               \o <<"manifest">> \o GrubSteps

(* Mutant: --grub-only without its look at the files.                       *)
AlwaysRecover == TRUE

CanRecover == \A f \in BootFiles : file[f] # Absent

Underway == run.left # <<>>
At(step) == Underway /\ Head(run.left) = step

(* The run of this command ended with its success message.                  *)
Completed(command) == run.command = command /\ ~Underway /\ ~run.broken

Run(command, steps) ==
  [command |-> command, left |-> steps, plan |-> release, esp |-> esp,
   found |-> nvram.first, broken |-> FALSE, warned |-> FALSE, lost |-> FALSE]

Init == /\ release = 1
        /\ esp \in BOOLEAN
        /\ file = [f \in Files |-> Absent]
        /\ script = [text |-> Absent, esp |-> FALSE, exec |-> FALSE]
        /\ grub = [text |-> Absent, esp |-> FALSE]
        /\ nvram \in [entry : {FALSE}, first : {"ubuntu", "unset"}]
        /\ run = [Run("none", <<>>) EXCEPT !.broken = TRUE]
        /\ breaks = 0
        /\ meant = [first |-> nvram.first, cut |-> FALSE]

Start(command, steps) == /\ ~Underway
                         /\ run' = Run(command, steps)
                         /\ UNCHANGED <<release, esp, file, script, grub, nvram, breaks, meant>>

StartLift     == Start("lift", LiftSteps)
StartGrubOnly == CanRecover /\ Start("grub-only", GrubSteps)

Advanced    == [run EXCEPT !.left = Tail(@)]
BreakLeft   == breaks < MaxBreaks
CountBreak  == breaks' = breaks + 1

(* What a step writes: the ESP takes copies of the files of /boot, whatever *)
(* they hold; the rest is made from the plan.                               *)
Source(f) == IF f = "vmlinuz" THEN file["kernel"]
             ELSE IF f = "initrd" THEN file["cpio"]
             ELSE run.plan

Build == /\ At("build")
         /\ run' = Advanced
         /\ UNCHANGED <<release, esp, file, script, grub, nvram, breaks, meant>>

Write(f) == /\ At(f)
            /\ file' = [file EXCEPT ![f] = Source(f)]
            /\ run' = Advanced
            /\ UNCHANGED <<release, esp, script, grub, nvram, breaks, meant>>

(* `find | cpio | gzip > out`: the status of the pipe is gzip's, so a cpio  *)
(* that dies in the middle leaves a short archive and no error.             *)
PackLoses == /\ At("cpio") /\ BreakLeft
             /\ file' = [file EXCEPT !["cpio"] = Torn]
             /\ run' = [Advanced EXCEPT !.lost = TRUE]
             /\ CountBreak
             /\ UNCHANGED <<release, esp, script, grub, nvram, meant>>

(* ensure_nvram_entry. An entry that is there is left alone, with whatever  *)
(* order the firmware has by now.                                           *)
EntryThere == /\ At("entry") /\ nvram.entry
              /\ run' = Advanced
              /\ UNCHANGED <<release, esp, file, script, grub, nvram, breaks, meant>>

(* Mutant: the order efibootmgr -c leaves behind is not put back.           *)
NothingToRestore(left) == left

ThenRestore(left) == IF nvram.first = "unset" THEN left ELSE <<"order">> \o left

(* efibootmgr -c puts the new entry in front.                               *)
CreateEntry == /\ At("entry") /\ ~nvram.entry
               /\ nvram' = [entry |-> TRUE, first |-> "xen"]
               /\ run' = [run EXCEPT !.left = ThenRestore(Tail(@))]
               /\ UNCHANGED <<release, esp, file, script, grub, breaks, meant>>

(* efibootmgr is missing or fails: the lift goes on without an entry.       *)
EntryFails == /\ At("entry") /\ BreakLeft
              /\ run' = Advanced
              /\ CountBreak
              /\ UNCHANGED <<release, esp, file, script, grub, nvram, meant>>

RestoreOrder == /\ At("order")
                /\ nvram' = [nvram EXCEPT !.first = run.found]
                /\ run' = Advanced
                /\ UNCHANGED <<release, esp, file, script, grub, breaks, meant>>

(* The order stays as it is, and the lift goes on after a warning.          *)
RestoreFails == /\ At("order") /\ BreakLeft
                /\ run' = [Advanced EXCEPT !.warned = TRUE]
                /\ meant' = [meant EXCEPT !.cut = TRUE]
                /\ CountBreak
                /\ UNCHANGED <<release, esp, file, script, grub, nvram>>

(* Mutant: a script that is there already is taken for done.                *)
KeptIfThere == IF script.text = Absent THEN run.plan ELSE script.text

Rendered == run.plan

WriteScript == /\ At("script")
               /\ script' = [script EXCEPT !.text = Rendered, !.esp = run.esp]
               /\ run' = Advanced
               /\ UNCHANGED <<release, esp, file, grub, nvram, breaks, meant>>

Chmod == /\ At("chmod")
         /\ script' = [script EXCEPT !.exec = TRUE]
         /\ run' = Advanced
         /\ UNCHANGED <<release, esp, file, grub, nvram, breaks, meant>>

(* update-grub runs the scripts that are executable and keeps the old       *)
(* grub.cfg when what they print does not parse.                            *)
Generated == IF script.exec THEN [text |-> script.text, esp |-> script.esp]
             ELSE [text |-> Absent, esp |-> FALSE]

(* A run that ends with an error.                                           *)
Failed == [run EXCEPT !.left = <<>>, !.broken = TRUE]

UpdateGrub == /\ At("update-grub")
              /\ grub' = IF Generated.text = Torn THEN grub ELSE Generated
              /\ run' = IF Generated.text = Torn THEN Failed ELSE Advanced
              /\ UNCHANGED <<release, esp, file, script, nvram, breaks, meant>>

Verify == /\ At("verify")
          /\ run' = IF grub.text = Absent THEN Failed ELSE Advanced
          /\ UNCHANGED <<release, esp, file, script, grub, nvram, breaks, meant>>

(* A step fails, or the tool dies in it: a file that was being written is   *)
(* as it was, or torn.                                                      *)
Break == /\ Underway /\ BreakLeft
         /\ \/ UNCHANGED <<file, script>>
            \/ /\ Head(run.left) \in Files
               /\ file' = [file EXCEPT ![Head(run.left)] = Torn]
               /\ UNCHANGED script
            \/ /\ At("script")
               /\ script' = [script EXCEPT !.text = Torn]
               /\ UNCHANGED file
         /\ meant' = [meant EXCEPT !.cut = @ \/ At("order")]
         /\ run' = Failed
         /\ CountBreak
         /\ UNCHANGED <<release, esp, grub, nvram>>

(* The host's own entries are gone from grub.cfg: the run fails, and ours   *)
(* stay there.                                                              *)
UbuntuMissing == /\ At("verify") /\ BreakLeft
                 /\ run' = Failed
                 /\ CountBreak
                 /\ UNCHANGED <<release, esp, file, script, grub, nvram, meant>>

Tool == \/ Build \/ \E f \in Files : Write(f)
        \/ EntryThere \/ CreateEntry \/ RestoreOrder
        \/ WriteScript \/ Chmod \/ UpdateGrub \/ Verify

(* A new kernel or tool, in use after a reboot.                             *)
NewRelease == /\ ~Underway /\ release < Releases
              /\ release' = release + 1
              /\ UNCHANGED <<esp, file, script, grub, nvram, run, breaks, meant>>

(* The ESP is mounted, or the Xen package begins to ship its .efi image.    *)
EspAppears == /\ ~Underway /\ ~esp
              /\ esp' = TRUE
              /\ UNCHANGED <<release, file, script, grub, nvram, run, breaks, meant>>

(* The firmware is reset: Ubuntu's loader registers itself again.           *)
FirmwareForgets == /\ ~Underway /\ nvram.entry
                   /\ nvram' = [entry |-> FALSE, first |-> "ubuntu"]
                   /\ meant' = [first |-> "ubuntu", cut |-> FALSE]
                   /\ UNCHANGED <<release, esp, file, script, grub, run, breaks>>

(* A kernel package calls update-grub, at any moment.                       *)
HostUpdatesGrub == /\ Generated.text # Torn
                   /\ grub' = Generated
                   /\ UNCHANGED <<release, esp, file, script, nvram, run, breaks, meant>>

Next == \/ StartLift \/ StartGrubOnly
        \/ Tool \/ PackLoses \/ EntryFails \/ RestoreFails \/ UbuntuMissing \/ Break
        \/ NewRelease \/ EspAppears \/ FirmwareForgets \/ HostUpdatesGrub

Spec == Init /\ [][Next]_vars

(* The tool never waits for anything, and the operator, whatever else they  *)
(* run, comes back to the lift.                                             *)
LiveSpec == Spec /\ WF_vars(Tool) /\ SF_vars(StartLift)

-------------------------------------------------------------------------------

Steps == Files \cup {"build", "entry", "order", "script", "chmod", "update-grub", "verify"}

(* Types; and the script is only executable once it exists.                 *)
TypeOK == /\ release \in 1..Releases
          /\ esp \in BOOLEAN
          /\ file \in [Files -> Contents]
          /\ script \in [text : Contents, esp : BOOLEAN, exec : BOOLEAN]
          /\ script.exec => script.text # Absent
          /\ grub \in [text : Contents \ {Torn}, esp : BOOLEAN]
          /\ nvram \in [entry : BOOLEAN, first : {"ubuntu", "xen", "unset"}]
          /\ run \in [command : {"none", "lift", "grub-only"}, left : Seq(Steps),
                      plan : 1..Releases, esp : BOOLEAN,
                      found : {"ubuntu", "xen", "unset"}, broken : BOOLEAN,
                      warned : BOOLEAN, lost : BOOLEAN]
          /\ breaks \in 0..MaxBreaks
          /\ meant \in [first : {"ubuntu", "unset"}, cut : BOOLEAN]

(* After a lift that reports success, everything the new entries boot is of *)
(* the release it was planned for, whatever earlier runs left half done --  *)
(* unless the pipe that packs the image lost a part of it, which the tool   *)
(* does not notice. Damaged or not, the ESP holds the kernel and the image  *)
(* of /boot/rotten-apple: "lift re-stages them on every run so the ESP      *)
(* can't silently go stale" (thin_dom0_efi.rs).                             *)
Written == BootFiles \cup {"manifest"} \cup (IF run.esp THEN EspFiles ELSE {})

LiftedIsWhole ==
  Completed("lift") =>
    /\ ~run.lost => \A f \in Written : file[f] = run.plan
    /\ run.esp => file["vmlinuz"] = file["kernel"] /\ file["initrd"] = file["cpio"]
    /\ grub = [text |-> run.plan, esp |-> run.esp]

(* There are never entries in grub.cfg before a kernel and an image have     *)
(* been written, however often runs break and whoever calls update-grub.     *)
EntriesAfterFiles == grub.text # Absent => \A f \in BootFiles : file[f] # Absent

(* Between runs the firmware boots first what it itself had put first, of    *)
(* however many runs and however broken: the order is out of place only from *)
(* a run that was cut off, or warned, right between creating the entry and   *)
(* restoring the order -- and then for good, since a later run finds its     *)
(* entry and leaves the order as it is. A firmware without a BootOrder has   *)
(* none to put back.                                                         *)
OrderKeptUnlessCut ==
  ~Underway /\ meant.first # "unset" /\ ~meant.cut => nvram.first = meant.first

(* What the code says of a lift that reports success and warns of nothing:   *)
(* "Ubuntu must stay the default boot" (thin_dom0_efi.rs).                   *)
UbuntuStaysDefault ==
  Completed("lift") /\ ~run.warned /\ meant.first = "ubuntu" => nvram.first = "ubuntu"

(* However runs break, what they leave behind never keeps the next one from  *)
(* completing: the operator who comes back to the lift gets it done.         *)
LiftConverges == []<>Completed("lift")

(* Of --grub-only the tool says, when it is done: "Reboot and pick the       *)
(* ThinDom0 entry to boot into it" (thin_dom0.rs); given the files it asks   *)
(* for, whole ones, the entries find everything they load.                   *)
Loads(entries) == IF entries.esp THEN EspFiles ELSE BootFiles

RecoveredEntriesLoad ==
  Completed("grub-only") /\ (\A f \in BootFiles \cup {"manifest"} : file[f] \in 1..Releases)
    => \A f \in Loads(grub) : file[f] # Absent
===============================================================================
