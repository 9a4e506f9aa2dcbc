------------------------------ MODULE GuestPlan ------------------------------
(***************************************************************************)
(* From a guest's manifest to what libxl is asked for: the checks of the   *)
(* manifest against a backend (manifest/src/lib.rs), the choice of the     *)
(* domain's mode (mode.rs), the plan of its configuration                  *)
(* (DomainConfigPlan::from_profile), and the manifest that a lift writes   *)
(* for the user's desktop (thin_dom0_manifest.rs). Pure functions.         *)
(*                                                                         *)
(* A source is a record [prefix, path], prefix one of "", "phy:", "file:"; *)
(* Nothing stands for an absent value everywhere. Sizes are in MB.         *)
(***************************************************************************)
EXTENDS Integers, Sequences

Nothing == [absent |-> TRUE]

-------------------------------------------------- (* primitive values *)

Units == [B |-> 1, K |-> 1024, M |-> 1024 * 1024]

(* parse_size_bytes of a decimal digits / 10^places; larger units alike.   *)
SizeBytes(digits, scale, unit) ==
    IF unit \in DOMAIN Units THEN (digits * Units[unit]) \div scale ELSE Nothing

Seconds == [s |-> 1, m |-> 60, h |-> 3600, d |-> 86400]

(* parse_duration_seconds, whose product wraps in 64 bits in a release     *)
(* build.                                                                  *)
DurationSeconds(digits, unit, wrap) ==
    IF unit \in DOMAIN Seconds THEN (digits * Seconds[unit]) % wrap ELSE Nothing

------------------------------------------- (* manifest against backend *)

XenCaps ==
    [hardware_tpm |-> FALSE, swtpm |-> TRUE, pci_at_boot |-> TRUE,
     attestation |-> FALSE, suspend |-> TRUE, usb |-> TRUE]
HypervCaps ==
    [hardware_tpm |-> FALSE, swtpm |-> TRUE, pci_at_boot |-> TRUE,
     attestation |-> TRUE, suspend |-> TRUE, usb |-> TRUE]

Disordered(r) ==
    {x \in {"minimum", "idle", "vcpus_minimum", "vcpus_idle"} :
        \/ x = "minimum"       /\ r.memory_minimum > r.memory_idle
        \/ x = "idle"          /\ r.memory_idle > r.memory_active
        \/ x = "vcpus_minimum" /\ r.vcpus_minimum > r.vcpus_idle
        \/ x = "vcpus_idle"    /\ r.vcpus_idle > r.vcpus_active}

Unsupported(p, caps) ==
    {x \in {"hardware_tpm", "swtpm", "pci", "attestation", "suspend", "usb"} :
        \/ x = "hardware_tpm" /\ p.tpm = "hardware-passthrough" /\ ~caps.hardware_tpm
        \/ x = "swtpm"        /\ p.tpm = "swtpm" /\ ~caps.swtpm
        \/ x = "pci"          /\ p.gpu.mode = "passthrough" /\ ~caps.pci_at_boot
        \/ x = "attestation"  /\ p.attestation_required /\ ~caps.attestation
        \/ x = "suspend"      /\ p.suspend_after_idle # Nothing /\ ~caps.suspend
        \/ x = "usb"          /\ p.usb.mode = "policy" /\ p.usb.routes # << >> /\ ~caps.usb}

ValidateAgainst(p, caps) == Disordered(p.resources) \cup Unsupported(p, caps)

(* policy_memory: a manifest that sets none of the four is manual only.    *)
PolicyMemory(m) ==
    IF /\ m.min_mb = Nothing /\ m.max_mb = Nothing
       /\ m.target_headroom_pct = Nothing /\ m.cooldown_s = Nothing
    THEN Nothing ELSE m

------------------------------------------------------ (* mode and plan *)

At(disk) == IF disk.source # Nothing THEN disk.source ELSE disk.path

(* select_mode; linux is the set of paths whose partitions lsblk shows     *)
(* with a Linux file system: the probe drops either prefix.                *)
SelectMode(p, linux) ==
    IF /\ p.tpm = "none"
       /\ At(p.root) # Nothing
       /\ At(p.root).path \in linux
    THEN "pvh" ELSE "hvm"

StripPhy(source) ==
    IF source.prefix = "phy:" THEN [source EXCEPT !.prefix = ""] ELSE source

PickFormat(kind) ==
    IF kind \in {"block", "raw-block", "phy", "raw", "raw-file"} THEN "raw"
    ELSE IF kind \in {"vhd", "vhdx"} THEN "vhd" ELSE "qcow2"
PickBackend(kind) == IF kind \in {"block", "raw-block", "phy"} THEN "phy" ELSE "qdisk"

IsReadonly(mode) == mode \in {"ro", "read-only", "ro-shared"}

(* The last letter of a disk's name: 'a' for the root disk, then 'b' and   *)
(* on, in eight bits.                                                      *)
Letter(i) == IF i = 1 THEN 97 ELSE (98 + (i - 2)) % 256

DiskPlan(disk, i) ==
    [source |-> StripPhy(At(disk)), vdev |-> Letter(i),
     readwrite |-> ~IsReadonly(disk.mode),
     format |-> PickFormat(disk.kind), backend |-> PickBackend(disk.kind)]

Disks(p) == <<p.root>> \o p.extra_disks

(* default_bridge_name_from: xenbr0 where it exists or nothing else does,  *)
(* else the first bridge by name.                                          *)
BridgeName(bridges) ==
    IF bridges = {} \/ "xenbr0" \in bridges THEN "xenbr0" ELSE CHOOSE b \in bridges : TRUE

PickDisplay(p, mode) ==
    IF p.gpu.mode \notin {"paravirt", "virtual"} THEN "none"
    ELSE IF mode = "hvm" THEN "hvm_vnc" ELSE "pv_vnc"

(* The early returns of from_profile; bdfs is the set of strings that      *)
(* parse as a PCI address.                                                 *)
PlanRefused(p, bdfs) ==
    \/ \E i \in 1 .. Len(Disks(p)) : At(Disks(p)[i]) = Nothing
    \/ p.gpu.mode = "passthrough" /\ p.gpu.device \notin bdfs

Plan(p, mode, bridges) ==
    [mode         |-> mode,
     max_vcpus    |-> p.resources.vcpus_active,
     target_memkb |-> p.resources.memory_active * 1024,
     max_memkb    |-> p.resources.memory_active * 1024,
     bootloader   |-> IF mode = "hvm" THEN Nothing ELSE "pygrub",
     disks        |-> [i \in 1 .. Len(Disks(p)) |-> DiskPlan(Disks(p)[i], i)],
     nics         |-> [i \in 1 .. Len(p.interfaces) |->
                          [bridge |-> BridgeName(bridges), ioemu |-> mode = "hvm"]],
     display      |-> PickDisplay(p, mode),
     pci          |-> IF p.gpu.mode = "passthrough" THEN <<p.gpu.device>> ELSE << >>]

-------------------------------------------- (* the desktop's manifest *)

DesktopVcpus == 4
DesktopMb    == 16 * 1024

DesktopGpu(gpu, display) ==
    IF display = "passthrough_if_available" /\ gpu # Nothing
    THEN [mode |-> "passthrough", device |-> gpu]
    ELSE [mode |-> "paravirt", device |-> Nothing]

Desktop(disk, gpu, display, tpm, autostart) ==
    [resources   |-> [memory_active |-> DesktopMb, memory_idle |-> DesktopMb \div 2,
                      memory_minimum |-> DesktopMb \div 4,
                      vcpus_active |-> DesktopVcpus, vcpus_idle |-> DesktopVcpus,
                      vcpus_minimum |-> 1],
     root        |-> [kind |-> "block", source |-> [prefix |-> "", path |-> disk],
                      path |-> Nothing, mode |-> "rw-exclusive"],
     extra_disks |-> << >>,
     interfaces  |-> <<"primary">>,
     gpu         |-> DesktopGpu(gpu, display),
     audio       |-> DesktopGpu(gpu, display).mode,
     usb         |-> [mode |-> "policy", routes |-> << >>],
     tpm         |-> tpm,
     autostart   |-> [enabled |-> autostart, delay |-> IF autostart THEN 5 ELSE Nothing],
     suspend_after_idle   |-> Nothing,
     attestation_required |-> FALSE]

(* render_active_manifest_for_dom0: what the image says of dom0 itself, at *)
(* the path where the tool looks for a manifest when it is given none.     *)
Dom0Manifest ==
    [resources   |-> [memory_active |-> 2048, memory_idle |-> 1024, memory_minimum |-> 768,
                      vcpus_active |-> 2, vcpus_idle |-> 1, vcpus_minimum |-> 1],
     root        |-> [kind |-> "block", source |-> [prefix |-> "", path |-> "/dev/ram0"],
                      path |-> Nothing, mode |-> "ro"],
     extra_disks |-> << >>,
     interfaces  |-> <<"primary">>,
     gpu         |-> [mode |-> "none", device |-> Nothing],
     audio       |-> Nothing,
     usb         |-> [mode |-> "policy", routes |-> << >>],
     tpm         |-> "none",
     autostart   |-> Nothing,
     suspend_after_idle   |-> Nothing,
     attestation_required |-> FALSE]

=============================================================================
