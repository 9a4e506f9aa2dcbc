------------------------------ MODULE HostPlan ------------------------------
(***************************************************************************)
(* What the tool concludes about a host before it lifts it: the split of   *)
(* memory and CPUs between dom0 and the user's desktop (planner.rs,        *)
(* topology.rs), which GPUs a guest may be given (gpu.rs), and what stands *)
(* in the way of a lift (Detection::classify, LiftReadiness::classify).    *)
(* The probes are pure functions of what they read, so the module has no   *)
(* behaviour of its own: its theorems, in Lift_proofs, hold for every host. *)
(*                                                                         *)
(* A topology is a record of three lists of CPU numbers. A host's PCI tree *)
(* is a record                                                             *)
(*    class    what each device is: "display", "storage", "bridge", ...    *)
(*    card     the address without the function digit (bdf_root)           *)
(*    group    the number of its IOMMU group, or NoGroup                   *)
(*    members  the devices each group directory lists                      *)
(*    fb       the device behind the first framebuffer, or NoGpu           *)
(***************************************************************************)
EXTENDS BootPlan

Guest == INSTANCE GuestPlan

NoGroup == -1
NoGpu   == "none"
NoMount == [luks |-> FALSE, fs |-> ""]

------------------------------------------------------------- (* memory *)

Lesser(a, b)  == IF a <= b THEN a ELSE b
Greater(a, b) == IF a >= b THEN a ELSE b
Less(a, b)    == Greater(a - b, 0)       \* saturating_sub

Dom0MinMb == 768
Dom0MaxMb == 4096
ReserveMb == 256
FloorMb   == 2048

Dom0Mb(total) ==
    Greater(Dom0MinMb, Lesser(Dom0MaxMb, ((((total * 3) \div 100) \div 64) * 64)))

ActiveMb(total) == Less(Less(total, Dom0Mb(total)), ReserveMb)
Share(active, part) == Lesser(Greater(active \div part, FloorMb), active)
IdleMb(total)    == Share(ActiveMb(total), 2)
MinimumMb(total) == Share(ActiveMb(total), 8)

--------------------------------------------------------------- (* CPUs *)

Dom0VcpuCap == 4

(* parse_cpulist: ranges whose ends are swapped are empty, what does not   *)
(* parse is skipped, the result is ascending and without repetition.       *)
CpuList(chunks) ==
    LET cpus == UNION {c.first .. c.last : c \in chunks}
    IN  CHOOSE s \in Seq(cpus) :
            /\ {s[i] : i \in 1 .. Len(s)} = cpus
            /\ \A i, j \in 1 .. Len(s) : i < j => s[i] < s[j]

Probe(core, atom, online, threads) ==
    [p   |-> CpuList(core),
     e   |-> CpuList(atom),
     all |-> IF CpuList(online) = << >>
             THEN CpuList({[first |-> 0, last |-> threads - 1]})
             ELSE CpuList(online)]

IsHybrid(topo) == topo.p # << >> /\ topo.e # << >>

Taken(s, n)   == [i \in 1 .. Lesser(n, Len(s)) |-> s[i]]
Skipped(s, n) == [i \in 1 .. Less(Len(s), n) |-> s[n + i]]

UniformDom0(topo) ==
    Lesser(Greater(1, Lesser(Dom0VcpuCap, Len(topo.all) \div 8)),
           Greater(Less(Len(topo.all), 1), 1))

Dom0Cpus(topo) == IF IsHybrid(topo) THEN Taken(topo.e, Dom0VcpuCap)
                                    ELSE Taken(topo.all, UniformDom0(topo))
DomUCpus(topo) == IF IsHybrid(topo) THEN topo.p
                                    ELSE Skipped(topo.all, UniformDom0(topo))

(* ThinDom0Plan::for_this_host pins its one vCPU to the first E-core, and  *)
(* to nothing where /sys shows a domain's view of the CPUs.                *)
ThinDom0Cpus(topo, underXen) == IF underXen THEN << >> ELSE Taken(topo.e, 1)

--------------------------------------------------------------- (* GPUs *)

Neighbours(host, d) == host.members[host.group[d]] \ {d}

(* A neighbour that stands in the way: no function of the same card and no *)
(* bridge (of any kind: is_pci_bridge looks at the class byte only).       *)
Foreign(host, d) ==
    {o \in Neighbours(host, d) : /\ o # host.fb
                                 /\ host.card[o] # host.card[d]
                                 /\ host.class[o] # "bridge"}

(* The roles compute_role may give: the group directory is read in no      *)
(* order, and the first neighbour in the way names the reason.             *)
Reasons(host, d) ==
    (IF host.fb \in Neighbours(host, d) THEN {"SharedWithFramebuffer"} ELSE {})
    \cup (IF Foreign(host, d) # {} THEN {"SharedWithPlatform"} ELSE {})

Roles(host, d) ==
    IF d = host.fb THEN {"Framebuffer"}
    ELSE IF host.group[d] = NoGroup \/ host.group[d] \notin DOMAIN host.members
         THEN {"IommuOff"}
    ELSE IF Reasons(host, d) = {} THEN {"Leasable"} ELSE Reasons(host, d)

Gpus(host) == {d \in DOMAIN host.class : host.class[d] = "display"}

(* framebuffer_gpu_bdf: the GPU that the lift hands to the user's desktop. *)
DesktopGpu(host) == IF host.fb \in Gpus(host) THEN host.fb ELSE NoGpu

(* framebuffer_gpu_driver: its driver, whose modules and firmware dom0 gets. *)
DesktopDriver(host, drivers) ==
    IF DesktopGpu(host) = NoGpu THEN None ELSE drivers[DesktopGpu(host)]

----------------------------------------------- (* what blocks a lift *)

DetectionBlockers(facts) ==
    {b \in {"arch", "xen", "boot"} :
        \/ b = "arch" /\ facts.arch # "x86_64"
        \/ b = "xen"  /\ facts.under_xen
        \/ b = "boot" /\ facts.boot_free_mb < 50}

DetectionWarnings(facts) ==
    {w \in {"distro", "bios", "secure_boot", "memory", "nvidia", "initramfs", "xen_unused", "boot",
         "root"} :
        \/ w = "distro"      /\ facts.distro \notin {"ubuntu", "debian"}
        \/ w = "bios"        /\ ~facts.uefi
        \/ w = "secure_boot" /\ facts.secure_boot
        \/ w = "memory"      /\ facts.total_mb > 0 /\ facts.total_mb < 16 * 1024
        \/ w = "nvidia"      /\ facts.nvidia_driver
        \/ w = "initramfs"   /\ ~facts.initramfs
        \/ w = "xen_unused"  /\ facts.xen_installed /\ ~facts.under_xen
        \/ w = "boot"        /\ facts.boot_free_mb \in 50 .. 127
        \/ w = "root"        /\ facts.root_free_mb < 500}

(* LiftReadiness: the group with the least number that holds a display     *)
(* controller is "the" GPU group; storage in it blocks the lift.           *)
DisplayGroups(host) ==
    {g \in DOMAIN host.members : \E d \in host.members[g] : host.class[d] = "display"}

GpuGroup(host) ==
    IF DisplayGroups(host) = {} THEN NoGroup
    ELSE CHOOSE g \in DisplayGroups(host) : \A h \in DisplayGroups(host) : g <= h

ReadinessBlockers(host) ==
    IF GpuGroup(host) = NoGroup THEN {}
    ELSE {d \in host.members[GpuGroup(host)] : host.class[d] = "storage"}

(* A mount's device and file system, seen from the tree of block devices;  *)
(* /boot that is no mount of its own is on the root file system.           *)
EffectiveBoot(mounts) ==
    IF mounts.boot # NoMount /\ mounts.boot # mounts.root THEN mounts.boot ELSE mounts.root

ReadinessWarnings(host, mounts, resume, grub) ==
    {w \in {"boot_luks", "root_luks", "boot_fs", "hibernation", "usb", "network",
            "no_display", "no_iommu", "no_grub"} :
        \/ w = "boot_luks"   /\ EffectiveBoot(mounts).luks
        \/ w = "root_luks"   /\ mounts.root.luks
        \/ w = "boot_fs"     /\ EffectiveBoot(mounts).fs \notin {"", "ext2", "ext3", "ext4", "vfat"}
        \/ w = "hibernation" /\ resume \notin {"", "0:0"}
        \/ /\ w \in {"usb", "network"} /\ GpuGroup(host) # NoGroup
           /\ \E d \in host.members[GpuGroup(host)] : host.class[d] = w
        \/ w = "no_display"  /\ GpuGroup(host) = NoGroup /\ DOMAIN host.members # {}
        \/ w = "no_iommu"    /\ DOMAIN host.members = {}
        \/ w = "no_grub"     /\ grub = ""}
================================================================================
