------------------------------- MODULE BootPlan -------------------------------
(***************************************************************************)
(* What a lift finds out about the disks of a host, what it puts on them,  *)
(* and what the machine is told to boot: ThinDom0Plan::for_this_host       *)
(* (thin_dom0.rs), the GRUB entries (thin_dom0_grub.rs), xen.cfg on the    *)
(* ESP (thin_dom0_efi.rs), and the contents of dom0's image                *)
(* (thin_dom0_rootfs.rs). Pure functions of the host.                      *)
(*                                                                         *)
(* A path is the sequence of its names; None is an absent value. A host is *)
(* a record                                                                *)
(*   mounts  the rows of mountinfo, in order: [at, root, device], where    *)
(*           root is the directory of the file system that is mounted      *)
(*   uuids   /dev/disk/by-uuid: the device each UUID leads to              *)
(*   disks   what `lsblk --inverse` says of a device, in order:            *)
(*           [path, type]                                                  *)
(*   links   /dev/disk/by-id: a set of [target, family, part, eui,         *)
(*           alias, rank], rank the place of the name in string order      *)
(*   images  the Xen versions whose xen-*.gz is in /boot, by string order  *)
(*   efis    those whose xen-*.efi is there too                            *)
(*   kernels the releases whose vmlinuz is in /boot                        *)
(*   running the kernel's release, and pinned, RA_DOM0_KERNEL              *)
(***************************************************************************)
EXTENDS Integers, Sequences, FiniteSets

None == "none"

------------------------------------------------------- (* the disks *)

First(S) == CHOOSE i \in S : \A j \in S : i <= j

(* The device of the first row that mounts something there.                *)
Rows(host, path) == {i \in 1 .. Len(host.mounts) : host.mounts[i].at = path}
MountedAt(host, path) ==
    IF Rows(host, path) = {} THEN None ELSE host.mounts[First(Rows(host, path))].device

RootDevice(host) == MountedAt(host, << >>)
BootDevice(host) == MountedAt(host, <<"boot">>)

Uuids(host, device) == {u \in DOMAIN host.uuids : host.uuids[u] = device}
Uuid(host, device) == CHOOSE u \in Uuids(host, device) : TRUE

DiskRows(host, device) ==
    {i \in 1 .. Len(host.disks[device]) : host.disks[device][i].type = "disk"}
ParentDisk(host, device) ==
    IF DiskRows(host, device) = {} THEN None
    ELSE host.disks[device][First(DiskRows(host, device))].path

(* pick_stable_disk_path: names that are no partition and no bare number,  *)
(* those without a namespace suffix first, then the least by name; without *)
(* one of them the disk keeps the name the kernel gave it.                 *)
Named(host, disk) == {l \in host.links : /\ l.target = disk
                                         /\ l.family \in {"nvme", "wwn", "scsi"}
                                         /\ ~l.part /\ ~l.eui}
Preferred(S) == IF \E l \in S : ~l.alias THEN {l \in S : ~l.alias} ELSE S
StableDisk(host, disk) ==
    IF Named(host, disk) = {} THEN [target |-> disk]
    ELSE CHOOSE l \in Preferred(Named(host, disk)) :
             \A k \in Preferred(Named(host, disk)) : l.rank <= k.rank

Release(host) == IF host.pinned = None THEN host.running ELSE host.pinned

XenImage(host) == CHOOSE x \in host.images : \A y \in host.images : y <= x

(* The ESP counts only with an EFI image of the version that boots.        *)
EspDevice(host) ==
    IF XenImage(host) \in host.efis THEN MountedAt(host, <<"boot", "efi">>) ELSE None

(* The early returns of for_this_host.                                     *)
PreFlight(host) ==
    \/ RootDevice(host) = None \/ Uuids(host, RootDevice(host)) = {}
    \/ Release(host) \notin host.kernels
    \/ BootDevice(host) # None /\ Uuids(host, BootDevice(host)) = {}
    \/ ParentDisk(host, RootDevice(host)) = None
    \/ host.images = {}
    \/ EspDevice(host) # None /\ Uuids(host, EspDevice(host)) = {}

-------------------------------------------------------- (* the plan *)

KernelPath == <<"boot", "rotten-apple", "vmlinuz">>
InitrdPath == <<"boot", "rotten-apple", "thin-dom0.cpio.gz">>
XenName(x) == <<"xen", x>>
EspFile(f) == <<"boot", "efi", "EFI", "xen", f>>

(* ThinDom0Plan::grub_entry_inputs: paths are relative to the file system  *)
(* that GRUB searches.                                                     *)
Separate(host) == BootDevice(host) # None
StripBoot(host, path) == IF Separate(host) /\ Head(path) = "boot" THEN Tail(path) ELSE path
BootUuid(host) == Uuid(host, IF Separate(host) THEN BootDevice(host) ELSE RootDevice(host))

Inputs(host, cpu, gpu, display) ==
    [boot_uuid |-> BootUuid(host),
     xen       |-> IF Separate(host) THEN <<XenName(XenImage(host))>>
                   ELSE <<"boot", XenName(XenImage(host))>>,
     kernel    |-> StripBoot(host, KernelPath),
     initrd    |-> StripBoot(host, InitrdPath),
     root_uuid |-> Uuid(host, RootDevice(host)),
     pin       |-> cpu, gpu |-> gpu, display |-> display,
     esp_uuid  |-> IF EspDevice(host) = None THEN None ELSE Uuid(host, EspDevice(host))]

XenOptions(recovery) == [sync_console |-> recovery, noreboot |-> recovery]

(* dom0_kernel_cmdline: a GPU is hidden only if a guest is to have it.     *)
Dom0Args(in, recovery) ==
    [root         |-> in.root_uuid,
     pin          |-> in.pin,
     hide         |-> IF in.display = "passthrough_if_available" THEN in.gpu ELSE None,
     console      |-> IF recovery THEN "hvc0" ELSE "tty0",
     no_autostart |-> recovery]

Multiboot(in, recovery) ==
    [search |-> in.boot_uuid, loads |-> {in.xen, in.kernel, in.initrd},
     xen |-> XenOptions(recovery), dom0 |-> Dom0Args(in, recovery)]

(* xen.efi reads the section of xen.cfg beside it, whose file names are    *)
(* relative to its own directory.                                          *)
XenCfg(in, recovery) ==
    [loads |-> {"vmlinuz", "initrd.cpio.gz"},
     xen |-> XenOptions(recovery), dom0 |-> Dom0Args(in, recovery)]

Chainload(in, recovery) ==
    [search |-> in.esp_uuid,
     loads  |-> {<<"EFI", "xen", f>> : f \in {"xen.efi", "xen.cfg"} \cup XenCfg(in, recovery).loads},
     xen |-> XenCfg(in, recovery).xen, dom0 |-> XenCfg(in, recovery).dom0]

(* render_grub_script: with an ESP the two entries chainload xen.efi, and  *)
(* multiboot is kept as a third.                                           *)
Entries(in) ==
    IF in.esp_uuid = None THEN {Multiboot(in, FALSE), Multiboot(in, TRUE)}
    ELSE {Chainload(in, FALSE), Chainload(in, TRUE), Multiboot(in, TRUE)}

(* What is there once a lift has succeeded: the files it wrote, and the    *)
(* hypervisor that the package brought.                                    *)
Staged(host) ==
    {KernelPath, InitrdPath, <<"boot", XenName(XenImage(host))>>}
    \cup (IF EspDevice(host) = None THEN {}
          ELSE {EspFile(f) : f \in {"xen.efi", "vmlinuz", "initrd.cpio.gz", "xen.cfg"}})

(* mount_host_boot of /init: where it expects the kernel on a file system. *)
BootHost == {<<"rotten-apple", "vmlinuz">>, <<"boot", "rotten-apple", "vmlinuz">>}

--------------------------------------------- (* where a file really is *)

IsPrefix(s, t) == Len(s) <= Len(t) /\ \A i \in 1 .. Len(s) : s[i] = t[i]

(* The row of the deepest mount point above a path.                        *)
Covers(host, path) == {i \in 1 .. Len(host.mounts) : IsPrefix(host.mounts[i].at, path)}
RowOf(host, path) ==
    CHOOSE i \in Covers(host, path) :
        \A j \in Covers(host, path) : Len(host.mounts[j].at) <= Len(host.mounts[i].at)

FileSystem(host, path) == host.mounts[RowOf(host, path)].device
Below(path, n) == [i \in 1 .. (Len(path) - n) |-> path[n + i]]
OnIt(host, path) ==
    LET row == host.mounts[RowOf(host, path)]
    IN  IF row.root = << >> THEN Below(path, Len(row.at))
        ELSE row.root \o Below(path, Len(row.at))

(* An entry finds a file if the file system with its UUID has it there.    *)
Finds(host, entry, path) ==
    \E file \in Staged(host) : /\ host.uuids[entry.search] = FileSystem(host, file)
                               /\ path = OnIt(host, file)

------------------------------------------------------- (* the image *)

(* DOM0_SEED_MODULES: storage, Xen, the bridge, USB hosts, keyboards, NICs  *)
(* and the drivers of the QEMU simulation.                                 *)
SeedModules ==
    {"nvme", "nvme_core", "sd_mod", "ext4"}
    \cup {"xen_blkback", "xen_netback", "xenfs", "xen_gntdev", "xen_gntalloc", "xen_evtchn",
          "xen_pciback"}
    \cup {"bridge", "af_packet", "xhci_pci", "xhci_hcd"}
    \cup {"i8042", "atkbd", "serio_raw", "usbhid", "hid", "hid_generic", "i2c_hid", "i2c_hid_acpi"}
    \cup {"e1000e", "igc", "igb", "r8169", "r8152", "cdc_ether", "usbnet", "asix", "ax88179_178a"}
    \cup {"virtio_pci", "virtio_blk", "virtio_scsi", "virtio_net"}

(* The modules /init loads by name, and those its mounts and its bridge    *)
(* make the kernel ask for.                                                *)
InitModules == {"nvme_core", "nvme", "virtio_pci", "virtio_blk", "virtio_scsi", "sd_mod",
                "xen_pciback", "xen_blkback", "xen_netback", "xenfs", "xen_gntdev",
                "xen_gntalloc", "xen_evtchn", "ext4", "bridge", "af_packet"}

(* depends is what `modprobe --show-depends` prints: the files of a module *)
(* and of all it needs, nothing for a module that is built in or unknown.  *)
Seeds(driver) == SeedModules \cup (IF driver = None THEN {} ELSE {driver})
Modules(depends, driver) == UNION {depends[m] : m \in Seeds(driver) \cap DOMAIN depends}

(* With almost none of them found the build refuses to go on.              *)
BuildRefused(depends, driver) == Cardinality(Modules(depends, driver)) < 5

(* bundle_gpu_firmware: the driver's whole directory, or what modinfo      *)
(* names, in whichever form the host has it.                               *)
Variants == <<"", ".zst", ".xz", ".gz">>
Variant(has, file) ==
    {i \in 1 .. 4 : <<file, Variants[i]>> \in has}
Firmware(dirs, has, named, driver) ==
    IF driver = None THEN {}
    ELSE IF driver \in DOMAIN dirs THEN dirs[driver]
    ELSE {<<f, Variants[First(Variant(has, f))]>> : f \in {g \in named : Variant(has, g) # {}}}

Packages(xen) == {"busybox-static", "kmod", "xen-utils-common", "iproute2", "kbd",
                  "ca-certificates", "dropbear-bin", "isc-dhcp-client",
                  <<"xen-utils", xen>>, <<"libxenmisc", xen>>}

(* The suite dom0 is bootstrapped from, and the keys that may log in: those *)
(* the user has curated and the user's own.                                *)
Suite(os) == IF os.version # None THEN os.version
             ELSE IF os.ubuntu # None THEN os.ubuntu ELSE "noble"
AuthorizedKeys(user) == IF user = None THEN {} ELSE user.authorized \cup user.public

Image(os, xen, depends, dirs, has, named, driver, user) ==
    [suite    |-> Suite(os),
     packages |-> Packages(xen),
     modules  |-> Modules(depends, driver),
     firmware |-> Firmware(dirs, has, named, driver),
     keys     |-> AuthorizedKeys(user),
     files    |-> {"usr/local/bin/rotten-apple", "init", "etc/rotten-apple/active.toml",
                   "etc/rotten-apple/user-desktop.toml",
                   "etc/rotten-apple/user-desktop-visible.toml", "root/.ssh/authorized_keys"}]
==============================================================================
