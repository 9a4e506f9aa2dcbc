------------------------------ MODULE Lift_proofs ------------------------------
(***************************************************************************)
(* Theorems about the lift: first what it concludes about a host and what  *)
(* it puts on it (HostPlan, BootPlan, GuestPlan: pure functions), then the *)
(* run itself (Lift), for every number of releases and of broken steps,    *)
(* and the boot of what it has put there (ThinBoot).                       *)
(***************************************************************************)
EXTENDS Lift, HostPlan, ThinBoot, SequenceTheorems, TLAPS

--------------------------------------------------- (* the host and the plan *)

(* plan(): on a host with a gigabyte or more, dom0, the desktop and the    *)
(* reserve make up the memory exactly, dom0 stays within its bounds, and   *)
(* the balloon's marks are in order: minimum, idle, active. (Below that    *)
(* dom0 alone is given 768 MB, however much there is.)                     *)
THEOREM MemoryFits ==
    ASSUME NEW total \in Nat, total >= 1024
    PROVE  /\ Dom0Mb(total) \in Dom0MinMb .. Dom0MaxMb
           /\ Dom0Mb(total) + ActiveMb(total) + ReserveMb = total
           /\ MinimumMb(total) <= IdleMb(total)
           /\ IdleMb(total) <= ActiveMb(total)
  <1> DEFINE raw  == (total * 3) \div 100
             dom0 == Dom0Mb(total)
  <1>1. raw \in Nat /\ 100 * raw <= 3 * total
    OBVIOUS
  <1>2. (raw \div 64) * 64 \in Nat /\ (raw \div 64) * 64 <= raw
    <2> HIDE DEF raw
    <2> QED BY <1>1
  <1>3. dom0 \in Nat /\ 768 <= dom0 /\ dom0 <= 4096 /\ (dom0 <= raw \/ dom0 = 768)
    <2> HIDE DEF raw
    <2> DEFINE step == (raw \div 64) * 64
    <2>1. step \in Nat /\ step <= raw
      BY <1>2
    <2>2. dom0 = Greater(768, Lesser(4096, step))
      BY DEF Dom0Mb, raw, Dom0MinMb, Dom0MaxMb
    <2> HIDE DEF step, dom0
    <2> QED BY <1>1, <2>1, <2>2 DEF Greater, Lesser
  <1> HIDE DEF raw, dom0
  <1>4. dom0 + 256 <= total
    BY <1>1, <1>3
  <1>5. ActiveMb(total) = total - dom0 - 256
    BY <1>3, <1>4 DEF ActiveMb, Less, Greater, ReserveMb, dom0
  <1> DEFINE active == ActiveMb(total)
  <1>6. active \in Nat
    BY <1>3, <1>4, <1>5
  <1>7. MinimumMb(total) = Share(active, 8) /\ IdleMb(total) = Share(active, 2)
    BY DEF MinimumMb, IdleMb
  <1>8. Share(active, 8) <= Share(active, 2) /\ Share(active, 2) <= active
    <2> HIDE DEF active
    <2>1. /\ active \div 8 \in Int /\ active \div 2 \in Int
          /\ active \div 8 <= active \div 2
      BY <1>6
    <2> QED BY <1>6, <2>1 DEF Share, Lesser, Greater, FloorMb
  <1>9. MinimumMb(total) <= IdleMb(total) /\ IdleMb(total) <= ActiveMb(total)
    BY <1>7, <1>8
  <1>10. dom0 \in 768 .. 4096 /\ dom0 + ActiveMb(total) + 256 = total
    <2> HIDE DEF active
    <2> QED BY <1>3, <1>4, <1>5
  <1> QED BY <1>9, <1>10 DEF Dom0MinMb, Dom0MaxMb, ReserveMb, dom0

(* A list of CPUs as parse_cpulist gives it.                               *)
IsCpuList(s) == s \in Seq(Nat) /\ \A i, j \in 1 .. Len(s) : s[i] = s[j] => i = j

(* split_cpus: dom0 and the desktop never share a CPU when the lists of    *)
(* core types are disjoint, and each has at least one, but for a desktop   *)
(* on a host with a single CPU.                                            *)
THEOREM CpusSplit ==
    ASSUME NEW topo, IsCpuList(topo.p), IsCpuList(topo.e), IsCpuList(topo.all),
           topo.all # << >>,
           \A i \in 1 .. Len(topo.p), j \in 1 .. Len(topo.e) : topo.p[i] # topo.e[j]
    PROVE  /\ \A i \in DOMAIN Dom0Cpus(topo), j \in DOMAIN DomUCpus(topo) :
                  Dom0Cpus(topo)[i] # DomUCpus(topo)[j]
           /\ 1 \in DOMAIN Dom0Cpus(topo)
           /\ 1 \in DOMAIN DomUCpus(topo) <=> IsHybrid(topo) \/ Len(topo.all) > 1
  <1> DEFINE n == UniformDom0(topo)
             len == Len(topo.all)
  <1>1. /\ topo.p \in Seq(Nat) /\ topo.e \in Seq(Nat) /\ topo.all \in Seq(Nat)
        /\ \A i, j \in 1 .. Len(topo.all) : topo.all[i] = topo.all[j] => i = j
    BY DEF IsCpuList
  <1>2. len \in Nat /\ len >= 1
    BY <1>1
  <1>3. n \in Nat /\ n >= 1 /\ (len > 1 => n < len)
    <2> HIDE DEF len
    <2>1. n = Lesser(Greater(1, Lesser(4, len \div 8)), Greater(Less(len, 1), 1))
      BY DEF UniformDom0, Dom0VcpuCap, len
    <2> HIDE DEF n
    <2> QED BY <1>2, <2>1 DEF Lesser, Greater, Less
  <1>4. CASE IsHybrid(topo)
    <2>1. /\ Dom0Cpus(topo) = Taken(topo.e, 4) /\ DomUCpus(topo) = topo.p
      BY <1>4 DEF Dom0Cpus, DomUCpus, Dom0VcpuCap
    <2>2. /\ DOMAIN Taken(topo.e, 4) = 1 .. Lesser(4, Len(topo.e))
          /\ \A i \in 1 .. Lesser(4, Len(topo.e)) : Taken(topo.e, 4)[i] = topo.e[i]
      BY DEF Taken
    <2>3. Len(topo.e) \in Nat /\ Len(topo.e) >= 1 /\ Len(topo.p) \in Nat /\ Len(topo.p) >= 1
      BY <1>1, <1>4 DEF IsHybrid
    <2>4. DOMAIN topo.p = 1 .. Len(topo.p)
      BY <1>1
    <2> QED BY <1>4, <2>1, <2>2, <2>3, <2>4 DEF Lesser
  <1>5. CASE ~IsHybrid(topo)
    <2>1. /\ Dom0Cpus(topo) = Taken(topo.all, n) /\ DomUCpus(topo) = Skipped(topo.all, n)
      BY <1>5 DEF Dom0Cpus, DomUCpus
    <2> HIDE DEF n
    <2>2. /\ DOMAIN Taken(topo.all, n) = 1 .. Lesser(n, len)
          /\ \A i \in 1 .. Lesser(n, len) : Taken(topo.all, n)[i] = topo.all[i]
      BY DEF Taken
    <2>3. /\ DOMAIN Skipped(topo.all, n) = 1 .. Less(len, n)
          /\ \A i \in 1 .. Less(len, n) : Skipped(topo.all, n)[i] = topo.all[n + i]
      BY DEF Skipped
    <2>4. ASSUME NEW i \in 1 .. Lesser(n, len), NEW j \in 1 .. Less(len, n)
          PROVE  topo.all[i] # topo.all[n + j]
      <3>1. i \in 1 .. len /\ n + j \in 1 .. len /\ i # n + j
        <4> HIDE DEF len
        <4> QED BY <1>2, <1>3 DEF Lesser, Less, Greater
      <3> QED BY <1>1, <3>1
    <2>5. 1 \in 1 .. Lesser(n, len)
      BY <1>2, <1>3 DEF Lesser
    <2>6. 1 \in 1 .. Less(len, n) <=> len > 1
      <3> HIDE DEF len
      <3> QED BY <1>2, <1>3 DEF Less, Greater
    <2> QED BY <1>5, <2>1, <2>2, <2>3, <2>4, <2>5, <2>6
  <1> QED BY <1>4, <1>5

(* compute_role: a GPU offered for a lease has an IOMMU group that holds   *)
(* neither the device driving the host's screen nor anything but its own   *)
(* functions and bridges, and the offer does not depend on the order in    *)
(* which the group's directory is read.                                    *)
THEOREM LeasableIsAlone ==
    ASSUME NEW host, NEW d, "Leasable" \in Roles(host, d)
    PROVE  /\ d # host.fb /\ host.fb \notin Neighbours(host, d)
           /\ \A o \in Neighbours(host, d) :
                  host.card[o] = host.card[d] \/ host.class[o] = "bridge"
           /\ Roles(host, d) = {"Leasable"}
  <1>1. d # host.fb /\ Roles(host, d) = {"Leasable"} /\ Reasons(host, d) = {}
    BY DEF Roles, Reasons
  <1>2. host.fb \notin Neighbours(host, d) /\ Foreign(host, d) = {}
    BY <1>1 DEF Reasons
  <1> QED BY <1>1, <1>2 DEF Foreign

(* Two leasable GPUs of one IOMMU group are one card: leasing one never    *)
(* takes a GPU that is offered to another guest.                           *)
THEOREM OneGuestPerGroup ==
    ASSUME NEW host, NEW d \in Gpus(host), NEW o \in Gpus(host),
           "Leasable" \in Roles(host, d), host.group[d] = host.group[o],
           o \in host.members[host.group[o]]
    PROVE  host.card[o] = host.card[d]
  <1>1. o = d \/ o \in Neighbours(host, d)
    BY DEF Neighbours
  <1>2. host.class[o] # "bridge"
    BY DEF Gpus
  <1> QED BY <1>1, <1>2, LeasableIsAlone

(* LiftReadiness::classify: a lift that is not blocked leaves dom0 its     *)
(* disk controller, provided the desktop's GPU is in the first group with  *)
(* a display controller: the only one whose members are looked at.         *)
THEOREM DiskStaysWithDom0 ==
    ASSUME NEW host, ReadinessBlockers(host) = {},
           DesktopGpu(host) # NoGpu,
           DOMAIN host.members \subseteq Int,
           host.group[host.fb] \in DOMAIN host.members,
           NoGroup \notin DOMAIN host.members,
           host.fb \in host.members[host.group[host.fb]],
           \A g \in DisplayGroups(host) : host.group[host.fb] <= g
    PROVE  \A o \in host.members[host.group[host.fb]] : host.class[o] # "storage"
  <1> DEFINE g == host.group[host.fb]
  <1>1. host.class[host.fb] = "display"
    BY DEF DesktopGpu, Gpus
  <1>2. g \in DisplayGroups(host)
    BY <1>1 DEF DisplayGroups
  <1>3. GpuGroup(host) \in DisplayGroups(host) /\ \A h \in DisplayGroups(host) : GpuGroup(host) <= h
    BY <1>2 DEF GpuGroup
  <1>4. GpuGroup(host) = g
    <2>1. g \in Int /\ GpuGroup(host) \in Int
      BY <1>2, <1>3 DEF DisplayGroups
    <2>2. g <= GpuGroup(host) /\ GpuGroup(host) <= g
      BY <1>2, <1>3
    <2> QED BY <2>1, <2>2
  <1>5. GpuGroup(host) # NoGroup
    BY <1>2, <1>4 DEF DisplayGroups
  <1> QED BY <1>4, <1>5 DEF ReadinessBlockers

---------------------------------------- (* what the machine is told to boot *)

(* Every mount point is mounted once, the file systems of /, /boot and the *)
(* ESP at their own root, and nothing else is mounted below /boot.         *)
MountPoints == {<< >>, <<"boot">>, <<"boot", "efi">>}
WellMounted(host) ==
    /\ Len(host.mounts) \in Nat
    /\ \A i \in 1 .. Len(host.mounts) : Len(host.mounts[i].at) \in Nat
    /\ \A i \in 1 .. Len(host.mounts) :
           \/ /\ host.mounts[i].at \in MountPoints
              /\ host.mounts[i].root = << >> /\ host.mounts[i].device # None
           \/ Len(host.mounts[i].at) > 0 /\ host.mounts[i].at[1] # "boot"
    /\ \A i, j \in 1 .. Len(host.mounts) :
           host.mounts[i].at = host.mounts[j].at => i = j

(* The three mount points, told apart by their lengths.                    *)
LEMMA Points ==
    /\ \A at \in MountPoints : Len(at) <= 2
    /\ \A at \in {<< >>, <<"boot">>} : Len(at) <= 1
    /\ \A at \in MountPoints : Len(at) > 0 => at[1] = "boot"
    /\ \A at, to \in MountPoints : Len(at) = Len(to) => at = to
    /\ Len(<< >>) = 0 /\ Len(<<"boot">>) = 1 /\ Len(<<"boot", "efi">>) = 2
    /\ <<"boot", "efi">>[2] = "efi" /\ <<"boot", "efi">>[1] = "boot" /\ <<"boot">>[1] = "boot"
  <1>1. /\ Len(<< >>) = 0 /\ Len(<<"boot">>) = 1 /\ Len(<<"boot", "efi">>) = 2
        /\ <<"boot", "efi">>[2] = "efi" /\ <<"boot", "efi">>[1] = "boot" /\ <<"boot">>[1] = "boot"
    OBVIOUS
  <1>2. ASSUME NEW at \in MountPoints PROVE at = << >> \/ at = <<"boot">> \/ at = <<"boot", "efi">>
    BY DEF MountPoints
  <1>3. /\ Len(<< >>) <= 1 /\ Len(<<"boot">>) <= 1
        /\ Len(<< >>) <= 2 /\ Len(<<"boot">>) <= 2 /\ Len(<<"boot", "efi">>) <= 2
        /\ ~(Len(<< >>) > 0)
    BY <1>1
  <1>4. \A at \in MountPoints : Len(at) <= 2 /\ (Len(at) > 0 => at[1] = "boot")
    BY <1>1, <1>2, <1>3, Zenon
  <1>5. \A at \in {<< >>, <<"boot">>} : Len(at) <= 1
    BY <1>3, Zenon
  <1>6. \A at, to \in MountPoints : Len(at) = Len(to) => at = to
    BY <1>1, <1>2
  <1> QED BY <1>1, <1>4, <1>5, <1>6

(* Which of them are above a path below /boot.                             *)
LEMMA Prefixes ==
    ASSUME NEW path, Len(path) \in Nat, path[1] = "boot", Len(path) >= 2
    PROVE  /\ IsPrefix(<< >>, path) /\ IsPrefix(<<"boot">>, path)
           /\ IsPrefix(<<"boot", "efi">>, path) <=> path[2] = "efi"
  <1>1. \A i \in 1 .. Len(<< >>) : << >>[i] = path[i]
    BY Points
  <1>2. \A i \in 1 .. Len(<<"boot">>) : i = 1
    BY Points
  <1>3. \A i \in 1 .. Len(<<"boot", "efi">>) : i = 1 \/ i = 2
    BY Points
  <1>4. 1 \in 1 .. Len(<<"boot", "efi">>) /\ 2 \in 1 .. Len(<<"boot", "efi">>)
    BY Points
  <1>5. Len(<< >>) <= Len(path) /\ Len(<<"boot">>) <= Len(path) /\ Len(<<"boot", "efi">>) <= Len(path)
    BY Points
  <1>6. IsPrefix(<< >>, path)
    BY <1>1, <1>5 DEF IsPrefix
  <1>7. IsPrefix(<<"boot">>, path)
    BY <1>2, <1>5, Points DEF IsPrefix
  <1>8. IsPrefix(<<"boot", "efi">>, path) => path[2] = "efi"
    BY <1>4, Points DEF IsPrefix
  <1>9. path[2] = "efi" => IsPrefix(<<"boot", "efi">>, path)
    BY <1>3, <1>5, Points DEF IsPrefix
  <1> QED BY <1>6, <1>7, <1>8, <1>9

(* Only /, /boot and the ESP can hold a file of /boot.                     *)
LEMMA AboveBoot ==
    ASSUME NEW host, WellMounted(host), NEW path, Len(path) \in Nat, path[1] = "boot",
           NEW j \in Covers(host, path)
    PROVE  /\ j \in 1 .. Len(host.mounts)
           /\ IsPrefix(host.mounts[j].at, path)
           /\ host.mounts[j].at \in MountPoints
  <1>1. j \in 1 .. Len(host.mounts) /\ IsPrefix(host.mounts[j].at, path)
    BY DEF Covers
  <1>2. Len(host.mounts[j].at) \in Nat
    BY <1>1 DEF WellMounted
  <1>3. Len(host.mounts[j].at) > 0 => 1 \in 1 .. Len(host.mounts[j].at)
    BY <1>2
  <1>4. Len(host.mounts[j].at) > 0 => host.mounts[j].at[1] = "boot"
    BY <1>1, <1>3 DEF IsPrefix
  <1> QED BY <1>1, <1>4 DEF WellMounted

(* The deepest mount point above a path below /boot is found.              *)
LEMMA DeepestRow ==
    ASSUME NEW host, WellMounted(host), NEW path, Len(path) \in Nat, path[1] = "boot",
           NEW r \in 1 .. Len(host.mounts), host.mounts[r].at \in MountPoints,
           r \in Covers(host, path),
           \A j \in Covers(host, path) : Len(host.mounts[j].at) <= Len(host.mounts[r].at)
    PROVE  RowOf(host, path) = r
  <1> DEFINE i == RowOf(host, path)
  <1>1. /\ i \in Covers(host, path)
        /\ \A j \in Covers(host, path) : Len(host.mounts[j].at) <= Len(host.mounts[i].at)
    BY DEF RowOf
  <1> HIDE DEF i
  <1>2. i \in 1 .. Len(host.mounts) /\ host.mounts[i].at \in MountPoints
    BY <1>1, AboveBoot
  <1>3. Len(host.mounts[i].at) = Len(host.mounts[r].at)
    BY <1>1, <1>2, Points
  <1>4. host.mounts[i].at = host.mounts[r].at
    BY <1>2, <1>3, Points
  <1> QED BY <1>2, <1>4 DEF WellMounted, i

(* MountedAt is the device of the only row that mounts something there.    *)
LEMMA OnlyRow ==
    ASSUME NEW host, WellMounted(host), NEW path, Rows(host, path) # {}
    PROVE  \E r \in 1 .. Len(host.mounts) :
               host.mounts[r].at = path /\ MountedAt(host, path) = host.mounts[r].device
  <1>1. PICK r \in Rows(host, path) : TRUE
    OBVIOUS
  <1>2. r \in 1 .. Len(host.mounts) /\ host.mounts[r].at = path
    BY <1>1 DEF Rows
  <1>3. \A j \in Rows(host, path) : j = r
    BY <1>2 DEF Rows, WellMounted
  <1>4. Rows(host, path) = {r} /\ r \in Int
    <2>1. Rows(host, path) = {r}
      BY <1>1, <1>3
    <2>2. r \in Int
      BY <1>2 DEF WellMounted
    <2> QED BY <2>1, <2>2
  <1>5. First({r}) = r
    BY <1>4 DEF First
  <1>6. First(Rows(host, path)) = r
    BY <1>4, <1>5
  <1> QED BY <1>2, <1>4, <1>6 DEF MountedAt

(* A file of /boot is on the file system that is searched for it.          *)
LEMMA InBoot ==
    ASSUME NEW host, WellMounted(host), RootDevice(host) # None,
           NEW path, Len(path) \in Nat, Len(path) >= 2, path[1] = "boot", path[2] # "efi"
    PROVE  /\ Separate(host) => /\ FileSystem(host, path) = BootDevice(host)
                                /\ OnIt(host, path) = Below(path, 1)
           /\ ~Separate(host) => /\ FileSystem(host, path) = RootDevice(host)
                                 /\ OnIt(host, path) = Below(path, 0)
  <1>1. ASSUME NEW j \in Covers(host, path)
        PROVE  /\ j \in 1 .. Len(host.mounts)
               /\ host.mounts[j].at \in {<< >>, <<"boot">>}
    <2>1. host.mounts[j].at # <<"boot", "efi">>
      BY <1>1, AboveBoot, Prefixes
    <2>2. host.mounts[j].at \in MountPoints
      BY <1>1, AboveBoot
    <2> QED BY <1>1, <2>1, <2>2, AboveBoot DEF MountPoints
  <1>2. CASE Separate(host)
    <2>1. Rows(host, <<"boot">>) # {}
      BY <1>2 DEF Separate, BootDevice, MountedAt
    <2>2. PICK r \in 1 .. Len(host.mounts) :
              host.mounts[r].at = <<"boot">> /\ BootDevice(host) = host.mounts[r].device
      BY <2>1, OnlyRow DEF BootDevice
    <2>3. r \in Covers(host, path)
      BY <2>2, Prefixes DEF Covers
    <2>4. \A j \in Covers(host, path) : Len(host.mounts[j].at) <= Len(host.mounts[r].at)
      BY <1>1, <2>2, Points
    <2>5. host.mounts[r].at \in MountPoints
      BY <2>2 DEF MountPoints
    <2>6. RowOf(host, path) = r
      BY <2>3, <2>4, <2>5, DeepestRow
    <2>7. host.mounts[r].root = << >>
      BY <2>2 DEF WellMounted
    <2> QED BY <1>2, <2>2, <2>6, <2>7 DEF FileSystem, OnIt
  <1>3. CASE ~Separate(host)
    <2>1. Rows(host, << >>) # {}
      BY DEF RootDevice, MountedAt
    <2>2. PICK r \in 1 .. Len(host.mounts) :
              host.mounts[r].at = << >> /\ RootDevice(host) = host.mounts[r].device
      BY <2>1, OnlyRow DEF RootDevice
    <2>3. \A j \in Covers(host, path) : host.mounts[j].at = << >>
      <3>1. ASSUME NEW j \in 1 .. Len(host.mounts), host.mounts[j].at = <<"boot">>
            PROVE  FALSE
        <4>1. Rows(host, <<"boot">>) # {}
          BY <3>1 DEF Rows
        <4>2. PICK k \in 1 .. Len(host.mounts) :
                  host.mounts[k].at = <<"boot">> /\ BootDevice(host) = host.mounts[k].device
          BY <4>1, OnlyRow DEF BootDevice
        <4>3. host.mounts[k].device # None
          BY <4>2 DEF WellMounted
        <4> QED BY <1>3, <4>2, <4>3 DEF Separate
      <3> QED BY <1>1, <3>1
    <2>4. r \in Covers(host, path)
      BY <2>2, Prefixes DEF Covers
    <2>5. RowOf(host, path) = r
      BY <2>2, <2>3, <2>4, Points, DeepestRow, SMTT(30) DEF MountPoints
    <2>6. host.mounts[r].root = << >>
      BY <2>2 DEF WellMounted
    <2> QED BY <1>3, <2>2, <2>5, <2>6 DEF FileSystem, OnIt
  <1> QED BY <1>2, <1>3

(* A file of the ESP is on the device that is mounted there.               *)
LEMMA OnEsp ==
    ASSUME NEW host, WellMounted(host), EspDevice(host) # None,
           NEW path, Len(path) \in Nat, Len(path) >= 2, path[1] = "boot", path[2] = "efi"
    PROVE  FileSystem(host, path) = EspDevice(host) /\ OnIt(host, path) = Below(path, 2)
  <1>1. EspDevice(host) = MountedAt(host, <<"boot", "efi">>) /\ Rows(host, <<"boot", "efi">>) # {}
    BY DEF EspDevice, MountedAt
  <1>2. PICK r \in 1 .. Len(host.mounts) :
            host.mounts[r].at = <<"boot", "efi">> /\ EspDevice(host) = host.mounts[r].device
    BY <1>1, OnlyRow
  <1>3. r \in Covers(host, path)
    BY <1>2, Prefixes DEF Covers
  <1>4. ASSUME NEW j \in Covers(host, path) PROVE Len(host.mounts[j].at) <= 2
    <2>1. host.mounts[j].at \in MountPoints
      BY <1>4, AboveBoot
    <2> QED BY <2>1, Points
  <1>5. RowOf(host, path) = r
    BY <1>2, <1>3, <1>4, Points, DeepestRow DEF MountPoints
  <1>6. host.mounts[r].root = << >>
    BY <1>2 DEF WellMounted
  <1> QED BY <1>2, <1>5, <1>6 DEF FileSystem, OnIt

(* What is left of a path below a mount point.                             *)
LEMMA BelowTwo == \A a, b : /\ Below(<<a, b>>, 0) = <<a, b>>
                            /\ Below(<<a, b>>, 1) = <<b>>
  BY DEF Below

(* The same for a path of three names.                                     *)
LEMMA BelowThree == \A a, b, c : /\ Below(<<a, b, c>>, 0) = <<a, b, c>>
                                 /\ Below(<<a, b, c>>, 1) = <<b, c>>
  BY DEF Below

(* The same for a path of five names.                                      *)
LEMMA BelowFive == \A a, b, c, d, e : Below(<<a, b, c, d, e>>, 2) = <<c, d, e>>
  BY DEF Below

(* A host on which for_this_host succeeds, mounted the usual way.          *)
Planned(host) ==
    WellMounted(host) /\ ~PreFlight(host) /\ XenName(XenImage(host)) # "efi"

(* A device that has a UUID is found under it.                             *)
LEMMA Uuid1 ==
    ASSUME NEW host, NEW device, Uuids(host, device) # {}
    PROVE  host.uuids[Uuid(host, device)] = device
  <1>1. Uuid(host, device) \in Uuids(host, device)
    BY DEF Uuid
  <1> QED BY <1>1 DEF Uuids

(* Every file that a GRUB entry, or the section of xen.cfg that it selects,*)
(* names is one that the lift has put there, at that path of the file      *)
(* system that the entry searches for: with /boot apart or on the root     *)
(* file system, with and without an ESP.                                   *)
THEOREM EntriesLoadWhatIsStaged ==
    ASSUME NEW host, Planned(host), NEW cpu, NEW gpu, NEW display,
           NEW e \in Entries(Inputs(host, cpu, gpu, display)), NEW p \in e.loads
    PROVE  Finds(host, e, p)
  <1> DEFINE in == Inputs(host, cpu, gpu, display)
             xen == XenName(XenImage(host))
  <1>1. /\ in.boot_uuid = BootUuid(host)
        /\ in.xen = IF Separate(host) THEN <<xen>> ELSE <<"boot", xen>>
        /\ in.kernel = StripBoot(host, KernelPath) /\ in.initrd = StripBoot(host, InitrdPath)
        /\ in.esp_uuid = IF EspDevice(host) = None THEN None ELSE Uuid(host, EspDevice(host))
    BY DEF Inputs
  <1> HIDE DEF in
  <1>2. RootDevice(host) # None
    BY DEF Planned, PreFlight
  <1>3. CASE \E recovery \in BOOLEAN : e = Multiboot(in, recovery)
    <2>1. e.search = BootUuid(host) /\ e.loads = {in.xen, in.kernel, in.initrd}
      BY <1>1, <1>3 DEF Multiboot
    <2>2. host.uuids[BootUuid(host)] =
              IF Separate(host) THEN BootDevice(host) ELSE RootDevice(host)
      BY Uuid1 DEF BootUuid, Planned, PreFlight, Separate
    <2>3. PICK f \in {KernelPath, InitrdPath, <<"boot", xen>>} :
              p = IF Separate(host) THEN Below(f, 1) ELSE Below(f, 0)
      <3>1. in.kernel = IF Separate(host) THEN <<"rotten-apple", "vmlinuz">> ELSE KernelPath
        BY <1>1 DEF StripBoot, KernelPath
      <3>2. in.initrd = IF Separate(host) THEN <<"rotten-apple", "thin-dom0.cpio.gz">> ELSE InitrdPath
        BY <1>1 DEF StripBoot, InitrdPath
      <3>3. p = in.kernel => p = IF Separate(host) THEN Below(KernelPath, 1) ELSE Below(KernelPath, 0)
        BY <3>1, BelowThree DEF KernelPath
      <3>4. p = in.initrd => p = IF Separate(host) THEN Below(InitrdPath, 1) ELSE Below(InitrdPath, 0)
        BY <3>2, BelowThree DEF InitrdPath
      <3>5. p = in.xen => p = IF Separate(host) THEN Below(<<"boot", xen>>, 1) ELSE Below(<<"boot", xen>>, 0)
        BY <1>1, BelowTwo
      <3> QED BY <2>1, <3>3, <3>4, <3>5
    <2>4. Len(f) \in Nat /\ Len(f) >= 2 /\ f[1] = "boot" /\ f[2] # "efi"
      <3>1. f = KernelPath \/ f = InitrdPath \/ f = <<"boot", xen>>
        BY <2>3
      <3>2. xen # "efi"
        BY DEF Planned
      <3> QED BY <3>1, <3>2 DEF KernelPath, InitrdPath
    <2>5. FileSystem(host, f) = host.uuids[e.search] /\ OnIt(host, f) = p
      BY <1>2, <2>1, <2>2, <2>3, <2>4, InBoot DEF Planned
    <2>6. f \in Staged(host)
      BY <2>3 DEF Staged
    <2> QED BY <2>5, <2>6 DEF Finds
  <1>4. CASE EspDevice(host) # None /\ \E recovery \in BOOLEAN : e = Chainload(in, recovery)
    <2>1. e.search = Uuid(host, EspDevice(host))
      BY <1>1, <1>4 DEF Chainload
    <2>2. host.uuids[e.search] = EspDevice(host)
      BY <1>4, <2>1, Uuid1 DEF Planned, PreFlight
    <2>3. PICK f \in {"xen.efi", "xen.cfg", "vmlinuz", "initrd.cpio.gz"} : p = <<"EFI", "xen", f>>
      BY <1>4 DEF Chainload, XenCfg
    <2>4. EspFile(f) \in Staged(host)
      BY <1>4, <2>3 DEF Staged
    <2>5. OnIt(host, EspFile(f)) = p /\ FileSystem(host, EspFile(f)) = EspDevice(host)
      <3>1. Len(EspFile(f)) = 5 /\ EspFile(f)[1] = "boot" /\ EspFile(f)[2] = "efi"
        BY DEF EspFile
      <3>2. Below(EspFile(f), 2) = p
        BY <2>3, BelowFive DEF EspFile
      <3> QED BY <1>4, <3>1, <3>2, OnEsp DEF Planned
    <2> QED BY <2>2, <2>4, <2>5 DEF Finds
  <1> QED BY <1>1, <1>3, <1>4 DEF Entries, in

(* /init looks for the kernel in the two places where it can be on the     *)
(* file system it has been copied to, so a boot of the entry finds /boot   *)
(* again and the persistent log has a home.                                *)
THEOREM BootHostFound ==
    ASSUME NEW host, Planned(host) PROVE OnIt(host, KernelPath) \in BootHost
  <1>1. RootDevice(host) # None
    BY DEF Planned, PreFlight
  <1>2. /\ Len(KernelPath) \in Nat /\ Len(KernelPath) >= 2
        /\ KernelPath[1] = "boot" /\ KernelPath[2] # "efi"
    BY DEF KernelPath
  <1>3. OnIt(host, KernelPath) = Below(KernelPath, 0) \/ OnIt(host, KernelPath) = Below(KernelPath, 1)
    BY <1>1, <1>2, InBoot DEF Planned
  <1> QED BY <1>3, BelowThree DEF KernelPath, BootHost

(* The command line takes a GPU away from dom0 exactly when the manifest   *)
(* written for the same display mode passes that GPU to the desktop.       *)
THEOREM HiddenIffGiven ==
    ASSUME NEW host, NEW cpu, NEW gpu, gpu # None, NEW display, NEW recovery,
           NEW drive, NEW tpm, NEW autostart, gpu # Guest!Nothing
    PROVE  LET args == Dom0Args(Inputs(host, cpu, gpu, display), recovery)
               desktop == Guest!Desktop(drive, gpu, display, tpm, autostart)
           IN  /\ args.hide = gpu <=> desktop.gpu.mode = "passthrough"
               /\ args.hide = gpu <=> desktop.gpu.device = gpu
  BY DEF Dom0Args, Inputs, Guest!Desktop, Guest!DesktopGpu

(* Every module that /init loads or that its mounts and bridge need is in  *)
(* the image with all it depends on, and so is the GPU's driver.           *)
THEOREM InitLoadsBundled ==
    ASSUME NEW depends, NEW driver, NEW m \in DOMAIN depends,
           m \in InitModules \/ (m = driver /\ driver # None)
    PROVE  depends[m] \subseteq Modules(depends, driver)
  <1>1. m \in Seeds(driver)
    BY DEF Seeds, InitModules, SeedModules
  <1> QED BY <1>1 DEF Modules

--------------------------------------------------- (* the steps of a run *)

(* The place of a step in the order of execute(). What is left of a run is  *)
(* in this order, whichever steps it has.                                   *)
Rank(step) ==
  CASE step = "build" -> 1        [] step = "cpio" -> 2    [] step = "kernel" -> 3
    [] step = "xen.efi" -> 4      [] step = "vmlinuz" -> 5 [] step = "initrd" -> 6
    [] step = "xen.cfg" -> 7      [] step = "entry" -> 8   [] step = "order" -> 9
    [] step = "manifest" -> 10    [] step = "script" -> 11 [] step = "chmod" -> 12
    [] step = "update-grub" -> 13 [] OTHER -> 14

Ordered(s) == \A i, j \in 1..Len(s) : i < j => Rank(s[i]) < Rank(s[j])

In(s, step)   == \E i \in 1..Len(s) : s[i] = step
Pending(step) == In(run.left, step)

(* The steps of a lift that a run planned with or without an ESP has.       *)
OfLift(withEsp) == IF withEsp THEN Steps \ {"order"}
                   ELSE Steps \ ({"order", "entry"} \cup EspFiles)

(* What is left of a lift is the whole end of it: a step is not dropped     *)
(* while an earlier one is still to come.                                   *)
WholeEnd(s, withEsp) ==
  \A x \in Steps, t \in OfLift(withEsp) : In(s, x) /\ Rank(x) < Rank(t) => In(s, t)

LeftOK == /\ Ordered(run.left)
          /\ Pending("entry") => ~Pending("order")
          /\ run.command = "lift" => WholeEnd(run.left, run.esp)

---------------------------------------------- (* what a run has done so far *)

(* What LiftedIsWhole asks for at the end, piece by piece as its steps are  *)
(* taken.                                                                   *)
DoneSoFar ==
  run.command = "lift" /\ ~run.broken =>
    /\ ~run.lost => \A f \in Written : Pending(f) \/ file[f] = run.plan
    /\ run.esp => /\ Pending("vmlinuz") \/ file["vmlinuz"] = file["kernel"]
                  /\ Pending("initrd") \/ file["initrd"] = file["cpio"]
    /\ Pending("script") \/ (script.text = run.plan /\ script.esp = run.esp)
    /\ Pending("chmod") \/ script.exec
    /\ Pending("update-grub") \/ grub = [text |-> run.plan, esp |-> run.esp]

(* The two files of /boot/rotten-apple come before the script and the       *)
(* script before the entries, in the run under way and in all before it.    *)
FilesFirst ==
  /\ Underway => /\ \A f \in BootFiles : Pending(f) \/ file[f] # Absent
                 /\ Pending("script") \/ script.text # Absent
  /\ script.text # Absent \/ grub.text # Absent => \A f \in BootFiles : file[f] # Absent

(* The order is put back before anything else. As long as no restoring was  *)
(* cut off, it is what the firmware put first itself, or to be put back;    *)
(* and that is what the run under way has found.                            *)
OrderKept ==
  /\ Pending("order") => At("order")
  /\ meant.first # "unset" /\ ~meant.cut
       => /\ Pending("order") \/ nvram.first = meant.first
          /\ Underway => run.found = meant.first

LiftInv == TypeOK /\ LeftOK /\ DoneSoFar /\ FilesFirst /\ OrderKept

LEMMA RankIsNat == \A step : Rank(step) \in 1..14
  BY DEF Rank

(* Taking the first step leaves the later ones, all of them and in order.   *)
LEMMA StepTaken ==
  ASSUME NEW s \in Seq(Steps), s # <<>>, Ordered(s)
  PROVE  /\ Tail(s) \in Seq(Steps) /\ Ordered(Tail(s))
         /\ Head(s) \in Steps /\ In(s, Head(s))
         /\ \A t : In(Tail(s), t) <=> In(s, t) /\ t # Head(s)
         /\ \A t : In(s, t) => t = Head(s) \/ Rank(Head(s)) < Rank(t)
<1>1. /\ Len(s) \in Nat /\ Len(s) >= 1
      /\ Head(s) = s[1] /\ Head(s) \in Steps
      /\ Tail(s) \in Seq(Steps) /\ Len(Tail(s)) = Len(s) - 1
      /\ \A i \in 1..Len(s) - 1 : Tail(s)[i] = s[i + 1]
  BY HeadTailProperties, EmptySeq
<1> DEFINE n == Len(s)
           tl == Tail(s)
<1> HIDE DEF n, tl
<1>2. Ordered(tl)
  <2> SUFFICES ASSUME NEW i \in 1..Len(tl), NEW j \in 1..Len(tl), i < j
               PROVE  Rank(tl[i]) < Rank(tl[j])
    BY DEF Ordered
  <2>1. i \in 1..n - 1 /\ j \in 1..n - 1 /\ i + 1 \in 1..n /\ j + 1 \in 1..n /\ i + 1 < j + 1
    BY <1>1 DEF n, tl
  <2>2. tl[i] = s[i + 1] /\ tl[j] = s[j + 1]
    BY <1>1, <2>1 DEF n, tl
  <2> QED BY <2>1, <2>2 DEF Ordered, n
<1>3. ASSUME NEW i \in 1..n, i # 1 PROVE Rank(Head(s)) < Rank(s[i])
  <2>1. 1 \in 1..n /\ 1 < i
    BY <1>1, <1>3 DEF n
  <2> QED BY <1>1, <1>3, <2>1 DEF Ordered, n
<1>4. ASSUME NEW t, In(s, t) PROVE t = Head(s) \/ Rank(Head(s)) < Rank(t)
  BY <1>1, <1>3, <1>4 DEF In, n
<1>5. ASSUME NEW t, In(tl, t) PROVE In(s, t) /\ t # Head(s)
  <2>1. PICK i \in 1..Len(tl) : tl[i] = t
    BY <1>5 DEF In
  <2>2. i \in 1..n - 1 /\ i + 1 \in 1..n /\ i + 1 # 1
    BY <1>1, <2>1 DEF n, tl
  <2>3. s[i + 1] = t
    BY <1>1, <2>1, <2>2 DEF n, tl
  <2>4. Rank(Head(s)) < Rank(t)
    BY <1>3, <2>2, <2>3
  <2>5. Rank(t) \in Nat
    BY RankIsNat
  <2>6. t # Head(s)
    BY <2>4, <2>5
  <2> QED BY <2>2, <2>3, <2>6 DEF In, n
<1>6. ASSUME NEW t, In(s, t), t # Head(s) PROVE In(tl, t)
  <2>1. PICK i \in 1..n : s[i] = t
    BY <1>6 DEF In, n
  <2>2. i # 1
    BY <1>1, <1>6, <2>1
  <2>3. i - 1 \in 1..n - 1 /\ (i - 1) + 1 = i /\ i - 1 \in 1..Len(tl)
    BY <1>1, <2>1, <2>2 DEF n, tl
  <2>4. tl[i - 1] = t
    BY <1>1, <2>1, <2>3 DEF n, tl
  <2> QED BY <2>3, <2>4 DEF In
<1>7. In(s, Head(s))
  <2>1. 1 \in 1..Len(s)
    BY <1>1
  <2> QED BY <1>1, <2>1 DEF In
<1> QED BY <1>1, <1>2, <1>4, <1>5, <1>6, <1>7 DEF tl

(* Two lists, the second of later steps, make one in order.                 *)
LEMMA Joined ==
  ASSUME NEW s \in Seq(Steps), NEW t \in Seq(Steps), Ordered(s), Ordered(t),
         \A a, b : In(s, a) /\ In(t, b) => Rank(a) < Rank(b)
  PROVE  /\ s \o t \in Seq(Steps) /\ Ordered(s \o t)
         /\ \A x : In(s \o t, x) <=> In(s, x) \/ In(t, x)
<1> DEFINE all == s \o t
           m == Len(s)
           n == Len(t)
<1>1. all \in Seq(Steps) /\ Len(all) = m + n /\ m \in Nat /\ n \in Nat
  BY ConcatProperties
<1>2. \A i \in 1..m + n : all[i] = IF i <= m THEN s[i] ELSE t[i - m]
  BY ConcatProperties
<1> HIDE DEF all, m, n
<1>3. ASSUME NEW i \in 1..m PROVE i \in 1..Len(all) /\ all[i] = s[i] /\ In(s, s[i])
  <2>1. i \in 1..m + n /\ i <= m
    BY <1>1, <1>3
  <2> QED BY <1>1, <1>2, <2>1 DEF In, m
<1>4. ASSUME NEW i \in 1..n
      PROVE  m + i \in 1..Len(all) /\ all[m + i] = t[i] /\ In(t, t[i])
  <2>1. m + i \in 1..m + n /\ ~(m + i <= m) /\ (m + i) - m = i
    BY <1>1, <1>4
  <2>2. all[m + i] = t[(m + i) - m]
    BY <1>2, <2>1
  <2> QED BY <1>1, <2>1, <2>2 DEF In, n
<1>5. ASSUME NEW i \in 1..Len(all)
      PROVE  \/ i \in 1..m /\ all[i] = s[i]
             \/ i > m /\ i - m \in 1..n /\ all[i] = t[i - m]
  BY <1>1, <1>2
<1>6. ASSUME NEW x PROVE In(all, x) <=> In(s, x) \/ In(t, x)
  <2>1. ASSUME In(all, x) PROVE In(s, x) \/ In(t, x)
    <3>1. PICK i \in 1..Len(all) : all[i] = x
      BY <2>1 DEF In
    <3> QED BY <1>5, <3>1 DEF In, m, n
  <2>2. ASSUME In(s, x) PROVE In(all, x)
    <3>1. PICK i \in 1..m : s[i] = x
      BY <2>2 DEF In, m
    <3> QED BY <1>3, <3>1 DEF In
  <2>3. ASSUME In(t, x) PROVE In(all, x)
    <3>1. PICK i \in 1..n : t[i] = x
      BY <2>3 DEF In, n
    <3> QED BY <1>4, <3>1 DEF In
  <2> QED BY <2>1, <2>2, <2>3
<1>7. ASSUME NEW i \in 1..Len(all), NEW j \in 1..Len(all), i < j
      PROVE  Rank(all[i]) < Rank(all[j])
  <2>1. CASE i \in 1..m /\ j \in 1..m
    <3>1. all[i] = s[i] /\ all[j] = s[j]
      BY <1>3, <2>1
    <3> QED BY <1>7, <2>1, <3>1 DEF Ordered, m
  <2>2. CASE i \in 1..m /\ j > m
    <3>1. all[i] = s[i] /\ In(s, s[i])
      BY <1>3, <2>2
    <3>2. j - m \in 1..n /\ all[j] = t[j - m]
      BY <1>1, <1>5, <2>2
    <3>3. In(t, t[j - m])
      BY <1>4, <3>2
    <3> QED BY <3>1, <3>2, <3>3
  <2>3. CASE i > m /\ j > m
    <3>1. i - m \in 1..n /\ all[i] = t[i - m] /\ j - m \in 1..n /\ all[j] = t[j - m]
      BY <1>1, <1>5, <2>3
    <3>2. i - m < j - m
      BY <1>1, <1>7, <2>3
    <3> QED BY <3>1, <3>2 DEF Ordered, n
  <2> QED BY <1>1, <1>7, <2>1, <2>2, <2>3
<1>8. Ordered(all)
  BY <1>7 DEF Ordered
<1> QED BY <1>1, <1>6, <1>8 DEF all

(* The lists that a lift and a --grub-only start with.                      *)
LEMMA GrubStart ==
  /\ GrubSteps \in Seq(Steps) /\ GrubSteps # <<>> /\ Ordered(GrubSteps)
  /\ \A t : In(GrubSteps, t) <=> t \in {"script", "chmod", "update-grub", "verify"}
  BY DEF GrubSteps, Steps, Ordered, In, Rank

LEMMA LiftStart ==
  /\ LiftSteps \in Seq(Steps) /\ LiftSteps # <<>> /\ Ordered(LiftSteps)
  /\ \A t : In(LiftSteps, t) <=> t \in OfLift(esp)
<1> DEFINE a == <<"build", "cpio", "kernel">>
           b == IF esp THEN EspSteps ELSE <<>>
           c == <<"manifest">>
<1>1. /\ a \in Seq(Steps) /\ Ordered(a)
      /\ \A t : In(a, t) <=> t \in {"build", "cpio", "kernel"}
  BY DEF Steps, Files, BootFiles, Ordered, In, Rank
<1>2. /\ b \in Seq(Steps) /\ Ordered(b)
      /\ \A t : In(b, t) <=> esp /\ t \in EspFiles \cup {"entry"}
  <2>1. CASE esp
    <3>1. b = EspSteps
      BY <2>1
    <3>2. /\ EspSteps \in Seq(Steps) /\ Ordered(EspSteps)
          /\ \A t : In(EspSteps, t) <=> t \in EspFiles \cup {"entry"}
      BY DEF EspSteps, Steps, Files, EspFiles, Ordered, In, Rank
    <3> QED BY <2>1, <3>1, <3>2
  <2>2. CASE ~esp
    <3>1. b = <<>>
      BY <2>2
    <3> QED BY <2>2, <3>1 DEF Ordered, In
  <2> QED BY <2>1, <2>2
<1>3. /\ c \in Seq(Steps) /\ Ordered(c)
      /\ \A t : In(c, t) <=> t = "manifest"
  BY DEF Steps, Files, Ordered, In, Rank
<1>4. LiftSteps = ((a \o b) \o c) \o GrubSteps /\ a # <<>>
  BY DEF LiftSteps
<1> HIDE DEF a, b, c
<1>5. /\ a \o b \in Seq(Steps) /\ Ordered(a \o b)
      /\ \A t : In(a \o b, t) <=> In(a, t) \/ In(b, t)
  <2>1. \A x, y : In(a, x) /\ In(b, y) => Rank(x) < Rank(y)
    BY <1>1, <1>2 DEF Rank, EspFiles
  <2> QED BY <1>1, <1>2, <2>1, Joined
<1>6. /\ (a \o b) \o c \in Seq(Steps) /\ Ordered((a \o b) \o c)
      /\ \A t : In((a \o b) \o c, t) <=> In(a, t) \/ In(b, t) \/ In(c, t)
  <2>1. \A x, y : In(a \o b, x) /\ In(c, y) => Rank(x) < Rank(y)
    BY <1>1, <1>2, <1>3, <1>5 DEF Rank, EspFiles
  <2> QED BY <1>3, <1>5, <2>1, Joined
<1>7. /\ LiftSteps \in Seq(Steps) /\ Ordered(LiftSteps)
      /\ \A t : In(LiftSteps, t) <=> In(a, t) \/ In(b, t) \/ In(c, t) \/ In(GrubSteps, t)
  <2> DEFINE early == {"build", "cpio", "kernel", "entry", "manifest"} \cup EspFiles
  <2>a. \A x : In((a \o b) \o c, x) => x \in early
    BY <1>1, <1>2, <1>3, <1>6
  <2>b. \A x \in early : Rank(x) <= 10
    BY DEF Rank, EspFiles
  <2>c. \A y : In(GrubSteps, y) => Rank(y) > 10
    BY GrubStart DEF Rank
  <2> HIDE DEF early
  <2>1. \A x, y : In((a \o b) \o c, x) /\ In(GrubSteps, y) => Rank(x) < Rank(y)
    BY <2>a, <2>b, <2>c, RankIsNat
  <2> HIDE DEF LiftSteps
  <2> QED BY <1>4, <1>6, <2>1, GrubStart, Joined
<1>8. \A t : In(LiftSteps, t) <=> t \in OfLift(esp)
  BY <1>1, <1>2, <1>3, <1>7, GrubStart
     DEF OfLift, Steps, Files, BootFiles, EspFiles
<1>9. LiftSteps # <<>>
  <2>1. In(LiftSteps, "build")
    BY <1>1, <1>7
  <2> QED BY <2>1 DEF In
<1> QED BY <1>7, <1>8, <1>9

------------------------------------------------------- (* what a step does *)

(* The effect on the record of the run: a step is taken, and the rest of    *)
(* the record stays but for the two flags.                                  *)
SamePlan == /\ run'.command = run.command /\ run'.plan = run.plan /\ run'.esp = run.esp
            /\ run'.found = run.found /\ run'.broken = run.broken

Takes(step) == At(step) /\ SamePlan /\ run'.left = Tail(run.left)

LEMMA Advances ==
  ASSUME TypeOK
  PROVE  /\ Advanced.left = Tail(run.left) /\ Advanced.command = run.command
         /\ Advanced.plan = run.plan /\ Advanced.esp = run.esp
         /\ Advanced.found = run.found /\ Advanced.broken = run.broken
         /\ Advanced.warned = run.warned /\ Advanced.lost = run.lost
         /\ Failed.left = <<>> /\ Failed.command = run.command
         /\ Failed.plan = run.plan /\ Failed.esp = run.esp
         /\ Failed.found = run.found /\ Failed.broken
         /\ Failed.warned = run.warned /\ Failed.lost = run.lost
  BY DEF TypeOK, Advanced, Failed

LEMMA TakesStep ==
  ASSUME LiftInv, NEW step, Takes(step)
  PROVE  /\ run.left \in Seq(Steps) /\ run.left # <<>> /\ step = Head(run.left)
         /\ run'.left \in Seq(Steps) /\ Ordered(run'.left)
         /\ step \in Steps /\ Pending(step)
         /\ \A t : In(run'.left, t) <=> Pending(t) /\ t # step
         /\ \A t : Pending(t) => t = step \/ Rank(step) < Rank(t)
<1>1. run.left \in Seq(Steps) /\ run.left # <<>> /\ Ordered(run.left) /\ step = Head(run.left)
  BY DEF LiftInv, TypeOK, LeftOK, Takes, At, Underway
<1> QED BY <1>1, StepTaken DEF Takes, Pending

LEMMA TakesLeft ==
  ASSUME LiftInv, NEW step, Takes(step)
  PROVE  LeftOK'
<1>1. Ordered(run'.left)
  BY TakesStep
<1>2. In(run'.left, "entry") => ~In(run'.left, "order")
  BY TakesStep DEF LiftInv, LeftOK
<1>3. ASSUME run'.command = "lift" PROVE WholeEnd(run'.left, run'.esp)
  <2>1. run.command = "lift" /\ run'.esp = run.esp /\ WholeEnd(run.left, run.esp)
    BY <1>3 DEF Takes, SamePlan, LiftInv, LeftOK
  <2> SUFFICES ASSUME NEW x \in Steps, NEW t \in OfLift(run.esp),
                      In(run'.left, x), Rank(x) < Rank(t)
               PROVE  In(run'.left, t)
    BY <2>1 DEF WholeEnd
  <2>2. Pending(x) /\ x # step /\ Rank(step) < Rank(x)
    BY TakesStep
  <2>3. Pending(t) /\ t # step
    BY <2>1, <2>2, RankIsNat DEF WholeEnd, Pending
  <2> QED BY <2>3, TakesStep
<1> QED BY <1>1, <1>2, <1>3 DEF LeftOK, Pending

(* A run that has stopped, and one that has not begun, leave nothing.       *)
LEMMA NothingLeft ==
  ASSUME run'.left = <<>>
  PROVE  LeftOK' /\ ~Underway'
<1>1. \A t : ~In(run'.left, t)
  BY DEF In
<1>2. Ordered(run'.left)
  BY DEF Ordered
<1>3. WholeEnd(run'.left, run'.esp)
  BY <1>1 DEF WholeEnd
<1> QED BY <1>1, <1>2, <1>3 DEF LeftOK, Pending, Underway

(* Which steps a lift still has: all those after the one it is at, and none *)
(* before it.                                                               *)
LEMMA Ahead ==
  ASSUME LiftInv, run.command = "lift", NEW x \in Steps, NEW t \in OfLift(run.esp),
         Rank(x) < Rank(t), Pending(x)
  PROVE  Pending(t)
  BY DEF LiftInv, LeftOK, WholeEnd, Pending

Runs == [command : {"none", "lift", "grub-only"}, left : Seq(Steps),
         plan : 1..Releases, esp : BOOLEAN,
         found : {"ubuntu", "xen", "unset"}, broken : BOOLEAN,
         warned : BOOLEAN, lost : BOOLEAN]

LEMMA TypesStep ==
  ASSUME LiftInv, Next
  PROVE  TypeOK'
<1>1. /\ TypeOK /\ run \in Runs /\ release \in 1..Releases /\ esp \in BOOLEAN
      /\ Releases \in Nat /\ Releases >= 1 /\ MaxBreaks \in Nat
      /\ \A i \in 1..Releases : i \in Contents /\ i # Absent /\ i # Torn
      /\ Torn \in Contents /\ Torn # Absent
  BY LiftAssumption DEF LiftInv, TypeOK, Runs, Contents, Absent, Torn
<1>2. ASSUME Underway
      PROVE  Advanced \in Runs /\ Failed \in Runs /\ [Advanced EXCEPT !.lost = TRUE] \in Runs
             /\ [Advanced EXCEPT !.warned = TRUE] \in Runs
  <2>1. run.left \in Seq(Steps) /\ Tail(run.left) \in Seq(Steps)
    BY <1>1, <1>2, HeadTailProperties DEF Underway, Runs
  <2>2. <<>> \in Seq(Steps)
    OBVIOUS
  <2> QED BY <1>1, <2>1, <2>2 DEF Advanced, Failed, Runs
<1>3. ASSUME BreakLeft, CountBreak PROVE breaks' \in 0..MaxBreaks
  BY <1>1, <1>3 DEF BreakLeft, CountBreak, TypeOK
<1>4. CASE StartLift \/ StartGrubOnly
  <2>1. PICK command \in {"lift", "grub-only"}, steps \in Seq(Steps) : Start(command, steps)
    BY <1>4, LiftStart, GrubStart DEF StartLift, StartGrubOnly
  <2>2. run' \in Runs
    BY <1>1, <2>1 DEF Start, Run, Runs, TypeOK
  <2> QED BY <1>1, <2>1, <2>2 DEF Start, TypeOK, Runs
<1>5. CASE Build \/ EntryThere \/ Verify
  BY <1>1, <1>2, <1>5, SMTT(30) DEF Build, EntryThere, Verify, At, TypeOK, Runs
<1>6. ASSUME NEW f \in Files, Write(f) PROVE TypeOK'
  <2>1. Source(f) \in Contents
    BY <1>1 DEF Source, TypeOK, Runs, Files, BootFiles
  <2>2. file' \in [Files -> Contents]
    BY <1>1, <1>6, <2>1 DEF Write, TypeOK
  <2> QED BY <1>1, <1>2, <1>6, <2>2 DEF Write, At, TypeOK, Runs
<1>7. CASE CreateEntry
  <2>1. ThenRestore(Tail(run.left)) \in Seq(Steps)
    <3>1. Tail(run.left) \in Seq(Steps) /\ <<"order">> \in Seq(Steps)
      BY <1>1, <1>7, HeadTailProperties DEF CreateEntry, At, Underway, Runs, Steps
    <3>2. <<"order">> \o Tail(run.left) \in Seq(Steps)
      BY <3>1, ConcatProperties
    <3> QED BY <3>1, <3>2 DEF ThenRestore
  <2>2. run' \in Runs
    BY <1>1, <1>7, <2>1 DEF CreateEntry, Runs
  <2>3. nvram' \in [entry : BOOLEAN, first : {"ubuntu", "xen", "unset"}]
    BY <1>7 DEF CreateEntry
  <2> QED BY <1>1, <1>7, <2>2, <2>3 DEF CreateEntry, TypeOK, Runs
<1>8. CASE RestoreOrder
  <2>1. nvram' \in [entry : BOOLEAN, first : {"ubuntu", "xen", "unset"}]
    BY <1>1, <1>8 DEF RestoreOrder, TypeOK
  <2> QED BY <1>1, <1>2, <1>8, <2>1 DEF RestoreOrder, At, TypeOK, Runs
<1>9. CASE WriteScript
  <2>1. script' \in [text : Contents, esp : BOOLEAN, exec : BOOLEAN] /\ script'.text # Absent
    BY <1>1, <1>9 DEF WriteScript, Rendered, TypeOK, Runs
  <2> QED BY <1>1, <1>2, <1>9, <2>1 DEF WriteScript, At, TypeOK, Runs
<1>10. CASE Chmod
  <2>1. script' \in [text : Contents, esp : BOOLEAN, exec : BOOLEAN] /\ script'.text = script.text
    BY <1>1, <1>10 DEF Chmod, TypeOK
  <2>2. script.text # Absent
    <3>1. Pending("script") => Rank("chmod") <= Rank("script")
      <4>1. Takes("chmod")
        BY <1>1, <1>10, Advances DEF Chmod, Takes, SamePlan
      <4> QED BY <4>1, TakesStep, RankIsNat DEF Rank
    <3>2. ~Pending("script")
      BY <3>1 DEF Rank
    <3> QED BY <1>10, <3>2 DEF LiftInv, FilesFirst, Chmod, At
  <2> QED BY <1>1, <1>2, <1>10, <2>1, <2>2 DEF Chmod, At, TypeOK, Runs
<1>11. Generated.text # Torn => Generated \in [text : Contents \ {Torn}, esp : BOOLEAN]
  BY <1>1 DEF Generated, TypeOK, Contents, Absent
<1>12. CASE UpdateGrub
  <2>1. grub' \in [text : Contents \ {Torn}, esp : BOOLEAN]
    BY <1>1, <1>11, <1>12 DEF UpdateGrub, TypeOK
  <2> QED BY <1>1, <1>2, <1>12, <2>1 DEF UpdateGrub, At, TypeOK, Runs
<1>13. CASE HostUpdatesGrub
  BY <1>1, <1>11, <1>13 DEF HostUpdatesGrub, TypeOK, Runs
<1>14. CASE PackLoses
  <2>1. file' \in [Files -> Contents]
    BY <1>1, <1>14 DEF PackLoses, TypeOK
  <2> QED BY <1>1, <1>2, <1>3, <1>14, <2>1 DEF PackLoses, At, TypeOK, Runs
<1>15. CASE EntryFails \/ RestoreFails \/ UbuntuMissing
  <2>1. run' \in Runs
    BY <1>2, <1>15 DEF EntryFails, RestoreFails, UbuntuMissing, At
  <2>2. breaks' \in 0..MaxBreaks /\ UNCHANGED <<release, esp, file, script, grub, nvram>>
    BY <1>3, <1>15 DEF EntryFails, RestoreFails, UbuntuMissing
  <2>3. meant' \in [first : {"ubuntu", "unset"}, cut : BOOLEAN]
    BY <1>1, <1>15 DEF EntryFails, RestoreFails, UbuntuMissing, TypeOK
  <2> QED BY <1>1, <2>1, <2>2, <2>3 DEF TypeOK, Runs
<1>16. CASE Break
  <2>1. file' \in [Files -> Contents]
    BY <1>1, <1>16 DEF Break, TypeOK
  <2>2. /\ script' \in [text : Contents, esp : BOOLEAN, exec : BOOLEAN]
        /\ script'.exec => script'.text # Absent
    BY <1>1, <1>16 DEF Break, TypeOK
  <2>3. meant' \in [first : {"ubuntu", "unset"}, cut : BOOLEAN]
    BY <1>1, <1>16 DEF Break, At, Underway, TypeOK
  <2> QED BY <1>1, <1>2, <1>3, <1>16, <2>1, <2>2, <2>3 DEF Break, TypeOK, Runs
<1>17. CASE NewRelease
  BY <1>1, <1>17 DEF NewRelease, TypeOK, Runs
<1>18. CASE EspAppears
  BY <1>1, <1>18 DEF EspAppears, TypeOK, Runs
<1>19. CASE FirmwareForgets
  BY <1>1, <1>19 DEF FirmwareForgets, TypeOK, Runs
<1> QED BY <1>4, <1>5, <1>6, <1>7, <1>8, <1>9, <1>10, <1>12, <1>13, <1>14, <1>15, <1>16,
           <1>17, <1>18, <1>19 DEF Next, Tool

(* Which step each action takes. Creating the entry may add a step.         *)
LEMMA Steppers ==
  ASSUME TypeOK
  PROVE  /\ Build => Takes("build")
         /\ \A f \in Files : Write(f) => Takes(f)
         /\ PackLoses => Takes("cpio")
         /\ EntryThere \/ EntryFails => Takes("entry")
         /\ RestoreOrder \/ RestoreFails => Takes("order")
         /\ WriteScript => Takes("script")
         /\ Chmod => Takes("chmod")
         /\ UpdateGrub => Takes("update-grub") \/ run' = Failed
         /\ Verify => Takes("verify") \/ run' = Failed
<1>1. ASSUME NEW step, At(step), run' = Advanced PROVE Takes(step)
  BY <1>1, Advances DEF Takes, SamePlan
<1>2. ASSUME PackLoses PROVE Takes("cpio")
  BY <1>2, Advances DEF PackLoses, Takes, SamePlan, Advanced
<1>3. ASSUME RestoreFails PROVE Takes("order")
  BY <1>3, Advances DEF RestoreFails, Takes, SamePlan, Advanced
<1> QED BY <1>1, <1>2, <1>3 DEF Build, Write, EntryThere, EntryFails, RestoreOrder, WriteScript,
           Chmod, UpdateGrub, Verify

(* Creating the entry: the rest of the run is what came after it, with the  *)
(* restoring of the order in front unless there is none to restore.         *)
LEMMA EntryCreated ==
  ASSUME LiftInv, CreateEntry
  PROVE  /\ LeftOK' /\ SamePlan /\ run'.warned = run.warned /\ run'.lost = run.lost
         /\ Pending("entry") /\ ~Pending("order")
         /\ \A t : Pending(t)' <=> \/ Pending(t) /\ t # "entry"
                                   \/ t = "order" /\ nvram.first # "unset"
<1> DEFINE rest == Tail(run.left)
<1>1. /\ run.left \in Seq(Steps) /\ run.left # <<>> /\ Ordered(run.left) /\ Head(run.left) = "entry"
      /\ run' = [run EXCEPT !.left = ThenRestore(rest)]
  BY DEF LiftInv, TypeOK, LeftOK, CreateEntry, At, Underway
<1>2. /\ SamePlan /\ run'.warned = run.warned /\ run'.lost = run.lost
      /\ run'.left = ThenRestore(rest)
  BY <1>1 DEF SamePlan, LiftInv, TypeOK
<1>3. /\ rest \in Seq(Steps) /\ Ordered(rest) /\ Pending("entry")
      /\ \A t : In(rest, t) <=> Pending(t) /\ t # "entry"
      /\ \A t : Pending(t) => t = "entry" \/ Rank("entry") < Rank(t)
  BY <1>1, StepTaken DEF Pending
<1> HIDE DEF rest
<1>4. ~Pending("order")
  BY <1>3 DEF LiftInv, LeftOK
<1>5. /\ Ordered(run'.left)
      /\ \A t : In(run'.left, t) <=> \/ Pending(t) /\ t # "entry"
                                     \/ t = "order" /\ nvram.first # "unset"
  <2>1. CASE nvram.first = "unset"
    BY <1>2, <1>3, <2>1 DEF ThenRestore
  <2>2. CASE nvram.first # "unset"
    <3>1. run'.left = <<"order">> \o rest
      BY <1>2, <2>2 DEF ThenRestore
    <3>2. <<"order">> \in Seq(Steps) /\ Ordered(<<"order">>) /\ \A t : In(<<"order">>, t) <=> t = "order"
      BY DEF Steps, Ordered, In
    <3>3. \A a, b : In(<<"order">>, a) /\ In(rest, b) => Rank(a) < Rank(b)
      <4>1. \A b : Rank(b) > 8 /\ b # "order" => Rank(b) > 9
        BY DEF Rank
      <4>2. \A b : In(rest, b) => Rank(b) > 8 /\ b # "order"
        BY <1>3, <1>4 DEF Rank
      <4>3. Rank("order") = 9
        BY DEF Rank
      <4> QED BY <3>2, <4>1, <4>2, <4>3
    <3>4. /\ Ordered(<<"order">> \o rest)
          /\ \A t : In(<<"order">> \o rest, t) <=> In(<<"order">>, t) \/ In(rest, t)
      BY <1>3, <3>2, <3>3, Joined
    <3> QED BY <1>3, <2>2, <3>1, <3>2, <3>4
  <2> QED BY <2>1, <2>2
<1>6. ASSUME run'.command = "lift" PROVE WholeEnd(run'.left, run'.esp)
  <2> SUFFICES ASSUME NEW x \in Steps, NEW t \in OfLift(run.esp),
                      In(run'.left, x), Rank(x) < Rank(t)
               PROVE  In(run'.left, t)
    BY <1>2 DEF WholeEnd, SamePlan
  <2>1. run.command = "lift"
    BY <1>2, <1>6 DEF SamePlan
  <2>2. Rank("entry") < Rank(x)
    BY <1>3, <1>5 DEF Rank
  <2>3. Rank("entry") < Rank(t) /\ "entry" \in Steps
    BY <2>2, RankIsNat DEF Steps
  <2>4. Pending(t) /\ t # "entry"
    BY <1>3, <2>1, <2>3, RankIsNat, Ahead
  <2> QED BY <1>5, <2>4
<1>7. ~In(run'.left, "entry")
  BY <1>5
<1> QED BY <1>2, <1>3, <1>4, <1>5, <1>6, <1>7 DEF LeftOK, Pending

LEMMA LeftStep ==
  ASSUME LiftInv, Next
  PROVE  LeftOK'
<1>1. TypeOK
  BY DEF LiftInv
<1>2. ASSUME run' = Failed PROVE LeftOK'
  BY <1>1, <1>2, Advances, NothingLeft
<1>3. CASE Tool \/ PackLoses \/ EntryFails \/ RestoreFails
  BY <1>1, <1>2, <1>3, Steppers, TakesLeft, EntryCreated DEF Tool
<1>4. CASE UbuntuMissing \/ Break
  BY <1>2, <1>4 DEF UbuntuMissing, Break
<1>5. CASE StartLift
  <2>1. run'.left = LiftSteps /\ run'.esp = esp
    BY <1>5 DEF StartLift, Start, Run
  <2> QED BY <2>1, LiftStart DEF LeftOK, Pending, WholeEnd, OfLift
<1>6. CASE StartGrubOnly
  <2>1. run'.left = GrubSteps /\ run'.command = "grub-only"
    BY <1>6 DEF StartGrubOnly, Start, Run
  <2> QED BY <2>1, GrubStart DEF LeftOK, Pending
<1>7. CASE NewRelease \/ EspAppears \/ FirmwareForgets \/ HostUpdatesGrub
  <2>1. run' = run
    BY <1>7 DEF NewRelease, EspAppears, FirmwareForgets, HostUpdatesGrub
  <2> QED BY <2>1 DEF LiftInv, LeftOK, Pending
<1> QED BY <1>3, <1>4, <1>5, <1>6, <1>7 DEF Next

(* ----- the three facts about what a run has done ------------------------ *)

LEMMA FilesStep ==
  ASSUME LiftInv, Next
  PROVE  FilesFirst'
<1>1. /\ TypeOK /\ FilesFirst /\ Releases \in Nat /\ run.plan >= 1 /\ run.plan \in Nat
      /\ Absent = 0 /\ Torn = Releases + 1 /\ Torn # Absent /\ run.plan # Absent
  BY LiftAssumption DEF LiftInv, TypeOK, Absent, Torn
<1> DEFINE There == \A f \in BootFiles : file[f] # Absent
<1>2. ASSUME \A f \in Files : file[f] # Absent => file'[f] # Absent,
             There \/ (script'.text = script.text /\ grub'.text = grub.text),
             \/ ~Underway'
             \/ /\ \A f \in BootFiles : Pending(f)' \/ file'[f] # Absent
                /\ Pending("script")' \/ script'.text # Absent
      PROVE  FilesFirst'
  BY <1>1, <1>2 DEF FilesFirst, Files
<1>3. ASSUME NEW step, Takes(step), step \notin Files, step # "script",
             UNCHANGED <<file, script>>, There \/ grub' = grub
      PROVE  FilesFirst'
  <2>1. Underway
    BY <1>3 DEF Takes, At
  <2>2. \A t : Pending(t) => t = step \/ Pending(t)'
    BY <1>3, TakesStep DEF Pending
  <2> QED BY <1>1, <1>2, <1>3, <2>1, <2>2 DEF FilesFirst, Files
<1>4. ASSUME run' = Failed, UNCHANGED <<file, script, grub>>
      PROVE  FilesFirst'
  BY <1>1, <1>2, <1>4, Advances, NothingLeft DEF FilesFirst
<1>5. script.text # Absent \/ (Underway /\ ~Pending("cpio") /\ ~Pending("kernel")) => There
  BY <1>1 DEF FilesFirst, BootFiles
<1>6. CASE Build \/ EntryThere \/ EntryFails \/ RestoreOrder \/ RestoreFails
  BY <1>1, <1>3, <1>6, Steppers DEF Build, EntryThere, EntryFails, RestoreOrder, RestoreFails, Files,
     BootFiles, EspFiles
<1>7. CASE Chmod
  <2>1. script'.text = script.text
    BY <1>1, <1>7 DEF Chmod, TypeOK
  <2>2. Takes("chmod") /\ Underway
    BY <1>1, <1>7, Steppers DEF Takes, At
  <2>3. \A t : Pending(t) => t = "chmod" \/ Pending(t)'
    BY <2>2, TakesStep DEF Pending
  <2> QED BY <1>1, <1>2, <1>7, <2>1, <2>2, <2>3 DEF Chmod, FilesFirst, BootFiles
<1>8. ASSUME NEW f \in Files, Write(f) PROVE FilesFirst'
  <2>1. Takes(f) /\ Underway
    BY <1>1, <1>8, Steppers DEF Takes, At
  <2>2. \A t : Pending(t) => t = f \/ (Pending(t)' /\ Rank(f) < Rank(t))
    BY <2>1, TakesStep DEF Pending
  <2>3. file' = [file EXCEPT ![f] = Source(f)] /\ UNCHANGED <<script, grub>>
    BY <1>8 DEF Write
  <2>4. f \in BootFiles \cup {"manifest", "xen.efi", "xen.cfg"} => file'[f] = run.plan
    BY <1>1, <2>3 DEF Source, Files, BootFiles, EspFiles, TypeOK
  <2>5. f = "vmlinuz" => file["kernel"] # Absent /\ file'[f] = file["kernel"]
    <3>1. f = "vmlinuz" => ~Pending("kernel")
      BY <2>2, RankIsNat DEF Rank
    <3> QED BY <1>1, <2>1, <2>3, <3>1 DEF FilesFirst, Source, BootFiles, TypeOK
  <2>6. f = "initrd" => file["cpio"] # Absent /\ file'[f] = file["cpio"]
    <3>1. f = "initrd" => ~Pending("cpio")
      BY <2>2, RankIsNat DEF Rank
    <3> QED BY <1>1, <2>1, <2>3, <3>1 DEF FilesFirst, Source, BootFiles, TypeOK
  <2>7. file'[f] # Absent /\ \A g \in Files : g # f => file'[g] = file[g]
    BY <1>1, <2>3, <2>4, <2>5, <2>6 DEF Files, BootFiles, EspFiles, TypeOK
  <2>8. f # "script"
    BY DEF Files, BootFiles, EspFiles
  <2> QED BY <1>1, <1>2, <2>1, <2>2, <2>3, <2>7, <2>8 DEF FilesFirst, Files
<1>9. CASE PackLoses
  <2>1. Takes("cpio") /\ Underway /\ "cpio" \in Files
    BY <1>1, <1>9, Steppers DEF Takes, At, Files, BootFiles
  <2>2. \A t : Pending(t) => t = "cpio" \/ Pending(t)'
    BY <2>1, TakesStep DEF Pending
  <2>3. file'["cpio"] = Torn /\ \A g \in Files : g # "cpio" => file'[g] = file[g]
    BY <1>1, <1>9, <2>1 DEF PackLoses, TypeOK
  <2> QED BY <1>1, <1>2, <1>9, <2>1, <2>2, <2>3 DEF PackLoses, FilesFirst, Files
<1>10. CASE CreateEntry
  <2>1. Underway /\ UNCHANGED <<file, script, grub>>
    BY <1>10 DEF CreateEntry, At
  <2>2. \A t : Pending(t) => t = "entry" \/ Pending(t)'
    BY <1>10, EntryCreated
  <2> QED BY <1>1, <1>2, <2>1, <2>2 DEF FilesFirst, BootFiles
<1>11. CASE WriteScript
  <2>1. Takes("script") /\ Underway
    BY <1>1, <1>11, Steppers DEF Takes, At
  <2>2. /\ \A t : Pending(t) => t = "script" \/ Pending(t)'
        /\ ~Pending("cpio") /\ ~Pending("kernel")
    BY <2>1, TakesStep DEF Pending, Rank
  <2>3. script'.text = run.plan /\ UNCHANGED <<file, grub>>
    BY <1>1, <1>11 DEF WriteScript, Rendered, TypeOK
  <2> QED BY <1>1, <1>2, <1>5, <2>1, <2>2, <2>3 DEF FilesFirst, BootFiles
<1>12. Generated.text # Absent => There
  BY <1>5 DEF Generated
<1>13. CASE UpdateGrub
  <2>1. grub'.text # Absent /\ grub'.text # grub.text => There
    BY <1>12, <1>13 DEF UpdateGrub
  <2>2. CASE run' = Failed
    BY <1>1, <1>13, <2>1, <2>2, Advances, NothingLeft DEF FilesFirst, UpdateGrub
  <2>3. CASE Takes("update-grub")
    <3>1. \A t : Pending(t) => t = "update-grub" \/ Pending(t)'
      BY <2>3, TakesStep DEF Pending
    <3>2. Underway /\ UNCHANGED <<file, script>>
      BY <1>13 DEF UpdateGrub, At
    <3> QED BY <1>1, <2>1, <3>1, <3>2 DEF FilesFirst, BootFiles
  <2> QED BY <1>1, <1>13, <2>2, <2>3, Steppers
<1>14. CASE Verify
  BY <1>1, <1>3, <1>4, <1>14, Steppers DEF Verify, Files, BootFiles, EspFiles
<1>21. CASE UbuntuMissing
  BY <1>4, <1>21 DEF UbuntuMissing
<1>15. CASE Break
  <2>1. run' = Failed /\ Underway /\ ~Underway' /\ grub' = grub
    BY <1>1, <1>15, Advances, NothingLeft DEF Break
  <2>2. CASE At("script") /\ script' = [script EXCEPT !.text = Torn] /\ UNCHANGED file
    <3>1. run.left \in Seq(Steps) /\ run.left # <<>> /\ Ordered(run.left) /\ Head(run.left) = "script"
      BY <2>2 DEF LiftInv, TypeOK, LeftOK, At, Underway
    <3>2. ~Pending("cpio") /\ ~Pending("kernel")
      BY <3>1, StepTaken DEF Pending, Rank
    <3> QED BY <1>2, <1>5, <2>1, <2>2, <3>2
  <2>3. CASE UNCHANGED <<file, script>>
    BY <1>2, <2>1, <2>3
  <2>4. CASE Head(run.left) \in Files /\ file' = [file EXCEPT ![Head(run.left)] = Torn] /\ UNCHANGED script
    BY <1>1, <1>2, <2>1, <2>4 DEF TypeOK
  <2> QED BY <1>15, <2>2, <2>3, <2>4 DEF Break
<1>16. ASSUME NEW command, NEW steps, Start(command, steps),
              \A f \in BootFiles : In(steps, f) \/ file[f] # Absent,
              In(steps, "script")
       PROVE  FilesFirst'
  <2>1. run'.left = steps /\ UNCHANGED <<file, script, grub>>
    BY <1>16 DEF Start, Run
  <2> QED BY <1>1, <1>16, <2>1 DEF FilesFirst, Pending
<1>17. CASE StartLift
  BY <1>16, <1>17, LiftStart
     DEF StartLift, OfLift, Steps, Files, BootFiles, EspFiles
<1>18. CASE StartGrubOnly
  BY <1>16, <1>18, GrubStart DEF StartGrubOnly, CanRecover
<1>19. CASE NewRelease \/ EspAppears \/ FirmwareForgets
  BY <1>1, <1>19 DEF NewRelease, EspAppears, FirmwareForgets, FilesFirst, Pending, Underway
<1>20. CASE HostUpdatesGrub
  BY <1>1, <1>12, <1>20 DEF HostUpdatesGrub, FilesFirst, Pending, Underway
<1> QED BY <1>6, <1>7, <1>8, <1>9, <1>10, <1>11, <1>13, <1>14, <1>15, <1>17, <1>18, <1>19, <1>20,
           <1>21 DEF Next, Tool

(* The parts of DoneSoFar.                                                  *)
WrittenSoFar == ~run.lost => \A f \in Written : Pending(f) \/ file[f] = run.plan

StagedSoFar == run.esp => /\ Pending("vmlinuz") \/ file["vmlinuz"] = file["kernel"]
                          /\ Pending("initrd") \/ file["initrd"] = file["cpio"]

GrubSoFar ==
  /\ Pending("script") \/ (script.text = run.plan /\ script.esp = run.esp)
  /\ Pending("chmod") \/ script.exec
  /\ Pending("update-grub") \/ grub = [text |-> run.plan, esp |-> run.esp]

LEMMA DoneStep ==
  ASSUME LiftInv, Next
  PROVE  DoneSoFar'
<1>1. /\ TypeOK /\ Releases \in Nat /\ run.plan \in 1..Releases /\ run.esp \in BOOLEAN
      /\ Torn = Releases + 1 /\ run.plan # Torn /\ run.plan # Absent
      /\ BootFiles \subseteq Files /\ EspFiles \subseteq Files /\ Written \subseteq Files
  BY LiftAssumption DEF LiftInv, TypeOK, Absent, Torn, Files, Written
<1> SUFFICES ASSUME run'.command = "lift", ~run'.broken
             PROVE  (WrittenSoFar /\ StagedSoFar /\ GrubSoFar)'
  BY DEF DoneSoFar, WrittenSoFar, StagedSoFar, GrubSoFar
<1>2. ASSUME SamePlan
      PROVE  /\ run.command = "lift" /\ ~run.broken /\ WrittenSoFar /\ StagedSoFar /\ GrubSoFar
             /\ Written' = Written
  BY <1>2 DEF SamePlan, LiftInv, DoneSoFar, WrittenSoFar, StagedSoFar, GrubSoFar, Written
<1>3. ASSUME SamePlan, run'.lost = run.lost, UNCHANGED file,
             \A t \in Files : Pending(t) => Pending(t)'
      PROVE  (WrittenSoFar /\ StagedSoFar)'
  BY <1>1, <1>2, <1>3 DEF WrittenSoFar, StagedSoFar, SamePlan, Files, EspFiles
<1>4. ASSUME SamePlan, UNCHANGED <<script, grub>>,
             \A t \in {"script", "chmod", "update-grub"} : Pending(t) => Pending(t)'
      PROVE  GrubSoFar'
  BY <1>2, <1>4 DEF GrubSoFar, SamePlan
<1>5. ASSUME NEW step, Takes(step), run'.lost = run.lost, UNCHANGED <<file, script, grub>>,
             step \notin Files, step \notin {"script", "chmod", "update-grub"}
      PROVE  (WrittenSoFar /\ StagedSoFar /\ GrubSoFar)'
  <2>1. SamePlan /\ \A t : Pending(t) => t = step \/ Pending(t)'
    BY <1>5, TakesStep DEF Takes, Pending
  <2>2. \A t : t \in Files \/ t \in {"script", "chmod", "update-grub"} => t # step
    BY <1>5
  <2> QED BY <1>3, <1>4, <1>5, <2>1, <2>2
<1>6. /\ "build" \notin Files /\ "entry" \notin Files /\ "order" \notin Files
      /\ "script" \notin Files /\ "chmod" \notin Files /\ "update-grub" \notin Files
      /\ "verify" \notin Files
  BY DEF Files, BootFiles, EspFiles
<1>7. run' # Failed
  BY <1>1, Advances
<1>8. CASE Build \/ EntryThere \/ EntryFails \/ RestoreOrder \/ RestoreFails \/ Verify
  <2>1. run'.lost = run.lost /\ UNCHANGED <<file, script, grub>>
    BY <1>1, <1>7, <1>8, Advances
       DEF Build, EntryThere, EntryFails, RestoreOrder, RestoreFails, Verify, Advanced, TypeOK
  <2>2. \E step \in {"build", "entry", "order", "verify"} : Takes(step)
    BY <1>1, <1>7, <1>8, Steppers
  <2> QED BY <1>5, <1>6, <2>1, <2>2
<1>9. CASE CreateEntry
  <2>1. SamePlan /\ run'.lost = run.lost /\ \A t : Pending(t) => t = "entry" \/ Pending(t)'
    BY <1>9, EntryCreated
  <2>2. UNCHANGED <<file, script, grub>>
    BY <1>9 DEF CreateEntry
  <2> QED BY <1>3, <1>4, <1>6, <2>1, <2>2
<1>10. ASSUME NEW f \in Files, Write(f) PROVE (WrittenSoFar /\ StagedSoFar /\ GrubSoFar)'
  <2>1. Takes(f) /\ SamePlan
    BY <1>1, <1>10, Steppers DEF Takes
  <2>2. /\ \A t : Pending(t)' <=> Pending(t) /\ t # f
        /\ \A t : Pending(t) => t = f \/ Rank(f) < Rank(t)
        /\ Pending(f) /\ f \in Steps
    BY <2>1, TakesStep DEF Pending
  <2>3. /\ file' = [file EXCEPT ![f] = Source(f)] /\ UNCHANGED <<script, grub>>
        /\ run'.lost = run.lost /\ run'.plan = run.plan /\ run'.esp = run.esp
    BY <1>1, <1>10, Advances DEF Write
  <2>4. file'[f] = Source(f) /\ \A g \in Files : g # f => file'[g] = file[g]
    BY <1>1, <2>3 DEF TypeOK
  <2>5. GrubSoFar'
    BY <1>4, <1>6, <2>1, <2>2, <2>3
  <2>6. /\ f = "vmlinuz" => ~Pending("kernel") /\ Source(f) = file["kernel"]
        /\ f = "initrd" => ~Pending("cpio") /\ Source(f) = file["cpio"]
        /\ f \notin {"vmlinuz", "initrd"} => Source(f) = run.plan
    BY <2>2 DEF Source, Rank
  <2>7. WrittenSoFar'
    <3>1. ASSUME ~run.lost, NEW g \in Written PROVE Pending(g)' \/ file'[g] = run.plan
      <4>1. CASE g # f
        BY <1>1, <1>2, <2>1, <2>2, <2>4, <3>1, <4>1 DEF WrittenSoFar
      <4>2. CASE g = f
        <5>1. "kernel" \in Written /\ "cpio" \in Written
          BY DEF Written, BootFiles
        <5>2. (Pending("kernel") \/ file["kernel"] = run.plan) /\ (Pending("cpio") \/ file["cpio"] = run.plan)
          BY <1>2, <2>1, <3>1, <5>1 DEF WrittenSoFar
        <5> QED BY <2>4, <2>6, <4>2, <5>2
      <4> QED BY <4>1, <4>2
    <3> QED BY <1>2, <2>1, <2>3, <3>1 DEF WrittenSoFar
  <2>8. StagedSoFar'
    <3>1. ASSUME run.esp, f = "kernel" PROVE Pending("vmlinuz")
      <4>1. "vmlinuz" \in OfLift(run.esp) /\ Rank("kernel") < Rank("vmlinuz")
        BY <3>1 DEF OfLift, Steps, Files, EspFiles, Rank
      <4> QED BY <1>2, <2>1, <2>2, <3>1, <4>1, Ahead
    <3>2. ASSUME run.esp, f = "cpio" PROVE Pending("initrd")
      <4>1. "initrd" \in OfLift(run.esp) /\ Rank("cpio") < Rank("initrd")
        BY <3>2 DEF OfLift, Steps, Files, EspFiles, Rank
      <4> QED BY <1>2, <2>1, <2>2, <3>2, <4>1, Ahead
    <3>3. "kernel" \in Files /\ "cpio" \in Files /\ "vmlinuz" \in Files /\ "initrd" \in Files
      BY DEF Files, BootFiles, EspFiles
    <3>4. run.esp => Pending("vmlinuz")' \/ file'["vmlinuz"] = file'["kernel"]
      BY <1>2, <2>1, <2>2, <2>4, <2>6, <3>1, <3>3 DEF StagedSoFar
    <3>5. run.esp => Pending("initrd")' \/ file'["initrd"] = file'["cpio"]
      BY <1>2, <2>1, <2>2, <2>4, <2>6, <3>2, <3>3 DEF StagedSoFar
    <3> QED BY <2>3, <3>4, <3>5 DEF StagedSoFar
  <2> QED BY <2>5, <2>7, <2>8
<1>11. CASE PackLoses
  <2>1. Takes("cpio") /\ SamePlan
    BY <1>1, <1>11, Steppers DEF Takes
  <2>2. /\ \A t : Pending(t)' <=> Pending(t) /\ t # "cpio"
        /\ Pending("cpio") /\ "cpio" \in Steps
    BY <2>1, TakesStep DEF Pending
  <2>3. run'.lost /\ UNCHANGED <<script, grub>> /\ run'.esp = run.esp
        /\ file' = [file EXCEPT !["cpio"] = Torn]
    BY <1>1, <1>11, <2>1 DEF PackLoses, SamePlan, Advanced, TypeOK
  <2>4. GrubSoFar'
    BY <1>4, <2>1, <2>2, <2>3
  <2>5. run.esp => Pending("initrd")
    <3>1. run.esp => "initrd" \in OfLift(run.esp) /\ Rank("cpio") < Rank("initrd")
      BY DEF OfLift, Steps, Files, EspFiles, Rank
    <3> QED BY <1>2, <2>1, <2>2, <3>1, Ahead
  <2>6. file'["vmlinuz"] = file["vmlinuz"] /\ file'["kernel"] = file["kernel"]
    BY <1>1, <2>3 DEF TypeOK, Files, EspFiles, BootFiles
  <2>7. StagedSoFar'
    BY <1>2, <2>1, <2>2, <2>3, <2>5, <2>6 DEF StagedSoFar
  <2> QED BY <2>3, <2>4, <2>7 DEF WrittenSoFar
<1>12. /\ OfLift(run.esp) \subseteq Steps
       /\ {"script", "chmod", "update-grub"} \subseteq OfLift(run.esp)
       /\ Rank("script") < Rank("update-grub") /\ Rank("chmod") < Rank("update-grub")
  BY DEF OfLift, Steps, Files, EspFiles, BootFiles, Rank
<1>13. CASE WriteScript
  <2>1. Takes("script") /\ SamePlan /\ UNCHANGED <<file, grub>> /\ run'.lost = run.lost
    BY <1>1, <1>13, Steppers, Advances DEF Takes, WriteScript
  <2>2. /\ \A t : Pending(t)' <=> Pending(t) /\ t # "script"
        /\ Pending("script")
    BY <2>1, TakesStep DEF Pending
  <2>3. script'.text = run.plan /\ script'.esp = run.esp /\ script'.exec = script.exec
    BY <1>1, <1>13 DEF WriteScript, Rendered, TypeOK
  <2>4. Pending("update-grub")
    BY <1>2, <1>12, <2>1, <2>2, Ahead
  <2>5. GrubSoFar'
    BY <1>2, <2>1, <2>2, <2>3, <2>4 DEF GrubSoFar, SamePlan
  <2> QED BY <1>3, <1>6, <2>1, <2>2, <2>5
<1>14. CASE Chmod
  <2>1. Takes("chmod") /\ SamePlan /\ UNCHANGED <<file, grub>> /\ run'.lost = run.lost
    BY <1>1, <1>14, Steppers, Advances DEF Takes, Chmod
  <2>2. /\ \A t : Pending(t)' <=> Pending(t) /\ t # "chmod"
        /\ Pending("chmod")
    BY <2>1, TakesStep DEF Pending
  <2>3. script'.text = script.text /\ script'.esp = script.esp /\ script'.exec
    BY <1>1, <1>14 DEF Chmod, TypeOK
  <2>4. Pending("update-grub")
    BY <1>2, <1>12, <2>1, <2>2, Ahead
  <2>5. GrubSoFar'
    BY <1>2, <2>1, <2>2, <2>3, <2>4 DEF GrubSoFar, SamePlan
  <2> QED BY <1>3, <1>6, <2>1, <2>2, <2>5
<1>15. CASE UpdateGrub
  <2>1. Takes("update-grub") /\ SamePlan /\ UNCHANGED <<file, script>> /\ run'.lost = run.lost
        /\ grub' = Generated
    BY <1>1, <1>7, <1>15, Steppers, Advances DEF Takes, UpdateGrub
  <2>2. /\ \A t : Pending(t)' <=> Pending(t) /\ t # "update-grub"
        /\ \A t : Pending(t) => t = "update-grub" \/ Rank("update-grub") < Rank(t)
    BY <2>1, TakesStep DEF Pending
  <2>3. ~Pending("script") /\ ~Pending("chmod")
    BY <2>2 DEF Rank
  <2>4. grub' = [text |-> run.plan, esp |-> run.esp]
    BY <1>2, <2>1, <2>3 DEF GrubSoFar, Generated
  <2>5. GrubSoFar'
    BY <1>2, <2>1, <2>2, <2>3, <2>4 DEF GrubSoFar, SamePlan
  <2> QED BY <1>3, <1>6, <2>1, <2>2, <2>5
<1>16. ASSUME run' = run, UNCHANGED <<file, script>>,
              grub' = grub \/ grub' = Generated
       PROVE  (WrittenSoFar /\ StagedSoFar /\ GrubSoFar)'
  <2>1. SamePlan /\ \A t : Pending(t)' <=> Pending(t)
    BY <1>16 DEF SamePlan, Pending
  <2>2. ~Pending("update-grub") => ~Pending("script") /\ ~Pending("chmod")
    BY <1>2, <1>12, <2>1, Ahead
  <2>3. ~Pending("update-grub") => grub' = [text |-> run.plan, esp |-> run.esp]
    BY <1>2, <1>16, <2>1, <2>2 DEF GrubSoFar, Generated
  <2>4. GrubSoFar'
    BY <1>2, <1>16, <2>1, <2>3 DEF GrubSoFar
  <2> QED BY <1>3, <1>16, <2>1, <2>4
<1>17. CASE NewRelease \/ EspAppears \/ FirmwareForgets \/ HostUpdatesGrub
  BY <1>16, <1>17 DEF NewRelease, EspAppears, FirmwareForgets, HostUpdatesGrub
<1>18. CASE StartLift
  <2>1. run'.left = LiftSteps /\ run'.esp = esp
    BY <1>18 DEF StartLift, Start, Run
  <2>2. \A t \in OfLift(esp) : Pending(t)'
    BY <2>1, LiftStart DEF Pending
  <2>3. /\ Written' \subseteq OfLift(esp)
        /\ run'.esp => "vmlinuz" \in OfLift(esp) /\ "initrd" \in OfLift(esp)
        /\ "script" \in OfLift(esp) /\ "chmod" \in OfLift(esp) /\ "update-grub" \in OfLift(esp)
    BY <2>1 DEF Written, OfLift, Steps, Files, BootFiles, EspFiles
  <2> QED BY <2>2, <2>3 DEF WrittenSoFar, StagedSoFar, GrubSoFar
<1>19. CASE StartGrubOnly
  BY <1>19 DEF StartGrubOnly, Start, Run
<1>20. CASE UbuntuMissing \/ Break
  BY <1>7, <1>20 DEF UbuntuMissing, Break
<1> QED BY <1>8, <1>9, <1>10, <1>11, <1>13, <1>14, <1>15, <1>17, <1>18, <1>19, <1>20 DEF Next, Tool

(* The order after any step: put back, to be put back, or known to be cut.  *)
LEMMA OrderStep ==
  ASSUME LiftInv, Next
  PROVE  OrderKept'
<1>1. /\ TypeOK /\ OrderKept
      /\ meant \in [first : {"ubuntu", "unset"}, cut : BOOLEAN]
  BY DEF LiftInv, TypeOK
<1>2. ASSUME NEW step, At(step), step # "order" PROVE ~Pending("order")
  BY <1>1, <1>2 DEF OrderKept, At
<1>3. ASSUME NEW step, Takes(step), UNCHANGED <<nvram, meant>>, step # "order"
      PROVE  OrderKept'
  <2>1. ~Pending("order") /\ ~Pending("order")' /\ Underway
    BY <1>2, <1>3, TakesStep DEF Pending, Takes, At
  <2> QED BY <1>1, <1>3, <2>1 DEF OrderKept, Takes, SamePlan
<1>4. ASSUME run' = Failed, UNCHANGED nvram, Underway,
             \/ At("order") /\ meant'.cut
             \/ UNCHANGED meant /\ ~Pending("order")
      PROVE  OrderKept'
  <2>1. ~Underway' /\ ~Pending("order")'
    BY <1>1, <1>4, Advances DEF Underway, Pending, In
  <2> QED BY <1>1, <1>4, <2>1 DEF OrderKept
<1>5. CASE Build \/ EntryThere \/ EntryFails \/ WriteScript \/ Chmod
  BY <1>1, <1>3, <1>5, Steppers DEF Build, EntryThere, EntryFails, WriteScript, Chmod
<1>6. CASE UpdateGrub \/ Verify \/ UbuntuMissing
  <2>1. UNCHANGED <<nvram, meant>> /\ Underway /\ ~Pending("order")
    BY <1>2, <1>6 DEF UpdateGrub, Verify, UbuntuMissing, At
  <2>2. run' = Failed \/ \E step \in {"update-grub", "verify"} : Takes(step)
    BY <1>1, <1>6, Steppers DEF UbuntuMissing
  <2> QED BY <1>3, <1>4, <2>1, <2>2
<1>7. ASSUME NEW f \in Files, Write(f) \/ PackLoses
      PROVE  OrderKept'
  <2>1. UNCHANGED <<nvram, meant>>
    BY <1>7 DEF Write, PackLoses
  <2>2. (Takes(f) \/ Takes("cpio")) /\ f # "order"
    BY <1>1, <1>7, Steppers DEF Files, BootFiles, EspFiles
  <2> QED BY <1>3, <2>1, <2>2
<1>8. CASE CreateEntry
  <2>1. /\ SamePlan /\ ~Pending("order") /\ At("entry") /\ UNCHANGED meant
        /\ nvram.first # "unset" <=> Pending("order")'
    BY <1>8, EntryCreated DEF CreateEntry
  <2>2. nvram.first # "unset" => At("order")'
    <3>1. ASSUME nvram.first # "unset" PROVE run'.left = <<"order">> \o Tail(run.left)
      BY <1>1, <1>8, <3>1 DEF CreateEntry, ThenRestore, TypeOK
    <3>2. Tail(run.left) \in Seq(Steps)
      BY <1>1, <2>1, HeadTailProperties DEF At, Underway, TypeOK
    <3> QED BY <3>1, <3>2, ConcatProperties DEF At, Underway
  <2> QED BY <1>1, <2>1, <2>2 DEF OrderKept, SamePlan, At
<1>9. CASE RestoreOrder \/ RestoreFails
  <2>1. Takes("order") /\ ~Pending("order")'
    BY <1>1, <1>9, Steppers, TakesStep DEF Pending
  <2>2. CASE RestoreOrder
    BY <1>1, <2>1, <2>2 DEF RestoreOrder, OrderKept, TypeOK, Takes, SamePlan, At
  <2>3. CASE RestoreFails
    BY <1>1, <2>1, <2>3 DEF RestoreFails, OrderKept
  <2> QED BY <1>9, <2>2, <2>3
<1>10. CASE Break
  <2>1. /\ run' = Failed /\ UNCHANGED nvram /\ Underway
        /\ meant' = [meant EXCEPT !.cut = @ \/ At("order")]
    BY <1>10 DEF Break
  <2>2. CASE At("order")
    BY <1>1, <1>4, <2>1, <2>2
  <2>3. CASE ~At("order")
    <3>1. ~Pending("order")
      BY <1>1, <2>3 DEF OrderKept
    <3>2. meant' = meant
      BY <1>1, <2>1, <2>3
    <3> QED BY <1>4, <2>1, <3>1, <3>2
  <2> QED BY <2>2, <2>3
<1>11. CASE StartLift \/ StartGrubOnly
  <2>1. /\ ~Underway /\ UNCHANGED <<nvram, meant>> /\ run'.found = nvram.first
        /\ run'.left = LiftSteps \/ run'.left = GrubSteps
    BY <1>11 DEF StartLift, StartGrubOnly, Start, Run
  <2>2. ~Pending("order") /\ ~Pending("order")'
    <3>1. ~Pending("order")
      BY <2>1 DEF Pending, Underway, In
    <3>2. ~In(LiftSteps, "order") /\ ~In(GrubSteps, "order")
      BY LiftStart, GrubStart DEF OfLift
    <3> QED BY <2>1, <3>1, <3>2 DEF Pending
  <2> QED BY <1>1, <2>1, <2>2 DEF OrderKept
<1>12. CASE NewRelease \/ EspAppears \/ HostUpdatesGrub
  BY <1>1, <1>12 DEF NewRelease, EspAppears, HostUpdatesGrub, OrderKept, Pending, At, Underway
<1>13. CASE FirmwareForgets
  <2>1. ~Underway' /\ ~Pending("order")' /\ nvram'.first = "ubuntu" /\ meant'.first = "ubuntu"
    BY <1>1, <1>13 DEF FirmwareForgets, Underway, Pending, In, TypeOK
  <2> QED BY <2>1 DEF OrderKept
<1>14. "cpio" \in Files
  BY DEF Files, BootFiles
<1> QED BY <1>5, <1>6, <1>7, <1>8, <1>9, <1>10, <1>11, <1>12, <1>13, <1>14 DEF Next, Tool

LEMMA LiftInit == Init => LiftInv
<1> SUFFICES ASSUME Init PROVE LiftInv
  OBVIOUS
<1>1. run = [command |-> "none", left |-> <<>>, plan |-> 1, esp |-> esp, found |-> nvram.first,
             broken |-> TRUE, warned |-> FALSE, lost |-> FALSE]
  BY DEF Init, Run
<1>2. 1 \in 1..Releases /\ MaxBreaks \in Nat
  BY LiftAssumption
<1>3. TypeOK
  <2>1. esp \in BOOLEAN /\ nvram \in [entry : BOOLEAN, first : {"ubuntu", "xen", "unset"}]
    BY DEF Init
  <2>2. run \in Runs
    BY <1>1, <1>2, <2>1 DEF Runs
  <2>3. 0 \in Contents /\ 0 # Torn /\ Absent = 0 /\ 0 \in 0..MaxBreaks
    BY <1>2, LiftAssumption DEF Contents, Absent, Torn
  <2>4. /\ file \in [Files -> Contents]
        /\ script \in [text : Contents, esp : BOOLEAN, exec : BOOLEAN] /\ ~script.exec
        /\ grub \in [text : Contents \ {Torn}, esp : BOOLEAN]
    BY <2>3 DEF Init
  <2>5. /\ release \in 1..Releases /\ breaks \in 0..MaxBreaks
        /\ meant \in [first : {"ubuntu", "unset"}, cut : BOOLEAN]
    BY <1>2, <2>3 DEF Init
  <2> QED BY <2>1, <2>2, <2>4, <2>5 DEF TypeOK, Runs
<1>4. LeftOK
  <2>1. \A t : ~In(run.left, t)
    BY <1>1 DEF In
  <2> QED BY <1>1, <2>1 DEF LeftOK, Ordered, Pending
<1>5. DoneSoFar /\ FilesFirst
  BY <1>1 DEF Init, DoneSoFar, FilesFirst, Underway
<1>6. OrderKept
  BY <1>1 DEF Init, OrderKept, Pending, In, Underway
<1> QED BY <1>3, <1>4, <1>5, <1>6 DEF LiftInv

LEMMA LiftStep ==
  ASSUME LiftInv, [Next]_vars
  PROVE  LiftInv'
<1>1. CASE Next
  BY <1>1, TypesStep, LeftStep, DoneStep, FilesStep, OrderStep DEF LiftInv
<1>2. CASE UNCHANGED vars
  BY <1>2 DEF vars, LiftInv, TypeOK, LeftOK, DoneSoFar, FilesFirst, OrderKept, Pending, Underway,
     Written, At
<1> QED BY <1>1, <1>2

LEMMA LiftInductive == Spec => []LiftInv
  BY LiftInit, LiftStep, PTL DEF Spec

----------------------------------------------------------- (* the results *)

(* The run keeps its types, and the script is only executable once it       *)
(* exists.                                                                  *)
THEOREM LiftTypes == Spec => []TypeOK
<1>1. LiftInv => TypeOK
  BY DEF LiftInv
<1> QED BY <1>1, LiftInductive, PTL

(* A lift that reports success leaves every file, and the entries in        *)
(* grub.cfg, of the release it was planned for, and the ESP with the kernel *)
(* and the image of /boot/rotten-apple -- however many runs broke before it *)
(* and wherever, and whoever calls update-grub meanwhile.                   *)
THEOREM LiftIsWhole == Spec => []LiftedIsWhole
<1>1. LiftInv => LiftedIsWhole
  <2> SUFFICES ASSUME LiftInv, Completed("lift") PROVE LiftedIsWhole
    BY DEF LiftedIsWhole
  <2>1. \A t : ~Pending(t)
    BY DEF Completed, Underway, Pending, In
  <2> QED BY <2>1 DEF LiftInv, DoneSoFar, Completed, LiftedIsWhole
<1> QED BY <1>1, LiftInductive, PTL

(* No entry without a kernel and an image, whatever breaks.                 *)
THEOREM FilesBeforeEntries == Spec => []EntriesAfterFiles
<1>1. LiftInv => EntriesAfterFiles
  BY DEF LiftInv, FilesFirst, EntriesAfterFiles
<1> QED BY <1>1, LiftInductive, PTL

(* However many runs there are and wherever they break: between them the    *)
(* firmware boots first what it did before the first of them, unless one    *)
(* was cut off between creating the entry and restoring the order.          *)
THEOREM OrderIsKept == Spec => []OrderKeptUnlessCut
<1>1. LiftInv => OrderKeptUnlessCut
  BY DEF LiftInv, OrderKept, At, OrderKeptUnlessCut
<1> QED BY <1>1, LiftInductive, PTL

------------------------------------------------------------------ (* the boot *)

(* Once the log is mounted its last line is on the disk, and a machine that *)
(* is gone was told of the device first.                                    *)
BootInv == /\ logged => disk = said
           /\ fate = "wedged" => said = DeviceLine(machine.kills, "starting")

LEMMA TryKeeps ==
  ASSUME BootInv, NEW tool, Try(tool)
  PROVE  BootInv'
  BY DEF BootInv, Try, AtStep, Says, Quiet

LEMMA SkipKeeps ==
  ASSUME BootInv, NEW step, Skip(step)
  PROVE  BootInv'
  BY DEF BootInv, Skip, AtStep, Quiet

LEMMA BootStep ==
  ASSUME BootInv, BootNext \/ XenstoredSettles
  PROVE  BootInv'
<1>1. CASE Storage \/ Bind \/ XenModules \/ Pin \/ Dump
  BY <1>1, TryKeeps, SkipKeeps DEF Storage, Bind, XenModules, Pin, Dump
<1>2. CASE Coldplugged
  BY <1>2, SkipKeeps DEF Coldplugged
<1>3. CASE Early \/ Rescue \/ Announce \/ XenstoredStarts \/ GiveUp \/ Services
  <2>1. ASSUME NEW line, Says(line), fate = "runs", UNCHANGED <<machine, fate, logged>>
        PROVE  BootInv'
    BY <2>1 DEF Says, BootInv
  <2> QED BY <1>3, <2>1 DEF Early, Rescue, Announce, XenstoredStarts, GiveUp, Services, AtStep
<1>4. CASE BootFs
  BY <1>4 DEF BootFs, AtStep, Says, Quiet, BootInv
<1>5. CASE Load
  <2>1. CASE machine.kills = slot
    BY <1>5, <2>1 DEF Load, Announced, AtStep, Quiet, BootInv
  <2>2. CASE machine.kills # slot
    BY <1>5, <2>2 DEF Load, AtStep, Says, BootInv
  <2> QED BY <2>1, <2>2
<1>6. CASE Cmdline
  BY <1>6 DEF Cmdline, AtStep, Says, BootInv
<1>7. CASE Ask
  BY <1>7 DEF Ask, AtStep, Says, Quiet, BootInv
<1>8. CASE XenstoredSettles
  BY <1>8 DEF XenstoredSettles, BootInv
<1> QED BY <1>1, <1>2, <1>3, <1>4, <1>5, <1>6, <1>7, <1>8 DEF BootNext

(* However many devices there are, and whatever hangs or fails before: a    *)
(* machine that a driver took with it after the log was mounted has the     *)
(* name of the device on its disk (stage() syncs before modprobe runs).     *)
THEOREM LastWordNamesTheDevice == BootSpec => []LastWord
<1>1. BootInit => BootInv
  BY DEF BootInit, BootInv
<1>2. BootInv /\ [BootNext \/ XenstoredSettles]_boot => BootInv'
  <2> SUFFICES ASSUME BootInv, [BootNext \/ XenstoredSettles]_boot PROVE BootInv'
    OBVIOUS
  <2>1. CASE UNCHANGED boot
    BY <2>1 DEF boot, BootInv
  <2> QED BY <2>1, BootStep
<1>3. BootInv => LastWord
  BY DEF BootInv, LastWord
<1> QED BY <1>1, <1>2, <1>3, PTL DEF BootSpec


================================================================================
