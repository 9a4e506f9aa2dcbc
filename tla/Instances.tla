------------------------------ MODULE Instances ------------------------------
(***************************************************************************)
(* Instances and base images: the registry, the catalogue, the disks and   *)
(* the manifests on the host, and the processes that change them. The CLI, *)
(* the cockpit's worker and the MCP server each load a file, change the    *)
(* copy and write it back, without a lock; each of them can be killed      *)
(* between any two steps. Domains run on the disks.                        *)
(*                                                                         *)
(* A disk, a download and a registry entry carry the stamp of the job that *)
(* made them, so that a file that was replaced can be told from the one    *)
(* that was there. Nothing reads the order of the entries of a file: they  *)
(* are a set.                                                              *)
(***************************************************************************)
EXTENDS Naturals

CONSTANTS Callers,    \* processes: CLI commands, a cockpit, an MCP server
          Ids,        \* instance ids
          Images,     \* base images, by their name in the catalogue
          MaxJobs,    \* bound: commands that are started
          MaxBreaks   \* bound: kills and failing unlinks

ASSUME InstancesAssumption ==
  MaxJobs \in Nat /\ MaxBreaks \in Nat /\ Ids \cap Images = {}

VARIABLES registry,   \* instances/index.toml: the entries
          catalog,    \* images/index.toml: the names
          image,      \* the backing files: stamp of the download, complete?
          disk,       \* the overlays: own stamp, name and stamp of the backing file
          manifest,   \* manifests.d/<id>.toml is there
          domain,     \* per id: on, running, the disk it opened, who made
                      \* it, and whether that caller said "started"
          job,        \* what each caller is doing
          jobs,       \* how many commands were started: the next stamp
          breaks,     \* how many kills and failing unlinks there were
          reported,   \* history: what the last success said of an id
          doubt,      \* history: ids that a kill, or a step from a stale
                      \* copy, may have spoiled
          refetched,  \* history: images that are, or may be broken by,
                      \* being fetched again
          lost        \* history: images whose name the catalogue has lost

histories == <<doubt, refetched, lost>>
vars == <<registry, catalog, image, disk, manifest, domain, job, jobs, breaks,
          reported, doubt, refetched, lost>>
files == <<registry, catalog, image, disk, manifest>>

None == 0   \* no stamp: no such file

(* "new" is the CLI's command; "spawn" is the cockpit's and the MCP          *)
(* server's, which download a missing image.                                *)
Creates == {"new", "spawn"}

(* A file of entries: what a reader makes of it. A text that does not parse  *)
(* has none (unwrap_or_default).                                             *)
Text(list) == [list |-> list, parses |-> TRUE]
Garbled    == [list |-> {}, parses |-> FALSE]

Entry(r, id) == {e \in r : e.id = id}
Find(r, id)  == Entry(r, id) # {}
Remove(r, id) == {e \in r : e.id # id}
Upsert(r, e) == Remove(r, e.id) \cup {e}

NoDisk == [stamp |-> None, on |-> None, of |-> "nothing"]
Idle == [pc |-> "idle"]
Off  == [on |-> FALSE, running |-> FALSE, disk |-> None, by |-> None, told |-> FALSE]
Busy(c) == job[c].pc # "idle"

At(c, pc) == job[c].pc = pc
Becomes(c, j) == job' = [job EXCEPT ![c] = j]
Goes(c, pc) == Becomes(c, [job[c] EXCEPT !.pc = pc])

(* The command ends, with an error that it prints or with success.          *)
Fails(c) == Becomes(c, Idle)
Reports(c, what) == /\ Becomes(c, Idle)
                    /\ reported' = [reported EXCEPT ![job[c].id] = what]

(* fs::write truncates before it writes: a registry read in between is      *)
(* empty.                                                                   *)
Writes(c, file, pc) == At(c, pc) /\ job[c].file = file
BeingWritten(file)  == \E c \in Callers : Writes(c, file, "write")

(* c is past its look at the registry, and has not saved it yet.            *)
Changing(c) == job[c].op \in Creates \cup {"fork", "rm"}
                 /\ job[c].pc \notin {"load", "create", "start"}

(* Another caller is changing the same instance.                            *)
Contended(c) == \E d \in Callers \ {c} :
                  Busy(d) /\ Changing(d) /\ job[d].id = job[c].id

Init == /\ registry = Text({})
        /\ catalog = Text({})
        /\ image = [i \in Images |-> [stamp |-> None, whole |-> FALSE]]
        /\ disk = [id \in Ids |-> NoDisk]
        /\ manifest = [id \in Ids |-> FALSE]
        /\ domain = [id \in Ids |-> Off]
        /\ job = [c \in Callers |-> Idle]
        /\ jobs = 0
        /\ breaks = 0
        /\ reported = [id \in Ids |-> "gone"]
        /\ doubt = {} /\ refetched = {} /\ lost = {}

----------------------------------------------------------------------------
(* Starting a command. from is the image, or the parent of a fork.          *)

FirstStep(op) == CASE op = "pull" -> "curl" [] op = "image rm" -> "load catalog"
                   [] op = "start" -> "create" [] OTHER -> "load"

Begin(c, op, id, from) ==
  /\ ~Busy(c) /\ jobs < MaxJobs
  /\ jobs' = jobs + 1
  /\ Becomes(c,
       [pc |-> FirstStep(op),
        op |-> op, id |-> id, from |-> from, stamp |-> jobs + 1, reg |-> {},
        blind |-> FALSE, names |-> {}, retry |-> FALSE, file |-> "none"])
  /\ UNCHANGED <<files, domain, breaks, reported, histories>>

Command(c) ==
  \/ \E op \in Creates, id \in Ids, i \in Images : Begin(c, op, id, i)
  \/ \E op \in {"pull", "image rm"}, i \in Images : Begin(c, op, i, i)
  \/ \E id, parent \in Ids : id # parent /\ Begin(c, "fork", id, parent)
  \/ \E id \in Ids : \/ Begin(c, "rm", id, id)
                     \/ manifest[id] /\ Begin(c, "start", id, id)

(* Mutant: the new id is not looked for in the registry.                    *)
NeverTaken(c) == FALSE

AlreadyExists(c) == Find(registry.list, job[c].id)

ReadsRegistry(c, pc) ==
  /\ Becomes(c, [job[c] EXCEPT !.pc = pc, !.reg = registry.list,
                               !.blind = BeingWritten("registry")])
  /\ doubt' = IF Contended(c) THEN doubt \cup {job[c].id} ELSE doubt
Refuses(c) == Fails(c) /\ UNCHANGED doubt

(* create_instance_in, fork_instance_in and destroy_instance_in up to their *)
(* early returns.                                                           *)
LoadRegistry(c) ==
  /\ At(c, "load")
  /\ \/ /\ job[c].op \in Creates
        /\ IF AlreadyExists(c) THEN Refuses(c) ELSE ReadsRegistry(c, "resolve")
     \/ /\ job[c].op = "fork"
        /\ IF AlreadyExists(c) \/ ~Find(registry.list, job[c].from)
             THEN Refuses(c) ELSE ReadsRegistry(c, "disk")
     \/ /\ job[c].op = "rm"
        /\ IF Find(registry.list, job[c].id)
             THEN ReadsRegistry(c, "unlink") ELSE Refuses(c)
  /\ UNCHANGED <<files, domain, jobs, breaks, reported, refetched, lost>>

(* What the cockpit and the MCP server make of BaseImageNotFound, once.      *)
Downloads(c) == job[c].op = "spawn" /\ ~job[c].retry

Listed == catalog.list

(* resolve_base_image.                                                      *)
Resolve(c) ==
  /\ At(c, "resolve")
  /\ IF ~catalog.parses THEN Fails(c)
     ELSE IF job[c].from \in Listed THEN Goes(c, "disk")
     ELSE IF Downloads(c) THEN Goes(c, "ensure")
     ELSE Fails(c)
  /\ UNCHANGED <<files, domain, jobs, breaks, reported, histories>>

(* Mutant: the catalogue is not asked before the download.                  *)
AlwaysMissing(c) == TRUE

Missing(c) == job[c].from \notin Listed

(* ensure_base_image_present reads the catalogue before the download, `image *)
(* pull` after it.                                                          *)
Ensure(c) ==
  /\ At(c, "ensure")
  /\ Becomes(c, [job[c] EXCEPT !.pc = IF Missing(c) THEN "curl" ELSE "load",
                               !.retry = TRUE, !.names = Listed])
  /\ UNCHANGED <<files, domain, jobs, breaks, reported, histories>>

LoadCatalog(c) ==
  /\ At(c, "load catalog")
  /\ IF job[c].op = "image rm" /\ job[c].from \notin Listed
       THEN Fails(c)
       ELSE Becomes(c, [job[c] EXCEPT
              !.pc = IF job[c].op = "pull" THEN "truncate" ELSE "unlink image",
              !.file = "catalog", !.names = Listed])
  /\ UNCHANGED <<files, domain, jobs, breaks, reported, histories>>

----------------------------------------------------------------------------
(* pull: curl writes over the backing file of the name; no checksum is      *)
(* pinned, so what curl brings is taken.                                    *)

(* The overlays whose backing file is f, an image or a disk.                *)
RestsOn(f) == {id \in Ids : disk[id].stamp # None /\ disk[id].of = f}

(* The catalogue that c saves, once it does.                                *)
Names(c) == IF job[c].op = "image rm" THEN job[c].names \ {job[c].from}
                                      ELSE job[c].names \cup {job[c].from}

(* The catalogue lists i, or will once a save that has begun is done.       *)
Held(i) == i \in Listed
             \/ \E d \in Callers : Writes(d, "catalog", "write") /\ i \in Names(d)

(* An operator's pull replaces an image knowingly. A download that c began   *)
(* because it found no such name has an excuse when the catalogue lost the  *)
(* name, or when another caller listed it since.                            *)
Excused(c) == LET i == job[c].from
              IN  \/ job[c].op = "pull"
                  \/ i \in lost
                  \/ i \notin job[c].names /\ Held(i)

CurlStarts(c) ==
  LET i == job[c].from IN
  /\ At(c, "curl")
  /\ image' = [image EXCEPT ![i] = [stamp |-> job[c].stamp, whole |-> FALSE]]
  /\ refetched' = IF image[i].stamp # None THEN refetched \cup {i} ELSE refetched
  /\ doubt' = IF Excused(c) THEN doubt \cup RestsOn(i) ELSE doubt
  /\ Goes(c, "curling")
  /\ UNCHANGED <<registry, catalog, disk, manifest, domain, jobs, breaks,
                 reported, lost>>

Fetched(c) ==
  Becomes(c, [job[c] EXCEPT !.file = "catalog",
                !.pc = IF job[c].op = "pull" THEN "load catalog" ELSE "truncate"])

(* The file is whole when the curl that ends opened it last and no other    *)
(* one is still writing to it.                                              *)
Alone(c) == /\ image[job[c].from].stamp = job[c].stamp
            /\ \A d \in Callers \ {c} : ~(At(d, "curling") /\ job[d].from = job[c].from)

CurlEnds(c) ==
  LET i == job[c].from IN
  /\ At(c, "curling")
  /\ image[i].stamp # None
  /\ image' = [image EXCEPT ![i].whole = Alone(c)]
  /\ refetched' = IF Alone(c) THEN refetched \ {i} ELSE refetched
  /\ Fetched(c)
  /\ UNCHANGED <<registry, catalog, disk, manifest, domain, jobs, breaks,
                 reported, doubt, lost>>

(* Mutant: curl's exit status is not looked at.                             *)
CurlIgnored(c) == /\ At(c, "curling") /\ image[job[c].from].stamp # None
                  /\ Fetched(c)
                  /\ UNCHANGED <<files, domain, jobs, breaks, reported,
                                 histories>>

(* curl exits with an error, or the file is gone when pull looks at it.     *)
CurlFails(c) == /\ At(c, "curl") \/ At(c, "curling")
                /\ Fails(c)
                /\ UNCHANGED <<files, domain, jobs, breaks, reported,
                               histories>>

UnlinkImage(c) ==
  LET i == job[c].from IN
  /\ At(c, "unlink image")
  /\ image' = [image EXCEPT ![i] = [stamp |-> None, whole |-> FALSE]]
  /\ refetched' = refetched \cup {i}
  /\ doubt' = doubt \cup RestsOn(i)
  /\ Goes(c, "truncate")
  /\ UNCHANGED <<registry, catalog, disk, manifest, domain, jobs, breaks,
                 reported, lost>>

----------------------------------------------------------------------------
(* Disks and manifests.                                                     *)

Backing(c) == IF job[c].op = "fork" THEN disk[job[c].from].stamp
                                    ELSE image[job[c].from].stamp

NewEntry(c) == [id |-> job[c].id, stamp |-> job[c].stamp,
                parent |-> IF job[c].op = "fork" THEN job[c].from ELSE job[c].id]

(* Mutant: a fork or a new instance replaces what was read.                 *)
OnlyTheNewOne(c) == IF job[c].op = "rm" THEN Remove(job[c].reg, job[c].id)
                                        ELSE {NewEntry(c)}

(* The registry that c saves, once it does.                                 *)
Registry(c) == IF job[c].op = "rm" THEN Remove(job[c].reg, job[c].id)
                                   ELSE Upsert(job[c].reg, NewEntry(c))

Differ(r, s) == {id \in Ids : Entry(r, id) # Entry(s, id)}

(* The ids of which c read something else than what is there, or what       *)
(* another caller is just writing.                                          *)
Writers(c) == {d \in Callers \ {c} : Writes(d, "registry", "write")}
Stales(c)  == IF job[c].blind THEN Ids
              ELSE IF Writers(c) = {} THEN Differ(job[c].reg, registry.list)
              ELSE UNION {Differ(job[c].reg, Registry(d)) : d \in Writers(c)}

(* A command that starts on the files of its id ends older doubts about it,  *)
(* unless another one is at it or the registry has changed since.           *)
Fresh(c) == IF Contended(c) \/ job[c].id \in Stales(c)
              THEN doubt \cup {job[c].id} ELSE doubt \ {job[c].id}

(* qemu-img writes over a disk that is there and fails without a backing    *)
(* file.                                                                    *)
CreateDisk(c) ==
  LET id == job[c].id IN
  /\ At(c, "disk")
  /\ Backing(c) # None
  /\ disk' = [disk EXCEPT ![id] = [stamp |-> job[c].stamp, on |-> Backing(c),
                                 of |-> job[c].from]]
  /\ doubt' = Fresh(c) \cup RestsOn(id)
  /\ Goes(c, "manifest")
  /\ UNCHANGED <<registry, catalog, image, manifest, domain, jobs, breaks,
                 reported, refetched, lost>>

QemuImgFails(c) == /\ At(c, "disk")
                   /\ Fails(c)
                   /\ UNCHANGED <<files, domain, jobs, breaks, reported,
                                  histories>>

Saves(c) == Becomes(c, [job[c] EXCEPT !.pc = "truncate", !.file = "registry"])

WriteManifest(c) ==
  /\ At(c, "manifest")
  /\ manifest' = [manifest EXCEPT ![job[c].id] = TRUE]
  /\ Saves(c)
  /\ doubt' = doubt \cup (Stales(c) \cap {job[c].id})
  /\ UNCHANGED <<registry, catalog, image, disk, domain, jobs, breaks,
                 reported, refetched, lost>>

(* destroy_instance_in does not look for domains or forks. Both unlinks are *)
(* best effort.                                                             *)
Unlink(c) ==
  LET id == job[c].id IN
  /\ At(c, "unlink")
  /\ disk' = [disk EXCEPT ![id] = NoDisk]
  /\ doubt' = Fresh(c) \cup RestsOn(id)
  /\ Goes(c, "unlink manifest")
  /\ UNCHANGED <<registry, catalog, image, manifest, domain, jobs, breaks,
                 reported, refetched, lost>>

UnlinkManifest(c) ==
  LET id == job[c].id IN
  /\ At(c, "unlink manifest")
  /\ manifest' = [manifest EXCEPT ![id] = FALSE]
  /\ Saves(c)
  /\ doubt' = doubt \cup (Stales(c) \cap {id})
  /\ UNCHANGED <<registry, catalog, image, disk, domain, jobs, breaks,
                 reported, refetched, lost>>

UnlinkFails(c) ==
  /\ At(c, "unlink") /\ breaks < MaxBreaks
  /\ breaks' = breaks + 1
  /\ doubt' = doubt \cup {job[c].id}
  /\ Goes(c, "unlink manifest")
  /\ UNCHANGED <<files, domain, jobs, reported, refetched, lost>>

----------------------------------------------------------------------------
(* Saving: fs::write truncates, then writes. A writer that overtakes        *)
(* another may leave a part of the other's text, or one that does not       *)
(* parse; a writer that is killed leaves a beginning.                       *)

Overwritten(file, list) ==
  {Text(list \cup rest) : rest \in SUBSET file.list}
    \cup (IF file = Text({}) THEN {} ELSE {Garbled})
BrokenOff(file, list) == {Text(l) : l \in SUBSET (list \cup file.list)} \cup {Garbled}

TruncateRegistry(c) ==
  /\ Writes(c, "registry", "truncate")
  /\ registry' = Text({})
  /\ doubt' = doubt \cup Stales(c)
                   \cup UNION {Differ(Registry(c), Registry(d)) : d \in Writers(c)}
  /\ Goes(c, "write")
  /\ UNCHANGED <<catalog, image, disk, manifest, domain, jobs, breaks,
                 reported, refetched, lost>>

WriteRegistry(c) ==
  /\ Writes(c, "registry", "write")
  /\ registry' \in Overwritten(registry, Registry(c))
  /\ doubt' = doubt \cup Differ(registry'.list, Registry(c))
  /\ IF job[c].op \in Creates
       THEN /\ Goes(c, "create")
            /\ reported' = [reported EXCEPT ![job[c].id] = "created"]
       ELSE Reports(c, IF job[c].op = "rm" THEN "gone" ELSE "created")
  /\ UNCHANGED <<catalog, image, disk, manifest, domain, jobs, breaks,
                 refetched, lost>>

(* c saves without names that were listed since it read the catalogue.      *)
TruncateCatalog(c) ==
  /\ Writes(c, "catalog", "truncate")
  /\ catalog' = Text({})
  /\ lost' = lost \cup (Listed \ Names(c))
  /\ Goes(c, "write")
  /\ UNCHANGED <<registry, image, disk, manifest, domain, jobs, breaks,
                 reported, doubt, refetched>>

(* What was listed, or was to be listed by c, and is not now.               *)
Loses(c) == (Listed \cup Names(c)) \ Listed'

WriteCatalog(c) ==
  /\ Writes(c, "catalog", "write")
  /\ catalog' \in Overwritten(catalog, Names(c))
  /\ lost' = (lost \ Listed') \cup Loses(c)
  /\ IF job[c].op \in {"pull", "image rm"} THEN Fails(c) ELSE Goes(c, "load")
  /\ UNCHANGED <<registry, image, disk, manifest, domain, jobs, breaks,
                 reported, doubt, refetched>>

----------------------------------------------------------------------------
(* The daemon: domain.create of the manifest makes a paused domain, and     *)
(* domain.start runs it; `instance new` and the MCP server leave it paused. *)
(* Each may fail for reasons of the daemon's.                               *)

StartsIt(c)      == job[c].op # "new"
LeavesItPaused(c) == job[c].op # "start"

DomainCreate(c) ==
  LET id == job[c].id IN
  /\ At(c, "create")
  /\ manifest[id] /\ disk[id].stamp # None /\ ~domain[id].on
  /\ domain' = [domain EXCEPT ![id] =
       [on |-> TRUE, running |-> FALSE, disk |-> disk[id].stamp,
        by |-> job[c].stamp, told |-> job[c].op = "new"]]
  /\ \/ StartsIt(c) /\ Goes(c, "start")
     \/ LeavesItPaused(c) /\ Fails(c)
  /\ UNCHANGED <<files, jobs, breaks, reported, histories>>

DomainStart(c) ==
  LET id == job[c].id IN
  /\ At(c, "start")
  /\ domain[id].on /\ domain[id].by = job[c].stamp
  /\ domain' = [domain EXCEPT ![id] = [@ EXCEPT !.running = TRUE, !.told = TRUE]]
  /\ Fails(c)
  /\ UNCHANGED <<files, jobs, breaks, reported, histories>>

DaemonFails(c) == /\ At(c, "create") \/ At(c, "start")
                  /\ Fails(c)
                  /\ UNCHANGED <<files, domain, jobs, breaks, reported,
                                 histories>>

GuestEnds(id) == /\ domain[id].on
                 /\ domain' = [domain EXCEPT ![id] = Off]
                 /\ UNCHANGED <<files, job, jobs, breaks, reported, histories>>

----------------------------------------------------------------------------
(* A kill, a crash of the host: the command is gone, and what it was        *)
(* writing is a beginning of it.                                            *)

Kill(c) ==
  /\ Busy(c) /\ breaks < MaxBreaks
  /\ breaks' = breaks + 1
  /\ Fails(c)
  /\ LET spoilt == IF Changing(c) THEN {job[c].id} ELSE {} IN
     \/ /\ Writes(c, "registry", "write")
        /\ registry' \in BrokenOff(registry, Registry(c))
        /\ doubt' = doubt \cup spoilt \cup Differ(registry'.list, Registry(c))
        /\ UNCHANGED <<catalog, lost>>
     \/ /\ Writes(c, "catalog", "write")
        /\ catalog' \in BrokenOff(catalog, Names(c))
        /\ lost' = lost \cup Loses(c)
        /\ doubt' = doubt \cup spoilt
        /\ UNCHANGED registry
     \/ /\ ~At(c, "write")
        /\ doubt' = doubt \cup spoilt
        /\ UNCHANGED <<registry, catalog, lost>>
  /\ UNCHANGED <<image, disk, manifest, domain, jobs, reported, refetched>>

Next == \/ \E c \in Callers :
             \/ Command(c) \/ LoadRegistry(c) \/ Resolve(c) \/ Ensure(c)
             \/ LoadCatalog(c) \/ CurlStarts(c) \/ CurlEnds(c) \/ CurlFails(c)
             \/ UnlinkImage(c) \/ CreateDisk(c) \/ QemuImgFails(c)
             \/ WriteManifest(c) \/ Unlink(c) \/ UnlinkManifest(c)
             \/ UnlinkFails(c) \/ TruncateRegistry(c) \/ WriteRegistry(c)
             \/ TruncateCatalog(c) \/ WriteCatalog(c) \/ DomainCreate(c)
             \/ DomainStart(c) \/ DaemonFails(c) \/ Kill(c)
        \/ \E id \in Ids : GuestEnds(id)

Spec == Init /\ [][Next]_vars

----------------------------------------------------------------------------
Stamps  == 0..MaxJobs
Entries == [id : Ids, stamp : Stamps, parent : Ids]
Jobs    == [pc : {"load", "resolve", "ensure", "curl", "curling", "load catalog",
                  "unlink image", "disk", "manifest", "unlink", "unlink manifest",
                  "truncate", "write", "create", "start"},
            op : Creates \cup {"fork", "rm", "start", "pull", "image rm"},
            id : Ids \cup Images, from : Ids \cup Images, stamp : Stamps \ {None},
            reg : SUBSET Entries, blind : BOOLEAN, names : SUBSET Images,
            retry : BOOLEAN, file : {"none", "registry", "catalog"}]

TypeOK ==
  /\ registry \in [list : SUBSET Entries, parses : BOOLEAN]
  /\ catalog \in [list : SUBSET Images, parses : BOOLEAN]
  /\ image \in [Images -> [stamp : Stamps, whole : BOOLEAN]]
  /\ disk \in [Ids -> [stamp : Stamps, on : Stamps, of : Ids \cup Images \cup {"nothing"}]]
  /\ manifest \in [Ids -> BOOLEAN]
  /\ domain \in [Ids -> [on : BOOLEAN, running : BOOLEAN, disk : Stamps,
                         by : Stamps, told : BOOLEAN]]
  /\ jobs \in Stamps /\ breaks \in 0..MaxBreaks
  /\ reported \in [Ids -> {"gone", "created"}]
  /\ doubt \subseteq Ids /\ refetched \subseteq Images /\ lost \subseteq Images
  /\ job \in [Callers -> {Idle} \cup Jobs]

(* What a command said when it succeeded is so, until the next command on   *)
(* the same id: a created instance has its entry, its disk and its          *)
(* manifest, a destroyed one none of them. Only a kill, an unlink that      *)
(* failed, and a save from a stale copy (the registry has no lock) may      *)
(* spoil that.                                                              *)
SuccessIsTrue ==
  ~BeingWritten("registry") =>
    \A id \in Ids \ doubt :
      (\A c \in Callers : ~(Busy(c) /\ job[c].id = id /\ Changing(c))) =>
        /\ reported[id] = "created" <=> Find(registry.list, id)
        /\ reported[id] = "created" <=> disk[id].stamp # None
        /\ reported[id] = "created" <=> manifest[id]

(* The disk of a live domain is never created anew in place under it: the   *)
(* registry, which domain.create does not consult, still knows the id,      *)
(* unless it was spoilt as above.                                           *)
LiveDiskKept ==
  [][\A id \in Ids :
       (domain[id].on /\ disk[id].stamp = domain[id].disk) =>
         disk'[id].stamp \in {disk[id].stamp, None} \/ id \in doubt \cup doubt']_vars

(* An overlay keeps the backing file that it grew on. Nobody but an         *)
(* operator (image pull, image rm, destroying the parent of a fork) takes   *)
(* it away; a download that an instance needs does not, unless the          *)
(* catalogue lost the name or another caller listed it in the meantime.     *)
BackingKept ==
  \A id \in Ids \ doubt : disk[id].stamp # None =>
    \/ disk[id].of \in Images /\ image[disk[id].of].stamp = disk[id].on
    \/ disk[id].of \in Ids /\ disk[disk[id].of].stamp = disk[id].on

(* An overlay grows on a download that is complete, unless that image was   *)
(* being fetched again, or such a download broke off.                       *)
GrowsOnWhole ==
  [][\A id \in Ids, i \in Images \ refetched :
       disk'[id].stamp \notin {None, disk[id].stamp} /\ disk'[id].of = i
         => image[i].whole]_vars

(* The registry does not "silently lose state" (instances/src/lib.rs:142):  *)
(* what a command reported as created is in the registry that the next one  *)
(* reads, unless somebody destroyed it.                                     *)
StateNotLost ==
  [][\A c \in Callers : At(c, "load") /\ job[c].op \in Creates /\ At(c, "resolve")' =>
       \A id \in Ids : reported[id] = "created" => Find(registry.list, id)]_vars

(* "started: domid" (cli/src/main.rs:1236): a domain that a command         *)
(* reported as started is running.                                          *)
StartedRuns == \A id \in Ids : domain[id].on /\ domain[id].told => domain[id].running
=============================================================================
