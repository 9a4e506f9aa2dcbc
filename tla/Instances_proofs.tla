--------------------------- MODULE Instances_proofs ---------------------------
(***************************************************************************)
(* What holds of the instances and the base images for any number of       *)
(* processes, ids and images, commands and kills.                          *)
(***************************************************************************)
EXTENDS Instances, TLAPS

------------------------------------------------------ (* the inductive invariant *)

(* Where a command can be, what it works on.                                *)
Pcs(op) ==
  CASE op = "new"   -> {"load", "resolve", "disk", "manifest", "truncate", "write", "create"}
    [] op = "spawn" -> {"load", "resolve", "ensure", "curl", "curling", "disk", "manifest",
                        "truncate", "write", "create", "start"}
    [] op = "fork"  -> {"load", "disk", "manifest", "truncate", "write"}
    [] op = "rm"    -> {"load", "unlink", "unlink manifest", "truncate", "write"}
    [] op = "start" -> {"create", "start"}
    [] op = "pull"  -> {"curl", "curling", "load catalog", "truncate", "write"}
    [] op = "image rm" -> {"load catalog", "unlink image", "truncate", "write"}

Shape(j) ==
  /\ j.pc \in Pcs(j.op)
  /\ j.op \in Creates \cup {"fork", "rm", "start"} => j.id \in Ids
  /\ j.op \in Creates \cup {"pull", "image rm"} => j.from \in Images
  /\ j.op \in {"fork", "rm", "start"} => j.from \in Ids
  /\ j.op = "fork" => j.from # j.id
  /\ j.pc \in {"unlink image", "truncate", "write"} =>
       /\ j.file \in {"registry", "catalog"}
       /\ j.op \in {"pull", "image rm"} => j.file = "catalog"
       /\ j.op \in {"new", "fork", "rm"} => j.file = "registry"
  /\ j.op \in Creates \cup {"fork"} /\ j.pc \notin {"load", "create", "start"} =>
       ~Find(j.reg, j.id)
  /\ j.op = "spawn" /\ j.pc = "curl" => j.from \notin j.names

ShapeOK == \A c \in Callers : Busy(c) => Shape(job[c])
DomainOK == \A id \in Ids : domain[id].on => domain[id].disk # None

(* c has begun to change the files of its instance.                         *)
Underway(c) == \/ At(c, "manifest") \/ At(c, "unlink manifest")
               \/ Writes(c, "registry", "truncate") \/ Writes(c, "registry", "write")

OneChanger == \A c \in Callers : \A d \in Callers \ {c} :
  Busy(c) /\ Changing(c) /\ Busy(d) /\ Changing(d) /\ job[c].id = job[d].id
    => job[c].id \in doubt

Saving(c) == Writes(c, "registry", "write")

SaversAgree == \A c, d \in Callers : Saving(c) /\ Saving(d) =>
                 Differ(Registry(c), Registry(d)) \subseteq doubt

(* The registry that readers will find: the one that is there, or what the  *)
(* callers that are saving make of it.                                      *)
Known(id) ==
  /\ ~BeingWritten("registry") => (reported[id] = "created" <=> Find(registry.list, id))
  /\ \A c \in Callers : Saving(c) => (reported[id] = "created" <=> Find(Registry(c), id))

Settled == \A id \in Ids \ doubt :
  (\A c \in Callers : Underway(c) => job[c].id # id) =>
     /\ Known(id)
     /\ reported[id] = "created" <=> disk[id].stamp # None
     /\ reported[id] = "created" <=> manifest[id]

Midway == \A c \in Callers : Underway(c) /\ job[c].id \notin doubt =>
  /\ disk[job[c].id].stamp # None <=> job[c].op # "rm"
  /\ At(c, "truncate") \/ At(c, "write") => (manifest[job[c].id] <=> job[c].op # "rm")

(* Nothing uses the name of an image that the catalogue neither lists nor   *)
(* has lost.                                                                *)
Unlisted == \A i \in Images \ lost : ~Held(i) =>
  /\ RestsOn(i) \subseteq doubt
  /\ \A c \in Callers : At(c, "disk") /\ job[c].op \in Creates => job[c].from # i

OneCurl == \A i \in Images \ refetched, c \in Callers :
  At(c, "curling") /\ job[c].from = i =>
    /\ image[i].stamp = job[c].stamp
    /\ \A d \in Callers \ {c} : At(d, "curling") => job[d].from # i

Unseen(i) == i \notin Listed /\ \A c \in Callers : Busy(c) =>
  /\ i \notin job[c].names
  /\ job[c].from = i => \/ job[c].pc \in {"load", "resolve", "ensure", "curl", "curling"}
                        \/ job[c].op = "image rm" /\ job[c].pc = "load catalog"

WholeOrUnseen == \A i \in Images \ refetched : image[i].whole \/ Unseen(i)
WholeIsThere == \A i \in Images : image[i].whole => image[i].stamp # None

Inv == /\ TypeOK /\ ShapeOK /\ DomainOK
       /\ OneChanger /\ SaversAgree /\ Settled /\ Midway
       /\ Unlisted /\ BackingKept
       /\ OneCurl /\ WholeOrUnseen /\ WholeIsThere

------------------------------------------------------------------ (* the types *)

Pc == {"load", "resolve", "ensure", "curl", "curling", "load catalog",
       "unlink image", "disk", "manifest", "unlink", "unlink manifest",
       "truncate", "write", "create", "start"}

Ops == Creates \cup {"fork", "rm", "start", "pull", "image rm"}

LEMMA BusyJob ==
    ASSUME TypeOK, NEW c \in Callers, job[c].pc # "idle"
    PROVE  job[c] \in Jobs
  BY DEF TypeOK, Idle

LEMMA BecomesIt ==
    ASSUME TypeOK, NEW c \in Callers, NEW j \in {Idle} \cup Jobs, Becomes(c, j)
    PROVE  /\ job' \in [Callers -> {Idle} \cup Jobs]
           /\ job'[c] = j
           /\ \A d \in Callers \ {c} : job'[d] = job[d]
  BY DEF TypeOK, Becomes

(* The changes that the steps of a command make to its job.                 *)
LEMMA Changed ==
    ASSUME NEW j \in Jobs, NEW pc \in Pc
    PROVE  /\ [j EXCEPT !.pc = pc] \in Jobs
           /\ \A reg \in SUBSET Entries, b \in BOOLEAN :
                [j EXCEPT !.pc = pc, !.reg = reg, !.blind = b] \in Jobs
           /\ \A names \in SUBSET Images :
                /\ [j EXCEPT !.pc = pc, !.retry = TRUE, !.names = names] \in Jobs
                /\ [j EXCEPT !.pc = pc, !.file = "catalog", !.names = names] \in Jobs
           /\ [j EXCEPT !.file = "catalog", !.pc = pc] \in Jobs
           /\ [j EXCEPT !.pc = pc, !.file = "registry"] \in Jobs
  <1>1. [j EXCEPT !.pc = pc] \in Jobs
    BY ZenonT(30) DEF Jobs, Pc
  <1>2. ASSUME NEW reg \in SUBSET Entries, NEW b \in BOOLEAN
        PROVE  [j EXCEPT !.pc = pc, !.reg = reg, !.blind = b] \in Jobs
    BY ZenonT(30) DEF Jobs, Pc
  <1>3. ASSUME NEW names \in SUBSET Images
        PROVE  [j EXCEPT !.pc = pc, !.retry = TRUE, !.names = names] \in Jobs
    BY ZenonT(30) DEF Jobs, Pc
  <1>4. ASSUME NEW names \in SUBSET Images
        PROVE  [j EXCEPT !.pc = pc, !.file = "catalog", !.names = names] \in Jobs
    BY ZenonT(30) DEF Jobs, Pc
  <1>5. [j EXCEPT !.file = "catalog", !.pc = pc] \in Jobs
    BY ZenonT(30) DEF Jobs, Pc
  <1>6. [j EXCEPT !.pc = pc, !.file = "registry"] \in Jobs
    BY ZenonT(30) DEF Jobs, Pc
  <1> QED
    BY <1>1, <1>2, <1>3, <1>4, <1>5, <1>6

(* Every step of a caller changes its own job alone, and what the command   *)
(* is stays the same.                                                       *)
Task(j) == <<j.op, j.id, j.from, j.stamp>>

OwnJob(c) == /\ job[c] \in Jobs
             /\ job' \in [Callers -> {Idle} \cup Jobs]
             /\ \A d \in Callers \ {c} : job'[d] = job[d]
             /\ job'[c] # Idle => job'[c] \in Jobs /\ Task(job'[c]) = Task(job[c])

LEMMA ChangeKeeps ==
    ASSUME TypeOK, NEW c \in Callers, job[c] \in Jobs,
           NEW j \in Jobs, Task(j) = Task(job[c]), Becomes(c, j)
    PROVE  OwnJob(c) /\ job'[c] = j
  <1>1. /\ job' \in [Callers -> {Idle} \cup Jobs]
        /\ job'[c] = j
        /\ \A d \in Callers \ {c} : job'[d] = job[d]
    BY BecomesIt
  <1> QED
    BY <1>1 DEF OwnJob

LEMMA GoesKeeps ==
    ASSUME TypeOK, NEW c \in Callers, job[c] \in Jobs, NEW pc \in Pc, Goes(c, pc)
    PROVE  OwnJob(c) /\ job'[c] = [job[c] EXCEPT !.pc = pc]
  <1> DEFINE j == [job[c] EXCEPT !.pc = pc]
  <1>1. j \in Jobs
    BY Changed
  <1>2. Task(j) = Task(job[c])
    BY DEF Task, Jobs
  <1>3. Becomes(c, j)
    BY DEF Goes
  <1> QED
    BY <1>1, <1>2, <1>3, ChangeKeeps

LEMMA EndsKeeps ==
    ASSUME TypeOK, NEW c \in Callers, job[c] \in Jobs, Fails(c)
    PROVE  OwnJob(c) /\ job'[c] = Idle
  <1>1. /\ job' \in [Callers -> {Idle} \cup Jobs]
        /\ job'[c] = Idle
        /\ \A d \in Callers \ {c} : job'[d] = job[d]
    BY BecomesIt DEF Fails
  <1> QED
    BY <1>1 DEF OwnJob

LEMMA ReadsKeeps ==
    ASSUME TypeOK, NEW c \in Callers, job[c] \in Jobs, NEW pc \in Pc, ReadsRegistry(c, pc)
    PROVE  /\ OwnJob(c)
           /\ job'[c] = [job[c] EXCEPT !.pc = pc, !.reg = registry.list,
                                       !.blind = BeingWritten("registry")]
  <1> DEFINE j == [job[c] EXCEPT !.pc = pc, !.reg = registry.list,
                                 !.blind = BeingWritten("registry")]
  <1>1. registry.list \in SUBSET Entries
    BY DEF TypeOK
  <1>2. BeingWritten("registry") \in BOOLEAN
    BY DEF BeingWritten
  <1>3. j \in Jobs
    BY <1>1, <1>2, Changed
  <1>4. Task(j) = Task(job[c])
    BY DEF Task, Jobs
  <1>5. Becomes(c, j)
    BY DEF ReadsRegistry
  <1> QED
    BY <1>3, <1>4, <1>5, ChangeKeeps

LEMMA SavesKeeps ==
    ASSUME TypeOK, NEW c \in Callers, job[c] \in Jobs, Saves(c)
    PROVE  /\ OwnJob(c)
           /\ job'[c] = [job[c] EXCEPT !.pc = "truncate", !.file = "registry"]
  <1> DEFINE j == [job[c] EXCEPT !.pc = "truncate", !.file = "registry"]
  <1>1. j \in Jobs
    BY Changed DEF Pc
  <1>2. Task(j) = Task(job[c])
    BY DEF Task, Jobs
  <1>3. Becomes(c, j)
    BY DEF Saves
  <1> QED
    BY <1>1, <1>2, <1>3, ChangeKeeps

LEMMA FetchedKeeps ==
    ASSUME TypeOK, NEW c \in Callers, job[c] \in Jobs, Fetched(c)
    PROVE  /\ OwnJob(c)
           /\ job'[c] = [job[c] EXCEPT !.file = "catalog",
                           !.pc = IF job[c].op = "pull" THEN "load catalog" ELSE "truncate"]
  <1> DEFINE pc == IF job[c].op = "pull" THEN "load catalog" ELSE "truncate"
             j == [job[c] EXCEPT !.file = "catalog", !.pc = pc]
  <1>1. j \in Jobs
    BY Changed DEF Pc
  <1>2. Task(j) = Task(job[c])
    BY DEF Task, Jobs
  <1>3. Becomes(c, j)
    BY DEF Fetched
  <1> QED
    BY <1>1, <1>2, <1>3, ChangeKeeps

LEMMA EnsureKeeps ==
    ASSUME TypeOK, NEW c \in Callers, job[c] \in Jobs, Ensure(c)
    PROVE  /\ OwnJob(c)
           /\ job'[c] = [job[c] EXCEPT !.pc = IF Missing(c) THEN "curl" ELSE "load",
                                       !.retry = TRUE, !.names = Listed]
  <1> DEFINE pc == IF Missing(c) THEN "curl" ELSE "load"
             j == [job[c] EXCEPT !.pc = pc, !.retry = TRUE, !.names = Listed]
  <1>1. Listed \in SUBSET Images
    BY DEF TypeOK, Listed
  <1>2. j \in Jobs
    BY <1>1, Changed DEF Pc
  <1>3. Task(j) = Task(job[c])
    BY DEF Task, Jobs
  <1>4. Becomes(c, j)
    BY DEF Ensure
  <1> QED
    BY <1>2, <1>3, <1>4, ChangeKeeps

LEMMA LoadCatalogKeeps ==
    ASSUME TypeOK, NEW c \in Callers, job[c] \in Jobs, LoadCatalog(c)
    PROVE  /\ OwnJob(c)
           /\ \/ job'[c] = Idle
              \/ job'[c] = [job[c] EXCEPT
                    !.pc = IF job[c].op = "pull" THEN "truncate" ELSE "unlink image",
                    !.file = "catalog", !.names = Listed]
  <1> DEFINE pc == IF job[c].op = "pull" THEN "truncate" ELSE "unlink image"
             j == [job[c] EXCEPT !.pc = pc, !.file = "catalog", !.names = Listed]
  <1>1. Listed \in SUBSET Images
    BY DEF TypeOK, Listed
  <1>2. j \in Jobs
    BY <1>1, Changed DEF Pc
  <1>3. Task(j) = Task(job[c])
    BY DEF Task, Jobs
  <1>4. Becomes(c, j) \/ Fails(c)
    BY DEF LoadCatalog
  <1> QED
    BY <1>2, <1>3, <1>4, ChangeKeeps, EndsKeeps

(* A step of a command that has begun.                                      *)
Works(c) == \/ LoadRegistry(c) \/ Resolve(c) \/ Ensure(c)
            \/ LoadCatalog(c) \/ CurlStarts(c) \/ CurlEnds(c) \/ CurlFails(c)
            \/ UnlinkImage(c) \/ CreateDisk(c) \/ QemuImgFails(c)
            \/ WriteManifest(c) \/ Unlink(c) \/ UnlinkManifest(c)
            \/ UnlinkFails(c) \/ TruncateRegistry(c) \/ WriteRegistry(c)
            \/ TruncateCatalog(c) \/ WriteCatalog(c) \/ DomainCreate(c)
            \/ DomainStart(c) \/ DaemonFails(c) \/ Kill(c)

LEMMA JobStep ==
    ASSUME TypeOK, NEW c \in Callers, Works(c)
    PROVE  OwnJob(c)
  <1>1. CASE LoadRegistry(c)
    <2>1. job[c] \in Jobs
      BY <1>1, BusyJob DEF LoadRegistry, At, Writes, Busy
    <2>2. Fails(c) \/ \E pc \in Pc : ReadsRegistry(c, pc)
      BY <1>1 DEF LoadRegistry, Pc, Refuses
    <2> QED
      BY <2>1, <2>2, ReadsKeeps, EndsKeeps
  <1>2. CASE Resolve(c)
    <2>1. job[c] \in Jobs
      BY <1>2, BusyJob DEF Resolve, At, Writes, Busy
    <2>2. Fails(c) \/ \E pc \in Pc : Goes(c, pc)
      BY <1>2 DEF Resolve, Pc, Reports, Fails
    <2> QED
      BY <2>1, <2>2, GoesKeeps, EndsKeeps
  <1>3. CASE Ensure(c)
    <2>1. job[c] \in Jobs
      BY <1>3, BusyJob DEF Ensure, At, Writes, Busy
    <2> QED
      BY <1>3, <2>1, EnsureKeeps
  <1>4. CASE LoadCatalog(c)
    <2>1. job[c] \in Jobs
      BY <1>4, BusyJob DEF LoadCatalog, At, Writes, Busy
    <2> QED
      BY <1>4, <2>1, LoadCatalogKeeps
  <1>5. CASE CurlStarts(c)
    <2>1. job[c] \in Jobs
      BY <1>5, BusyJob DEF CurlStarts, At, Writes, Busy
    <2>2. Goes(c, "curling")
      BY <1>5 DEF CurlStarts
    <2> QED
      BY <2>1, <2>2, GoesKeeps DEF Pc
  <1>6. CASE CurlEnds(c)
    <2>1. job[c] \in Jobs
      BY <1>6, BusyJob DEF CurlEnds, At, Writes, Busy
    <2>2. Fetched(c)
      BY <1>6 DEF CurlEnds
    <2> QED
      BY <2>1, <2>2, FetchedKeeps
  <1>7. CASE CurlFails(c)
    <2>1. job[c] \in Jobs
      BY <1>7, BusyJob DEF CurlFails, At, Writes, Busy
    <2>2. Fails(c)
      BY <1>7 DEF CurlFails
    <2> QED
      BY <2>1, <2>2, EndsKeeps
  <1>8. CASE UnlinkImage(c)
    <2>1. job[c] \in Jobs
      BY <1>8, BusyJob DEF UnlinkImage, At, Writes, Busy
    <2>2. Goes(c, "truncate")
      BY <1>8 DEF UnlinkImage
    <2> QED
      BY <2>1, <2>2, GoesKeeps DEF Pc
  <1>9. CASE CreateDisk(c)
    <2>1. job[c] \in Jobs
      BY <1>9, BusyJob DEF CreateDisk, At, Writes, Busy
    <2>2. Goes(c, "manifest")
      BY <1>9 DEF CreateDisk
    <2> QED
      BY <2>1, <2>2, GoesKeeps DEF Pc
  <1>10. CASE QemuImgFails(c)
    <2>1. job[c] \in Jobs
      BY <1>10, BusyJob DEF QemuImgFails, At, Writes, Busy
    <2>2. Fails(c)
      BY <1>10 DEF QemuImgFails
    <2> QED
      BY <2>1, <2>2, EndsKeeps
  <1>11. CASE WriteManifest(c)
    <2>1. job[c] \in Jobs
      BY <1>11, BusyJob DEF WriteManifest, At, Writes, Busy
    <2>2. Saves(c)
      BY <1>11 DEF WriteManifest
    <2> QED
      BY <2>1, <2>2, SavesKeeps
  <1>12. CASE Unlink(c)
    <2>1. job[c] \in Jobs
      BY <1>12, BusyJob DEF Unlink, At, Writes, Busy
    <2>2. Goes(c, "unlink manifest")
      BY <1>12 DEF Unlink
    <2> QED
      BY <2>1, <2>2, GoesKeeps DEF Pc
  <1>13. CASE UnlinkManifest(c)
    <2>1. job[c] \in Jobs
      BY <1>13, BusyJob DEF UnlinkManifest, At, Writes, Busy
    <2>2. Saves(c)
      BY <1>13 DEF UnlinkManifest
    <2> QED
      BY <2>1, <2>2, SavesKeeps
  <1>14. CASE UnlinkFails(c)
    <2>1. job[c] \in Jobs
      BY <1>14, BusyJob DEF UnlinkFails, At, Writes, Busy
    <2>2. Goes(c, "unlink manifest")
      BY <1>14 DEF UnlinkFails
    <2> QED
      BY <2>1, <2>2, GoesKeeps DEF Pc
  <1>15. CASE TruncateRegistry(c)
    <2>1. job[c] \in Jobs
      BY <1>15, BusyJob DEF TruncateRegistry, At, Writes, Busy
    <2>2. Goes(c, "write")
      BY <1>15 DEF TruncateRegistry
    <2> QED
      BY <2>1, <2>2, GoesKeeps DEF Pc
  <1>16. CASE WriteRegistry(c)
    <2>1. job[c] \in Jobs
      BY <1>16, BusyJob DEF WriteRegistry, At, Writes, Busy
    <2>2. Fails(c) \/ \E pc \in Pc : Goes(c, pc)
      BY <1>16 DEF WriteRegistry, Pc, Reports, Fails
    <2> QED
      BY <2>1, <2>2, GoesKeeps, EndsKeeps
  <1>17. CASE TruncateCatalog(c)
    <2>1. job[c] \in Jobs
      BY <1>17, BusyJob DEF TruncateCatalog, At, Writes, Busy
    <2>2. Goes(c, "write")
      BY <1>17 DEF TruncateCatalog
    <2> QED
      BY <2>1, <2>2, GoesKeeps DEF Pc
  <1>18. CASE WriteCatalog(c)
    <2>1. job[c] \in Jobs
      BY <1>18, BusyJob DEF WriteCatalog, At, Writes, Busy
    <2>2. Fails(c) \/ \E pc \in Pc : Goes(c, pc)
      BY <1>18 DEF WriteCatalog, Pc, Reports, Fails
    <2> QED
      BY <2>1, <2>2, GoesKeeps, EndsKeeps
  <1>19. CASE DomainCreate(c)
    <2>1. job[c] \in Jobs
      BY <1>19, BusyJob DEF DomainCreate, At, Writes, Busy
    <2>2. Fails(c) \/ \E pc \in Pc : Goes(c, pc)
      BY <1>19 DEF DomainCreate, Pc, Reports, Fails
    <2> QED
      BY <2>1, <2>2, GoesKeeps, EndsKeeps
  <1>20. CASE DomainStart(c)
    <2>1. job[c] \in Jobs
      BY <1>20, BusyJob DEF DomainStart, At, Writes, Busy
    <2>2. Fails(c)
      BY <1>20 DEF DomainStart
    <2> QED
      BY <2>1, <2>2, EndsKeeps
  <1>21. CASE DaemonFails(c)
    <2>1. job[c] \in Jobs
      BY <1>21, BusyJob DEF DaemonFails, At, Writes, Busy
    <2>2. Fails(c)
      BY <1>21 DEF DaemonFails
    <2> QED
      BY <2>1, <2>2, EndsKeeps
  <1>22. CASE Kill(c)
    <2>1. job[c] \in Jobs
      BY <1>22, BusyJob DEF Kill, At, Writes, Busy
    <2>2. Fails(c)
      BY <1>22 DEF Kill
    <2> QED
      BY <2>1, <2>2, EndsKeeps
  <1> QED
    BY <1>1, <1>2, <1>3, <1>4, <1>5, <1>6, <1>7, <1>8, <1>9, <1>10, <1>11, <1>12, <1>13, <1>14, <1>15, <1>16, <1>17, <1>18, <1>19, <1>20, <1>21, <1>22 DEF Works

LEMMA BeginStep ==
    ASSUME TypeOK, NEW c \in Callers, NEW op \in Ops,
           NEW id \in Ids \cup Images, NEW from \in Ids \cup Images, Begin(c, op, id, from)
    PROVE  /\ job[c].pc = "idle" /\ job' \in [Callers -> {Idle} \cup Jobs]
           /\ \A d \in Callers \ {c} : job'[d] = job[d]
           /\ job'[c] \in Jobs
           /\ job'[c].op = op /\ job'[c].id = id /\ job'[c].from = from
           /\ job'[c].reg = {} /\ job'[c].names = {} /\ job'[c].file = "none"
           /\ job'[c].pc = FirstStep(op)
  <1> DEFINE j == [pc |-> FirstStep(op),
                   op |-> op, id |-> id, from |-> from, stamp |-> jobs + 1, reg |-> {},
                   blind |-> FALSE, names |-> {}, retry |-> FALSE, file |-> "none"]
  <1>a. FirstStep(op) \in Pc
    BY DEF FirstStep, Pc
  <1>b. jobs + 1 \in Stamps \ {None}
    BY InstancesAssumption DEF Begin, TypeOK, Stamps, None
  <1>1. j \in Jobs
    BY <1>a, <1>b DEF Jobs, Ops, Pc
  <1>2. Becomes(c, j) /\ job[c].pc = "idle"
    BY DEF Begin, Busy
  <1>3. job' \in [Callers -> {Idle} \cup Jobs] /\ job'[c] = j
        /\ \A d \in Callers \ {c} : job'[d] = job[d]
    BY <1>1, <1>2, BecomesIt
  <1>4. job'[c].pc = FirstStep(op) /\ job'[c].op = op /\ job'[c].id = id
        /\ job'[c].from = from /\ job'[c].reg = {} /\ job'[c].names = {}
        /\ job'[c].file = "none"
    BY <1>3
  <1> QED
    BY <1>1, <1>2, <1>3, <1>4

(* What a command can be asked to do.                                       *)
First(op, id, from) ==
  /\ op \in Ops /\ id \in Ids \cup Images /\ from \in Ids \cup Images
  /\ op \in Creates \cup {"fork", "rm", "start"} => id \in Ids
  /\ op \in Creates \cup {"pull", "image rm"} => from \in Images
  /\ op \in {"fork", "rm", "start"} => from \in Ids
  /\ op = "fork" => from # id

(* The steps, one by one.                                                   *)
LEMMA StepCases ==
    ASSUME Next
    PROVE  \/ \E c \in Callers : Works(c)
           \/ \E c \in Callers : \E op, id, from : Begin(c, op, id, from) /\ First(op, id, from)
           \/ \E id \in Ids : GuestEnds(id)
  <1>1. ASSUME NEW c \in Callers, Command(c)
        PROVE  \E op, id, from : Begin(c, op, id, from) /\ First(op, id, from)
    <2>1. ASSUME NEW op \in Creates, NEW id \in Ids, NEW i \in Images, Begin(c, op, id, i)
          PROVE  First(op, id, i)
      BY <2>1 DEF Ops, Creates, First
    <2>2. ASSUME NEW op \in {"pull", "image rm"}, NEW i \in Images, Begin(c, op, i, i)
          PROVE  First(op, i, i)
      BY <2>2 DEF Ops, Creates, First
    <2>3. ASSUME NEW id \in Ids, NEW parent \in Ids, id # parent, Begin(c, "fork", id, parent)
          PROVE  First("fork", id, parent)
      BY <2>3 DEF Ops, Creates, First
    <2>4. ASSUME NEW id \in Ids, NEW op \in {"rm", "start"}, Begin(c, op, id, id)
          PROVE  First(op, id, id)
      BY <2>4 DEF Ops, Creates, First
    <2>5. CASE \E op \in Creates, id \in Ids, i \in Images : Begin(c, op, id, i)
      BY <2>1, <2>5
    <2>6. CASE \E op \in {"pull", "image rm"}, i \in Images : Begin(c, op, i, i)
      BY <2>2, <2>6
    <2>7. CASE \E id, parent \in Ids : id # parent /\ Begin(c, "fork", id, parent)
      BY <2>3, <2>7
    <2>8. CASE \E id \in Ids : Begin(c, "rm", id, id) \/ Begin(c, "start", id, id)
      <3>1. PICK id \in Ids : Begin(c, "rm", id, id) \/ Begin(c, "start", id, id)
        BY <2>8
      <3>2. PICK op \in {"rm", "start"} : Begin(c, op, id, id)
        BY <3>1
      <3> QED
        BY <2>4, <3>2
    <2> QED
      BY <1>1, <2>5, <2>6, <2>7, <2>8 DEF Command
  <1> QED
    BY <1>1 DEF Next, Works

(* Who is where, and on what.                                               *)
LEMMA Where ==
    ASSUME TypeOK, ShapeOK, NEW c \in Callers, job[c].pc # "idle"
    PROVE  /\ job[c] \in Jobs /\ Shape(job[c]) /\ Busy(c)
           /\ job[c].op \in Ops /\ job[c].pc \in Pcs(job[c].op)
  BY BusyJob DEF ShapeOK, Shape, Busy, Jobs, Ops

LEMMA OpOf ==
    ASSUME NEW op \in Ops, NEW pc \in Pcs(op)
    PROVE  /\ pc \in {"resolve"} => op \in Creates
           /\ pc \in {"disk", "manifest"} => op \in Creates \cup {"fork"}
           /\ pc \in {"unlink", "unlink manifest"} => op = "rm"
           /\ pc \in {"load"} => op \in Creates \cup {"fork", "rm"}
           /\ pc \in {"ensure"} => op = "spawn"
           /\ pc \in {"curl", "curling"} => op \in {"spawn", "pull"}
           /\ pc \in {"load catalog"} => op \in {"pull", "image rm"}
           /\ pc \in {"unlink image"} => op = "image rm"
           /\ pc \in {"create"} => op \in Creates \cup {"start"}
           /\ pc \in {"start"} => op \in {"spawn", "start"}
           /\ pc \in {"truncate", "write"} => op # "start"
  BY DEF Ops, Creates, Pcs

LEMMA UnderwayOn ==
    ASSUME TypeOK, ShapeOK, NEW c \in Callers, Underway(c) \/ At(c, "disk") \/ At(c, "unlink")
    PROVE  /\ job[c] \in Jobs /\ Shape(job[c])
           /\ job[c].op \in Creates \cup {"fork", "rm"}
           /\ job[c].id \in Ids /\ Busy(c) /\ Changing(c)
  <1>1. /\ job[c] \in Jobs /\ Shape(job[c]) /\ Busy(c)
        /\ job[c].op \in Ops /\ job[c].pc \in Pcs(job[c].op)
    BY Where DEF Underway, At, Writes
  <1>2. job[c].op \in Creates \cup {"fork", "rm"}
    BY <1>1, OpOf DEF Underway, At, Writes, Shape, Ops
  <1> QED
    BY <1>1, <1>2 DEF Shape, Changing, Underway, At, Writes

LEMMA RegistryTyped ==
    ASSUME TypeOK, ShapeOK, NEW c \in Callers, Underway(c)
    PROVE  Registry(c) \in SUBSET Entries
  <1>1. /\ job[c] \in Jobs /\ Shape(job[c])
        /\ job[c].op \in Creates \cup {"fork", "rm"}
        /\ job[c].id \in Ids
    BY UnderwayOn
  <1>2. job[c].reg \in SUBSET Entries
    BY <1>1 DEF Jobs
  <1>3. job[c].op # "rm" => NewEntry(c) \in Entries
    BY <1>1 DEF NewEntry, Entries, Jobs, Shape, Stamps
  <1> QED
    BY <1>1, <1>2, <1>3 DEF Registry, Remove, Upsert

LEMMA NamesTyped ==
    ASSUME TypeOK, ShapeOK, NEW c \in Callers, Writes(c, "catalog", "truncate") \/ Writes(c, "catalog", "write")
    PROVE  /\ Names(c) \in SUBSET Images /\ job[c].from \in Images
           /\ job[c].op \in Creates \cup {"pull", "image rm"}
  <1>1. /\ job[c] \in Jobs /\ Shape(job[c])
        /\ job[c].op \in Ops /\ job[c].pc \in Pcs(job[c].op)
    BY Where DEF At, Writes
  <1>2. job[c].op \in Creates \cup {"pull", "image rm"}
    BY <1>1, OpOf DEF Writes, At, Shape, Ops
  <1>3. job[c].from \in Images
    BY <1>1, <1>2 DEF Shape
  <1> QED
    BY <1>1, <1>2, <1>3 DEF Names, Jobs

LEMMA TextsTyped ==
    ASSUME NEW S, NEW file \in [list : SUBSET S, parses : BOOLEAN], NEW list \in SUBSET S
    PROVE  /\ Overwritten(file, list) \in SUBSET [list : SUBSET S, parses : BOOLEAN]
           /\ BrokenOff(file, list) \in SUBSET [list : SUBSET S, parses : BOOLEAN]
           /\ Text({}) \in [list : SUBSET S, parses : BOOLEAN]
  <1> DEFINE F == [list : SUBSET S, parses : BOOLEAN]
  <1>1. ASSUME NEW l \in SUBSET S PROVE Text(l) \in F
    BY DEF Text
  <1>2. Garbled \in F
    BY DEF Garbled
  <1>3. file.list \in SUBSET S
    OBVIOUS
  <1> HIDE DEF F
  <1>4. Overwritten(file, list) \in SUBSET F
    BY <1>1, <1>2, <1>3 DEF Overwritten
  <1>5. BrokenOff(file, list) \in SUBSET F
    BY <1>1, <1>2, <1>3 DEF BrokenOff
  <1> QED
    BY <1>1, <1>4, <1>5 DEF F

(* A step of a command leaves the files well formed.                        *)
FilesOK == /\ registry \in [list : SUBSET Entries, parses : BOOLEAN]
           /\ catalog \in [list : SUBSET Images, parses : BOOLEAN]
           /\ image \in [Images -> [stamp : Stamps, whole : BOOLEAN]]
           /\ disk \in [Ids -> [stamp : Stamps, on : Stamps, of : Ids \cup Images \cup {"nothing"}]]
           /\ manifest \in [Ids -> BOOLEAN]

RestOK == /\ domain \in [Ids -> [on : BOOLEAN, running : BOOLEAN, disk : Stamps,
                                by : Stamps, told : BOOLEAN]]
          /\ jobs \in Stamps /\ breaks \in 0..MaxBreaks
          /\ reported \in [Ids -> {"gone", "created"}]
          /\ doubt \subseteq Ids /\ refetched \subseteq Images /\ lost \subseteq Images

LEMMA TypesParts == TypeOK <=> /\ FilesOK /\ RestOK
                              /\ job \in [Callers -> {Idle} \cup Jobs]
  BY DEF TypeOK, FilesOK, RestOK

LEMMA StaleIds ==
    ASSUME NEW c \in Callers
    PROVE  /\ Stales(c) \subseteq Ids /\ (\A f : RestsOn(f) \subseteq Ids)
           /\ (job[c].id \in Ids => Fresh(c) \subseteq doubt \cup Ids)
           /\ (\A r, q : Differ(r, q) \subseteq Ids)
  BY DEF Stales, RestsOn, Fresh, Differ

LEMMA WorksTypes ==
    ASSUME TypeOK, ShapeOK, NEW c \in Callers, Works(c)
    PROVE  FilesOK' /\ RestOK'
  <1> USE StaleIds, TypesParts
  <1>0. OwnJob(c) /\ FilesOK /\ RestOK
    BY JobStep
  <1>a. None \in Stamps
    BY InstancesAssumption DEF None, Stamps
  <1>1. CASE LoadRegistry(c)
    <2>1. job[c].id \in Ids
      BY <1>1, Where, OpOf DEF LoadRegistry, At, Shape
    <2> QED
      BY <1>1, <1>0, <2>1 DEF LoadRegistry, files, FilesOK, RestOK, Refuses, ReadsRegistry
  <1>2. CASE Resolve(c)
    BY <1>2, <1>0 DEF Resolve, files, histories, FilesOK, RestOK
  <1>3. CASE Ensure(c)
    BY <1>3, <1>0 DEF Ensure, files, histories, FilesOK, RestOK
  <1>4. CASE LoadCatalog(c)
    BY <1>4, <1>0 DEF LoadCatalog, files, histories, FilesOK, RestOK
  <1>5. CASE CurlStarts(c)
    <2>0. /\ job[c] \in Jobs /\ Shape(job[c])
          /\ job[c].op \in Creates \cup {"pull", "image rm"}
      BY <1>5, Where, OpOf DEF CurlStarts, At, Creates
    <2>1. job[c].from \in Images /\ job[c].stamp \in Stamps
      BY <2>0 DEF Shape, Jobs
    <2>2. Alone(c) \in BOOLEAN
      BY DEF Alone
    <2>3. image' \in [Images -> [stamp : Stamps, whole : BOOLEAN]]
      BY <1>5, <1>0, <1>a, <2>1, <2>2 DEF CurlStarts, FilesOK
    <2>4. doubt' \subseteq Ids /\ refetched' \subseteq Images
      BY <1>5, <1>0, <2>1 DEF CurlStarts, RestOK
    <2> QED
      BY <1>5, <1>0, <2>3, <2>4 DEF CurlStarts, FilesOK, RestOK
  <1>6. CASE CurlEnds(c)
    <2>0. /\ job[c] \in Jobs /\ Shape(job[c])
          /\ job[c].op \in Creates \cup {"pull", "image rm"}
      BY <1>6, Where, OpOf DEF CurlEnds, At, Creates
    <2>1. job[c].from \in Images /\ job[c].stamp \in Stamps
      BY <2>0 DEF Shape, Jobs
    <2>2. Alone(c) \in BOOLEAN
      BY DEF Alone
    <2>3. image' \in [Images -> [stamp : Stamps, whole : BOOLEAN]]
      BY <1>6, <1>0, <1>a, <2>1, <2>2 DEF CurlEnds, FilesOK
    <2>4. doubt' \subseteq Ids /\ refetched' \subseteq Images
      BY <1>6, <1>0, <2>1 DEF CurlEnds, RestOK
    <2> QED
      BY <1>6, <1>0, <2>3, <2>4 DEF CurlEnds, FilesOK, RestOK
  <1>7. CASE CurlFails(c)
    BY <1>7, <1>0 DEF CurlFails, files, histories, FilesOK, RestOK
  <1>8. CASE UnlinkImage(c)
    <2>0. /\ job[c] \in Jobs /\ Shape(job[c])
          /\ job[c].op \in Creates \cup {"pull", "image rm"}
      BY <1>8, Where, OpOf DEF UnlinkImage, At, Creates
    <2>1. job[c].from \in Images /\ job[c].stamp \in Stamps
      BY <2>0 DEF Shape, Jobs
    <2>2. Alone(c) \in BOOLEAN
      BY DEF Alone
    <2>3. image' \in [Images -> [stamp : Stamps, whole : BOOLEAN]]
      BY <1>8, <1>0, <1>a, <2>1, <2>2 DEF UnlinkImage, FilesOK
    <2>4. doubt' \subseteq Ids /\ refetched' \subseteq Images
      BY <1>8, <1>0, <2>1 DEF UnlinkImage, RestOK
    <2> QED
      BY <1>8, <1>0, <2>3, <2>4 DEF UnlinkImage, FilesOK, RestOK
  <1>9. CASE CreateDisk(c)
    <2>1. job[c].id \in Ids /\ job[c].op \in Creates \cup {"fork", "rm"} /\ Shape(job[c])
      BY <1>9, UnderwayOn DEF CreateDisk, Underway
    <2>2. Backing(c) \in Stamps
      <3>1. job[c].op \in Creates \cup {"fork"}
        BY <1>9, Where, OpOf DEF CreateDisk, At
      <3> QED
        BY <2>1, <3>1, <1>0 DEF Backing, Shape, FilesOK
    <2>3. job[c].from \in Ids \cup Images /\ job[c].stamp \in Stamps
      BY <1>0 DEF OwnJob, Jobs
    <2> QED
      BY <1>9, <1>0, <2>1, <2>2, <2>3 DEF CreateDisk, FilesOK, RestOK
  <1>10. CASE QemuImgFails(c)
    BY <1>10, <1>0 DEF QemuImgFails, files, histories, FilesOK, RestOK
  <1>11. CASE WriteManifest(c)
    <2>1. job[c].id \in Ids /\ job[c].op \in Creates \cup {"fork", "rm"} /\ Shape(job[c])
      BY <1>11, UnderwayOn DEF WriteManifest, Underway
    <2>2. breaks < MaxBreaks => breaks + 1 \in 0..MaxBreaks
      BY <1>0, InstancesAssumption DEF RestOK
    <2> QED
      BY <1>11, <1>0, <1>a, <2>1, <2>2 DEF WriteManifest, FilesOK, RestOK, files, NoDisk
  <1>12. CASE Unlink(c)
    <2>1. job[c].id \in Ids /\ job[c].op \in Creates \cup {"fork", "rm"} /\ Shape(job[c])
      BY <1>12, UnderwayOn DEF Unlink, Underway
    <2>2. breaks < MaxBreaks => breaks + 1 \in 0..MaxBreaks
      BY <1>0, InstancesAssumption DEF RestOK
    <2> QED
      BY <1>12, <1>0, <1>a, <2>1, <2>2 DEF Unlink, FilesOK, RestOK, files, NoDisk
  <1>13. CASE UnlinkManifest(c)
    <2>1. job[c].id \in Ids /\ job[c].op \in Creates \cup {"fork", "rm"} /\ Shape(job[c])
      BY <1>13, UnderwayOn DEF UnlinkManifest, Underway
    <2>2. breaks < MaxBreaks => breaks + 1 \in 0..MaxBreaks
      BY <1>0, InstancesAssumption DEF RestOK
    <2> QED
      BY <1>13, <1>0, <1>a, <2>1, <2>2 DEF UnlinkManifest, FilesOK, RestOK, files, NoDisk
  <1>14. CASE UnlinkFails(c)
    <2>1. job[c].id \in Ids /\ job[c].op \in Creates \cup {"fork", "rm"} /\ Shape(job[c])
      BY <1>14, UnderwayOn DEF UnlinkFails, Underway
    <2>2. breaks < MaxBreaks => breaks + 1 \in 0..MaxBreaks
      BY <1>0, InstancesAssumption DEF RestOK
    <2> QED
      BY <1>14, <1>0, <1>a, <2>1, <2>2 DEF UnlinkFails, FilesOK, RestOK, files, NoDisk
  <1>15. CASE TruncateRegistry(c)
    <2>1. Text({}) \in [list : SUBSET Entries, parses : BOOLEAN]
      BY TextsTyped, <1>0 DEF FilesOK
    <2>2. doubt' \subseteq doubt \cup Ids
      BY <1>15 DEF TruncateRegistry
    <2> QED
      BY <1>15, <1>0, <2>1, <2>2 DEF TruncateRegistry, FilesOK, RestOK
  <1>16. CASE WriteRegistry(c)
    <2>1. Registry(c) \in SUBSET Entries
      BY <1>16, RegistryTyped DEF WriteRegistry, Underway
    <2>2. registry' \in [list : SUBSET Entries, parses : BOOLEAN]
      BY <1>16, <1>0, <2>1, TextsTyped DEF WriteRegistry, FilesOK
    <2>3. reported' \in [Ids -> {"gone", "created"}]
      BY <1>16, <1>0 DEF WriteRegistry, RestOK, Reports
    <2> QED
      BY <1>16, <1>0, <2>2, <2>3 DEF WriteRegistry, FilesOK, RestOK
  <1>17. CASE TruncateCatalog(c)
    <2>1. Names(c) \in SUBSET Images
      BY <1>17, NamesTyped DEF TruncateCatalog
    <2>2. catalog' \in [list : SUBSET Images, parses : BOOLEAN]
      BY <1>17, <1>0, <2>1, TextsTyped DEF TruncateCatalog, FilesOK
    <2>3. lost' \subseteq Images
      BY <1>17, <1>0, <2>1 DEF TruncateCatalog, FilesOK, RestOK, Loses, Listed
    <2> QED
      BY <1>17, <1>0, <2>2, <2>3 DEF TruncateCatalog, FilesOK, RestOK
  <1>18. CASE WriteCatalog(c)
    <2>1. Names(c) \in SUBSET Images
      BY <1>18, NamesTyped DEF WriteCatalog
    <2>2. catalog' \in [list : SUBSET Images, parses : BOOLEAN]
      BY <1>18, <1>0, <2>1, TextsTyped DEF WriteCatalog, FilesOK
    <2>3. lost' \subseteq Images
      BY <1>18, <1>0, <2>1 DEF WriteCatalog, FilesOK, RestOK, Loses, Listed
    <2> QED
      BY <1>18, <1>0, <2>2, <2>3 DEF WriteCatalog, FilesOK, RestOK
  <1>19. CASE DomainCreate(c)
    <2>0. job[c].op \in Creates \cup {"start"} /\ Shape(job[c]) /\ job[c] \in Jobs
      BY <1>19, Where, OpOf DEF DomainCreate, At, Creates
    <2>1. job[c].id \in Ids /\ job[c].stamp \in Stamps
      BY <2>0 DEF Shape, Jobs
    <2>2. domain' \in [Ids -> [on : BOOLEAN, running : BOOLEAN, disk : Stamps,
                             by : Stamps, told : BOOLEAN]]
      BY <1>19, <1>0, <2>1 DEF DomainCreate, FilesOK, RestOK
    <2> QED
      BY <1>19, <1>0, <2>2 DEF DomainCreate, FilesOK, RestOK, files, histories
  <1>20. CASE DomainStart(c)
    <2>0. job[c].op \in Creates \cup {"start"} /\ Shape(job[c]) /\ job[c] \in Jobs
      BY <1>20, Where, OpOf DEF DomainStart, At, Creates
    <2>1. job[c].id \in Ids /\ job[c].stamp \in Stamps
      BY <2>0 DEF Shape, Jobs
    <2>2. domain' \in [Ids -> [on : BOOLEAN, running : BOOLEAN, disk : Stamps,
                             by : Stamps, told : BOOLEAN]]
      <3> DEFINE D == [on : BOOLEAN, running : BOOLEAN, disk : Stamps,
                       by : Stamps, told : BOOLEAN]
                 r == [domain[job[c].id] EXCEPT !.running = TRUE, !.told = TRUE]
      <3>1. domain \in [Ids -> D]
        BY <1>0 DEF RestOK
      <3>2. r \in D
        BY <2>1, <3>1
      <3>3. domain' = [domain EXCEPT ![job[c].id] = r]
        BY <1>20 DEF DomainStart
      <3> HIDE DEF D, r
      <3>4. domain' \in [Ids -> D]
        BY <3>1, <3>2, <3>3
      <3> QED
        BY <3>4 DEF D
    <2> QED
      BY <1>20, <1>0, <2>2 DEF DomainStart, FilesOK, RestOK, files, histories
  <1>21. CASE DaemonFails(c)
    BY <1>21, <1>0 DEF DaemonFails, files, histories, FilesOK, RestOK
  <1>22. CASE Kill(c)
    <2>0. /\ breaks' \in 0..MaxBreaks /\ UNCHANGED <<image, disk, manifest, domain, jobs, reported, refetched>>
          /\ Changing(c) => job[c].id \in Ids
      <3>1. breaks < MaxBreaks => breaks + 1 \in 0..MaxBreaks
        BY <1>0, InstancesAssumption DEF RestOK
      <3>2. Shape(job[c])
        BY <1>22, Where DEF Kill, Busy
      <3> QED
        BY <1>22, <3>1, <3>2 DEF Kill, Changing, Shape
    <2>1. CASE Writes(c, "registry", "write")
      <3>1. Registry(c) \in SUBSET Entries
        BY <2>1, RegistryTyped DEF Underway
      <3>2. registry' \in BrokenOff(registry, Registry(c)) /\ UNCHANGED <<catalog, lost>>
            /\ doubt' \subseteq doubt \cup Ids
        BY <1>22, <2>0, <2>1 DEF Kill, Writes, At
      <3>3. registry' \in [list : SUBSET Entries, parses : BOOLEAN]
        BY <3>1, <3>2, <1>0, TextsTyped DEF FilesOK
      <3> QED
        BY <1>0, <2>0, <3>2, <3>3 DEF FilesOK, RestOK
    <2>2. CASE Writes(c, "catalog", "write")
      <3>1. Names(c) \in SUBSET Images
        BY <2>2, NamesTyped
      <3>2. catalog' \in BrokenOff(catalog, Names(c)) /\ UNCHANGED registry
            /\ doubt' \subseteq doubt \cup Ids /\ lost' = lost \cup Loses(c)
        BY <1>22, <2>0, <2>2 DEF Kill, Writes, At
      <3>3. catalog' \in [list : SUBSET Images, parses : BOOLEAN]
        BY <3>1, <3>2, <1>0, TextsTyped DEF FilesOK
      <3>4. lost' \subseteq Images
        BY <3>1, <3>2, <1>0 DEF Loses, Listed, FilesOK, RestOK
      <3> QED
        BY <1>0, <2>0, <3>2, <3>3, <3>4 DEF FilesOK, RestOK
    <2>3. CASE ~At(c, "write")
      <3>1. UNCHANGED <<registry, catalog, lost>> /\ doubt' \subseteq doubt \cup Ids
        BY <1>22, <2>0, <2>3 DEF Kill, Writes
      <3> QED
        BY <1>0, <2>0, <3>1 DEF FilesOK, RestOK
    <2> QED
      BY <1>22, <2>1, <2>2, <2>3 DEF Kill
  <1> QED
    BY <1>1, <1>2, <1>3, <1>4, <1>5, <1>6, <1>7, <1>8, <1>9, <1>10, <1>11, <1>12, <1>13, <1>14, <1>15, <1>16, <1>17, <1>18, <1>19, <1>20, <1>21, <1>22 DEF Works

LEMMA TypesStep == TypeOK /\ ShapeOK /\ [Next]_vars => TypeOK'
  <1> SUFFICES ASSUME TypeOK, ShapeOK, [Next]_vars PROVE TypeOK'
    OBVIOUS
  <1>0. FilesOK /\ RestOK
    BY TypesParts
  <1>1. ASSUME NEW c \in Callers, Works(c) PROVE TypeOK'
    <2>1. FilesOK' /\ RestOK'
      BY <1>1, WorksTypes
    <2>2. job' \in [Callers -> {Idle} \cup Jobs]
      BY <1>1, JobStep DEF OwnJob
    <2> QED
      BY <2>1, <2>2, TypesParts DEF TypeOK, FilesOK, RestOK
  <1>2. ASSUME NEW c \in Callers, NEW op, NEW id, NEW from, First(op, id, from), Begin(c, op, id, from)
        PROVE  TypeOK'
    <2>1. job' \in [Callers -> {Idle} \cup Jobs]
      BY <1>2, BeginStep DEF First
    <2>2. jobs' \in Stamps /\ UNCHANGED <<files, domain, breaks, reported, histories>>
      BY <1>2, <1>0, InstancesAssumption DEF Begin, Stamps, RestOK
    <2> QED
      BY <1>0, <2>1, <2>2 DEF TypeOK, FilesOK, RestOK, files, histories
  <1>3. ASSUME NEW id \in Ids, GuestEnds(id) PROVE TypeOK'
    BY <1>3, InstancesAssumption DEF GuestEnds, TypeOK, Off, Stamps, None, files, histories
  <1>4. CASE UNCHANGED vars
    BY <1>4 DEF vars, TypeOK
  <1> QED
    BY <1>1, <1>2, <1>3, <1>4, StepCases

------------------------------------------------------ (* where the commands are *)

(* The step leaves c where a command of its kind can be.                    *)
LEMMA WorksShape ==
    ASSUME TypeOK, ShapeOK, NEW c \in Callers, Works(c)
    PROVE  job'[c] # Idle => Shape(job'[c])
  <1>0. OwnJob(c)
    BY JobStep
  <1>1. CASE LoadRegistry(c)
    <2>1. /\ job[c] \in Jobs /\ Shape(job[c])
          /\ job[c].op \in Ops /\ job[c].pc \in Pcs(job[c].op)
      BY <1>1, Where DEF LoadRegistry, At, Writes, Busy
    <2>2. ASSUME NEW pc \in {"resolve", "disk", "unlink"}, ReadsRegistry(c, pc),
                 pc = "resolve" => job[c].op \in Creates,
                 pc = "disk" => job[c].op = "fork", pc = "unlink" => job[c].op = "rm",
                 job[c].op # "rm" => ~Find(registry.list, job[c].id)
          PROVE  Shape(job'[c])
      <3>1. job'[c] = [job[c] EXCEPT !.pc = pc, !.reg = registry.list,
                                     !.blind = BeingWritten("registry")]
        <4>1. pc \in Pc
          BY DEF Pc
        <4> QED
          BY <2>1, <2>2, <4>1, ReadsKeeps
      <3>2. /\ job'[c].pc = pc /\ job'[c].reg = registry.list
            /\ job'[c].op = job[c].op /\ job'[c].id = job[c].id /\ job'[c].from = job[c].from
            /\ job'[c].names = job[c].names
        BY <2>1, <3>1 DEF Jobs
      <3> QED
        BY <2>1, <2>2, <3>2 DEF Shape, Pcs, Ops, Creates
    <2>3. CASE Fails(c)
      BY <2>1, <2>3, EndsKeeps
    <2> QED
      BY <1>1, <2>2, <2>3 DEF LoadRegistry, AlreadyExists, Refuses, Creates
  <1>2. CASE Resolve(c)
    <2>1. /\ job[c] \in Jobs /\ Shape(job[c])
          /\ job[c].op \in Ops /\ job[c].pc \in Pcs(job[c].op)
      BY <1>2, Where DEF Resolve, At, Writes, Busy
    <2>2. ASSUME NEW pc \in {"disk", "ensure"}, Goes(c, pc), job[c].op \notin {"fork", "rm"},
                 pc # "disk" /\ pc # "create" => job[c].op \notin {"new", "pull", "image rm"},
                 pc \in {"create", "disk"} => job[c].op \in Creates,
                 pc = "load" => job[c].op = "spawn", pc = "ensure" => job[c].op = "spawn"
          PROVE  Shape(job'[c])
      <3>1. job'[c] = [job[c] EXCEPT !.pc = pc]
        <4>1. pc \in Pc
          BY DEF Pc
        <4> QED
          BY <2>1, <2>2, <4>1, GoesKeeps
      <3>2. /\ job'[c].pc = pc /\ job'[c].reg = job[c].reg
            /\ job'[c].op = job[c].op /\ job'[c].id = job[c].id /\ job'[c].from = job[c].from
            /\ job'[c].names = job[c].names
        BY <2>1, <3>1 DEF Jobs
      <3> QED
        BY <1>2, <2>1, <2>2, <3>2 DEF Shape, Pcs, Ops, Creates, Resolve, At, Writes
    <2>3. CASE Fails(c)
      BY <2>1, <2>3, EndsKeeps
    <2> QED
      BY <1>2, <2>1, <2>2, <2>3, OpOf DEF Resolve, Reports, Fails, Downloads, StartsIt, Creates, Ops, Shape, Writes, At, Pcs
  <1>3. CASE Ensure(c)
    <2>1. /\ job[c] \in Jobs /\ Shape(job[c])
          /\ job[c].op \in Ops /\ job[c].pc \in Pcs(job[c].op)
      BY <1>3, Where DEF Ensure, At, Writes, Busy
    <2>2. Ensure(c)
      BY <1>3 DEF Ensure
    <2>3. job'[c] = [job[c] EXCEPT !.pc = IF Missing(c) THEN "curl" ELSE "load", !.retry = TRUE, !.names = Listed]
      BY <2>1, <2>2, EnsureKeeps
    <2>4. 
            /\ job'[c].pc = IF Missing(c) THEN "curl" ELSE "load"
            /\ job'[c].op = job[c].op /\ job'[c].id = job[c].id /\ job'[c].from = job[c].from
            /\ job'[c].reg = job[c].reg /\ job'[c].names = Listed /\ job'[c].file = job[c].file
      BY <2>1, <2>3 DEF Jobs
    <2> QED
      BY <1>3, <2>1, <2>4, OpOf DEF Ensure, Shape, Pcs, Ops, Creates, At, Missing
  <1>4. CASE LoadCatalog(c)
    <2>1. /\ job[c] \in Jobs /\ Shape(job[c])
          /\ job[c].op \in Ops /\ job[c].pc \in Pcs(job[c].op)
      BY <1>4, Where DEF LoadCatalog, At, Writes, Busy
    <2>2. LoadCatalog(c)
      BY <1>4 DEF LoadCatalog
    <2>3. job'[c] = Idle \/ job'[c] = [job[c] EXCEPT !.pc = IF job[c].op = "pull" THEN "truncate" ELSE "unlink image", !.file = "catalog", !.names = Listed]
      BY <2>1, <2>2, LoadCatalogKeeps
    <2>4. job'[c] # Idle => 
            /\ job'[c].pc = IF job[c].op = "pull" THEN "truncate" ELSE "unlink image"
            /\ job'[c].op = job[c].op /\ job'[c].id = job[c].id /\ job'[c].from = job[c].from
            /\ job'[c].reg = job[c].reg /\ job'[c].names = Listed /\ job'[c].file = "catalog"
      BY <2>1, <2>3 DEF Jobs
    <2> QED
      BY <1>4, <2>1, <2>4, OpOf DEF LoadCatalog, Shape, Pcs, Ops, Creates, At, Missing
  <1>5. CASE CurlStarts(c)
    <2>1. /\ job[c] \in Jobs /\ Shape(job[c])
          /\ job[c].op \in Ops /\ job[c].pc \in Pcs(job[c].op)
      BY <1>5, Where DEF CurlStarts, At, Writes, Busy
    <2>2. job'[c] = [job[c] EXCEPT !.pc = "curling"]
      BY <1>5, <2>1, GoesKeeps DEF CurlStarts, Pc
    <2>3. /\ job'[c].pc = "curling"
          /\ job'[c].op = job[c].op /\ job'[c].id = job[c].id /\ job'[c].from = job[c].from
          /\ job'[c].reg = job[c].reg /\ job'[c].names = job[c].names /\ job'[c].file = job[c].file
      BY <2>1, <2>2 DEF Jobs
    <2> QED
      BY <1>5, <2>1, <2>3, OpOf DEF CurlStarts, Shape, Pcs, Ops, Creates, At, Writes
  <1>6. CASE CurlEnds(c)
    <2>1. /\ job[c] \in Jobs /\ Shape(job[c])
          /\ job[c].op \in Ops /\ job[c].pc \in Pcs(job[c].op)
      BY <1>6, Where DEF CurlEnds, At, Writes, Busy
    <2>2. Fetched(c)
      BY <1>6 DEF CurlEnds
    <2>3. job'[c] = [job[c] EXCEPT !.file = "catalog", !.pc = IF job[c].op = "pull" THEN "load catalog" ELSE "truncate"]
      BY <2>1, <2>2, FetchedKeeps
    <2>4. 
            /\ job'[c].pc = IF job[c].op = "pull" THEN "load catalog" ELSE "truncate"
            /\ job'[c].op = job[c].op /\ job'[c].id = job[c].id /\ job'[c].from = job[c].from
            /\ job'[c].reg = job[c].reg /\ job'[c].names = job[c].names /\ job'[c].file = "catalog"
      BY <2>1, <2>3 DEF Jobs
    <2> QED
      BY <1>6, <2>1, <2>4, OpOf DEF CurlEnds, Shape, Pcs, Ops, Creates, At, Missing
  <1>7. CASE CurlFails(c)
    <2>1. job[c] \in Jobs /\ Fails(c)
      BY <1>7, BusyJob DEF CurlFails, At, Busy
    <2> QED
      BY <2>1, EndsKeeps
  <1>8. CASE UnlinkImage(c)
    <2>1. /\ job[c] \in Jobs /\ Shape(job[c])
          /\ job[c].op \in Ops /\ job[c].pc \in Pcs(job[c].op)
      BY <1>8, Where DEF UnlinkImage, At, Writes, Busy
    <2>2. job'[c] = [job[c] EXCEPT !.pc = "truncate"]
      BY <1>8, <2>1, GoesKeeps DEF UnlinkImage, Pc
    <2>3. /\ job'[c].pc = "truncate"
          /\ job'[c].op = job[c].op /\ job'[c].id = job[c].id /\ job'[c].from = job[c].from
          /\ job'[c].reg = job[c].reg /\ job'[c].names = job[c].names /\ job'[c].file = job[c].file
      BY <2>1, <2>2 DEF Jobs
    <2> QED
      BY <1>8, <2>1, <2>3, OpOf DEF UnlinkImage, Shape, Pcs, Ops, Creates, At, Writes
  <1>9. CASE CreateDisk(c)
    <2>1. /\ job[c] \in Jobs /\ Shape(job[c])
          /\ job[c].op \in Ops /\ job[c].pc \in Pcs(job[c].op)
      BY <1>9, Where DEF CreateDisk, At, Writes, Busy
    <2>2. job'[c] = [job[c] EXCEPT !.pc = "manifest"]
      BY <1>9, <2>1, GoesKeeps DEF CreateDisk, Pc
    <2>3. /\ job'[c].pc = "manifest"
          /\ job'[c].op = job[c].op /\ job'[c].id = job[c].id /\ job'[c].from = job[c].from
          /\ job'[c].reg = job[c].reg /\ job'[c].names = job[c].names /\ job'[c].file = job[c].file
      BY <2>1, <2>2 DEF Jobs
    <2> QED
      BY <1>9, <2>1, <2>3, OpOf DEF CreateDisk, Shape, Pcs, Ops, Creates, At, Writes
  <1>10. CASE QemuImgFails(c)
    <2>1. job[c] \in Jobs /\ Fails(c)
      BY <1>10, BusyJob DEF QemuImgFails, At, Busy
    <2> QED
      BY <2>1, EndsKeeps
  <1>11. CASE WriteManifest(c)
    <2>1. /\ job[c] \in Jobs /\ Shape(job[c])
          /\ job[c].op \in Ops /\ job[c].pc \in Pcs(job[c].op)
      BY <1>11, Where DEF WriteManifest, At, Writes, Busy
    <2>2. Saves(c)
      BY <1>11 DEF WriteManifest
    <2>3. job'[c] = [job[c] EXCEPT !.pc = "truncate", !.file = "registry"]
      BY <2>1, <2>2, SavesKeeps
    <2>4. 
            /\ job'[c].pc = "truncate"
            /\ job'[c].op = job[c].op /\ job'[c].id = job[c].id /\ job'[c].from = job[c].from
            /\ job'[c].reg = job[c].reg /\ job'[c].names = job[c].names /\ job'[c].file = "registry"
      BY <2>1, <2>3 DEF Jobs
    <2> QED
      BY <1>11, <2>1, <2>4, OpOf DEF WriteManifest, Shape, Pcs, Ops, Creates, At, Missing
  <1>12. CASE Unlink(c)
    <2>1. /\ job[c] \in Jobs /\ Shape(job[c])
          /\ job[c].op \in Ops /\ job[c].pc \in Pcs(job[c].op)
      BY <1>12, Where DEF Unlink, At, Writes, Busy
    <2>2. job'[c] = [job[c] EXCEPT !.pc = "unlink manifest"]
      BY <1>12, <2>1, GoesKeeps DEF Unlink, Pc
    <2>3. /\ job'[c].pc = "unlink manifest"
          /\ job'[c].op = job[c].op /\ job'[c].id = job[c].id /\ job'[c].from = job[c].from
          /\ job'[c].reg = job[c].reg /\ job'[c].names = job[c].names /\ job'[c].file = job[c].file
      BY <2>1, <2>2 DEF Jobs
    <2> QED
      BY <1>12, <2>1, <2>3, OpOf DEF Unlink, Shape, Pcs, Ops, Creates, At, Writes
  <1>13. CASE UnlinkManifest(c)
    <2>1. /\ job[c] \in Jobs /\ Shape(job[c])
          /\ job[c].op \in Ops /\ job[c].pc \in Pcs(job[c].op)
      BY <1>13, Where DEF UnlinkManifest, At, Writes, Busy
    <2>2. Saves(c)
      BY <1>13 DEF UnlinkManifest
    <2>3. job'[c] = [job[c] EXCEPT !.pc = "truncate", !.file = "registry"]
      BY <2>1, <2>2, SavesKeeps
    <2>4. 
            /\ job'[c].pc = "truncate"
            /\ job'[c].op = job[c].op /\ job'[c].id = job[c].id /\ job'[c].from = job[c].from
            /\ job'[c].reg = job[c].reg /\ job'[c].names = job[c].names /\ job'[c].file = "registry"
      BY <2>1, <2>3 DEF Jobs
    <2> QED
      BY <1>13, <2>1, <2>4, OpOf DEF UnlinkManifest, Shape, Pcs, Ops, Creates, At, Missing
  <1>14. CASE UnlinkFails(c)
    <2>1. /\ job[c] \in Jobs /\ Shape(job[c])
          /\ job[c].op \in Ops /\ job[c].pc \in Pcs(job[c].op)
      BY <1>14, Where DEF UnlinkFails, At, Writes, Busy
    <2>2. job'[c] = [job[c] EXCEPT !.pc = "unlink manifest"]
      BY <1>14, <2>1, GoesKeeps DEF UnlinkFails, Pc
    <2>3. /\ job'[c].pc = "unlink manifest"
          /\ job'[c].op = job[c].op /\ job'[c].id = job[c].id /\ job'[c].from = job[c].from
          /\ job'[c].reg = job[c].reg /\ job'[c].names = job[c].names /\ job'[c].file = job[c].file
      BY <2>1, <2>2 DEF Jobs
    <2> QED
      BY <1>14, <2>1, <2>3, OpOf DEF UnlinkFails, Shape, Pcs, Ops, Creates, At, Writes
  <1>15. CASE TruncateRegistry(c)
    <2>1. /\ job[c] \in Jobs /\ Shape(job[c])
          /\ job[c].op \in Ops /\ job[c].pc \in Pcs(job[c].op)
      BY <1>15, Where DEF TruncateRegistry, At, Writes, Busy
    <2>2. job'[c] = [job[c] EXCEPT !.pc = "write"]
      BY <1>15, <2>1, GoesKeeps DEF TruncateRegistry, Pc
    <2>3. /\ job'[c].pc = "write"
          /\ job'[c].op = job[c].op /\ job'[c].id = job[c].id /\ job'[c].from = job[c].from
          /\ job'[c].reg = job[c].reg /\ job'[c].names = job[c].names /\ job'[c].file = job[c].file
      BY <2>1, <2>2 DEF Jobs
    <2> QED
      BY <1>15, <2>1, <2>3, OpOf DEF TruncateRegistry, Shape, Pcs, Ops, Creates, At, Writes
  <1>16. CASE WriteRegistry(c)
    <2>1. /\ job[c] \in Jobs /\ Shape(job[c])
          /\ job[c].op \in Ops /\ job[c].pc \in Pcs(job[c].op)
      BY <1>16, Where DEF WriteRegistry, At, Writes, Busy
    <2>2. ASSUME NEW pc \in {"create"}, Goes(c, pc), job[c].op \notin {"fork", "rm"},
                 pc # "disk" /\ pc # "create" => job[c].op \notin {"new", "pull", "image rm"},
                 pc \in {"create", "disk"} => job[c].op \in Creates,
                 pc = "load" => job[c].op = "spawn", pc = "ensure" => job[c].op = "spawn"
          PROVE  Shape(job'[c])
      <3>1. job'[c] = [job[c] EXCEPT !.pc = pc]
        <4>1. pc \in Pc
          BY DEF Pc
        <4> QED
          BY <2>1, <2>2, <4>1, GoesKeeps
      <3>2. /\ job'[c].pc = pc /\ job'[c].reg = job[c].reg
            /\ job'[c].op = job[c].op /\ job'[c].id = job[c].id /\ job'[c].from = job[c].from
            /\ job'[c].names = job[c].names
        BY <2>1, <3>1 DEF Jobs
      <3> QED
        BY <1>16, <2>1, <2>2, <3>2 DEF Shape, Pcs, Ops, Creates, WriteRegistry, At, Writes
    <2>3. CASE Fails(c)
      BY <2>1, <2>3, EndsKeeps
    <2> QED
      BY <1>16, <2>1, <2>2, <2>3, OpOf DEF WriteRegistry, Reports, Fails, Downloads, StartsIt, Creates, Ops, Shape, Writes, At, Pcs
  <1>17. CASE TruncateCatalog(c)
    <2>1. /\ job[c] \in Jobs /\ Shape(job[c])
          /\ job[c].op \in Ops /\ job[c].pc \in Pcs(job[c].op)
      BY <1>17, Where DEF TruncateCatalog, At, Writes, Busy
    <2>2. job'[c] = [job[c] EXCEPT !.pc = "write"]
      BY <1>17, <2>1, GoesKeeps DEF TruncateCatalog, Pc
    <2>3. /\ job'[c].pc = "write"
          /\ job'[c].op = job[c].op /\ job'[c].id = job[c].id /\ job'[c].from = job[c].from
          /\ job'[c].reg = job[c].reg /\ job'[c].names = job[c].names /\ job'[c].file = job[c].file
      BY <2>1, <2>2 DEF Jobs
    <2> QED
      BY <1>17, <2>1, <2>3, OpOf DEF TruncateCatalog, Shape, Pcs, Ops, Creates, At, Writes
  <1>18. CASE WriteCatalog(c)
    <2>1. /\ job[c] \in Jobs /\ Shape(job[c])
          /\ job[c].op \in Ops /\ job[c].pc \in Pcs(job[c].op)
      BY <1>18, Where DEF WriteCatalog, At, Writes, Busy
    <2>2. ASSUME NEW pc \in {"load"}, Goes(c, pc), job[c].op \notin {"fork", "rm"},
                 pc # "disk" /\ pc # "create" => job[c].op \notin {"new", "pull", "image rm"},
                 pc \in {"create", "disk"} => job[c].op \in Creates,
                 pc = "load" => job[c].op = "spawn", pc = "ensure" => job[c].op = "spawn"
          PROVE  Shape(job'[c])
      <3>1. job'[c] = [job[c] EXCEPT !.pc = pc]
        <4>1. pc \in Pc
          BY DEF Pc
        <4> QED
          BY <2>1, <2>2, <4>1, GoesKeeps
      <3>2. /\ job'[c].pc = pc /\ job'[c].reg = job[c].reg
            /\ job'[c].op = job[c].op /\ job'[c].id = job[c].id /\ job'[c].from = job[c].from
            /\ job'[c].names = job[c].names
        BY <2>1, <3>1 DEF Jobs
      <3> QED
        BY <1>18, <2>1, <2>2, <3>2 DEF Shape, Pcs, Ops, Creates, WriteCatalog, At, Writes
    <2>3. CASE Fails(c)
      BY <2>1, <2>3, EndsKeeps
    <2> QED
      BY <1>18, <2>1, <2>2, <2>3, OpOf DEF WriteCatalog, Reports, Fails, Downloads, StartsIt, Creates, Ops, Shape, Writes, At, Pcs
  <1>19. CASE DomainCreate(c)
    <2>1. /\ job[c] \in Jobs /\ Shape(job[c])
          /\ job[c].op \in Ops /\ job[c].pc \in Pcs(job[c].op)
      BY <1>19, Where DEF DomainCreate, At, Writes, Busy
    <2>2. ASSUME NEW pc \in {"start"}, Goes(c, pc), job[c].op \notin {"fork", "rm"},
                 pc # "disk" /\ pc # "create" => job[c].op \notin {"new", "pull", "image rm"},
                 pc \in {"create", "disk"} => job[c].op \in Creates,
                 pc = "load" => job[c].op = "spawn", pc = "ensure" => job[c].op = "spawn"
          PROVE  Shape(job'[c])
      <3>1. job'[c] = [job[c] EXCEPT !.pc = pc]
        <4>1. pc \in Pc
          BY DEF Pc
        <4> QED
          BY <2>1, <2>2, <4>1, GoesKeeps
      <3>2. /\ job'[c].pc = pc /\ job'[c].reg = job[c].reg
            /\ job'[c].op = job[c].op /\ job'[c].id = job[c].id /\ job'[c].from = job[c].from
            /\ job'[c].names = job[c].names
        BY <2>1, <3>1 DEF Jobs
      <3> QED
        BY <1>19, <2>1, <2>2, <3>2 DEF Shape, Pcs, Ops, Creates, DomainCreate, At, Writes
    <2>3. CASE Fails(c)
      BY <2>1, <2>3, EndsKeeps
    <2> QED
      BY <1>19, <2>1, <2>2, <2>3, OpOf DEF DomainCreate, Reports, Fails, Downloads, StartsIt, Creates, Ops, Shape, Writes, At, Pcs
  <1>20. CASE DomainStart(c)
    <2>1. job[c] \in Jobs /\ Fails(c)
      BY <1>20, BusyJob DEF DomainStart, At, Busy
    <2> QED
      BY <2>1, EndsKeeps
  <1>21. CASE DaemonFails(c)
    <2>1. job[c] \in Jobs /\ Fails(c)
      BY <1>21, BusyJob DEF DaemonFails, At, Busy
    <2> QED
      BY <2>1, EndsKeeps
  <1>22. CASE Kill(c)
    <2>1. job[c] \in Jobs /\ Fails(c)
      BY <1>22, BusyJob DEF Kill, At, Busy
    <2> QED
      BY <2>1, EndsKeeps
  <1> QED
    BY <1>1, <1>2, <1>3, <1>4, <1>5, <1>6, <1>7, <1>8, <1>9, <1>10, <1>11, <1>12, <1>13, <1>14, <1>15, <1>16, <1>17, <1>18, <1>19, <1>20, <1>21, <1>22 DEF Works

LEMMA ShapeStep == TypeOK /\ ShapeOK /\ [Next]_vars => ShapeOK'
  <1> SUFFICES ASSUME TypeOK, ShapeOK, [Next]_vars PROVE ShapeOK'
    OBVIOUS
  <1>1. ASSUME NEW c \in Callers, Works(c) PROVE ShapeOK'
    <2>1. OwnJob(c) /\ (job'[c] # Idle => Shape(job'[c]))
      BY <1>1, JobStep, WorksShape
    <2> QED
      BY <2>1 DEF ShapeOK, OwnJob, Busy, Idle
  <1>2. ASSUME NEW c \in Callers, NEW op, NEW id, NEW from, First(op, id, from), Begin(c, op, id, from)
        PROVE  ShapeOK'
    <2>1. /\ \A d \in Callers \ {c} : job'[d] = job[d]
          /\ job'[c] \in Jobs
          /\ job'[c].op = op /\ job'[c].id = id /\ job'[c].from = from
          /\ job'[c].pc = FirstStep(op) /\ job'[c].names = {}
      <3>1. op \in Ops /\ id \in Ids \cup Images /\ from \in Ids \cup Images
        BY <1>2 DEF First
      <3> QED
        BY <1>2, <3>1, BeginStep
    <2>2. Shape(job'[c])
      BY <1>2, <2>1 DEF First, FirstStep, Shape, Pcs, Creates, Ops
    <2> QED
      BY <2>1, <2>2 DEF ShapeOK, Busy
  <1>3. ASSUME NEW id \in Ids, GuestEnds(id) PROVE ShapeOK'
    BY <1>3 DEF GuestEnds, ShapeOK, Busy
  <1>4. CASE UNCHANGED vars
    BY <1>4 DEF vars, ShapeOK, Busy
  <1> QED
    BY <1>1, <1>2, <1>3, <1>4, StepCases

--------------------------------------------------- (* instances and what is said *)

LEMMA OthersKeep ==
    ASSUME NEW c \in Callers, OwnJob(c), NEW d \in Callers \ {c}
    PROVE  /\ job'[d] = job[d] /\ Registry(d)' = Registry(d)
           /\ Busy(d)' <=> Busy(d)
           /\ Changing(d)' <=> Changing(d)
           /\ Underway(d)' <=> Underway(d)
           /\ Saving(d)' <=> Saving(d)
           /\ \A pc : At(d, pc)' <=> At(d, pc)
  BY DEF OwnJob, Registry, NewEntry, Busy, Changing, Underway, Saving, Writes, At

(* What a step does to the doubts: only a command that starts on the files  *)
(* of its id ends one.                                                      *)
LEMMA DoubtStep ==
    ASSUME NEW c \in Callers, Works(c), NEW id, id \in doubt, id \notin doubt'
    PROVE  /\ CreateDisk(c) \/ Unlink(c)
           /\ id = job[c].id /\ ~Contended(c) /\ id \notin Stales(c)
  <1>1. CASE CreateDisk(c) \/ Unlink(c)
    BY <1>1 DEF CreateDisk, Unlink, Fresh
  <1>2. CASE Kill(c)
    BY <1>2 DEF Kill
  <1>3. CASE LoadRegistry(c)
    BY <1>3 DEF LoadRegistry, Refuses, ReadsRegistry
  <1> QED
    BY <1>1, <1>2, <1>3 DEF Works, Resolve, Ensure, LoadCatalog, CurlStarts, CurlEnds, CurlFails,
       UnlinkImage, QemuImgFails, WriteManifest, UnlinkManifest, UnlinkFails, TruncateRegistry,
       WriteRegistry, TruncateCatalog, WriteCatalog, DomainCreate, DomainStart, DaemonFails, histories

(* Steps that leave what belongs to an instance alone.                      *)
Quiet(c) == /\ UNCHANGED <<registry, disk, manifest, reported>>
            /\ doubt \subseteq doubt'
            /\ ~Underway(c) /\ ~Underway(c)'

(* The steps that do not.                                                   *)
Loud(c) == \/ CreateDisk(c) \/ Unlink(c) \/ UnlinkFails(c) \/ WriteManifest(c)
           \/ UnlinkManifest(c) \/ TruncateRegistry(c) \/ WriteRegistry(c)
           \/ Kill(c) /\ Underway(c)

(* Where a step leaves its caller, and with what.                           *)
Same(c) == /\ job'[c].op = job[c].op /\ job'[c].id = job[c].id
           /\ job'[c].from = job[c].from /\ job'[c].stamp = job[c].stamp

LEMMA EndsPc ==
    ASSUME TypeOK, NEW c \in Callers, job[c] \in Jobs, Fails(c)
    PROVE  OwnJob(c) /\ job'[c].pc = "idle"
  <1>1. OwnJob(c) /\ job'[c] = Idle
    BY EndsKeeps
  <1> QED
    BY <1>1 DEF Idle

LEMMA GoesPc ==
    ASSUME TypeOK, NEW c \in Callers, job[c] \in Jobs, NEW pc \in Pc, Goes(c, pc)
    PROVE  /\ OwnJob(c) /\ job'[c].pc = pc /\ Same(c)
           /\ job'[c].reg = job[c].reg /\ job'[c].blind = job[c].blind
           /\ job'[c].names = job[c].names /\ job'[c].file = job[c].file
  <1>1. OwnJob(c) /\ job'[c] = [job[c] EXCEPT !.pc = pc]
    BY GoesKeeps
  <1> QED
    BY <1>1 DEF Jobs, Same

LEMMA SavesPc ==
    ASSUME TypeOK, NEW c \in Callers, job[c] \in Jobs, Saves(c)
    PROVE  /\ OwnJob(c) /\ job'[c].pc = "truncate" /\ Same(c)
           /\ job'[c].reg = job[c].reg /\ job'[c].blind = job[c].blind
           /\ job'[c].names = job[c].names /\ job'[c].file = "registry"
  <1>1. OwnJob(c) /\ job'[c] = [job[c] EXCEPT !.pc = "truncate", !.file = "registry"]
    BY SavesKeeps
  <1> QED
    BY <1>1 DEF Jobs, Same

LEMMA QuietOrLoud ==
    ASSUME TypeOK, ShapeOK, NEW c \in Callers, Works(c)
    PROVE  Quiet(c) \/ Loud(c)
  <1>1. /\ job[c] \in Jobs /\ Shape(job[c])
        /\ job[c].op \in Ops /\ job[c].pc \in Pcs(job[c].op)
    <2>1. job[c] \in Jobs
      BY JobStep DEF OwnJob
    <2>2. job[c].pc # "idle"
      BY <2>1 DEF Jobs
    <2> QED
      BY <2>2, Where
  <1>2. CASE LoadRegistry(c)
    <2>1. ASSUME NEW pc \in {"resolve", "disk", "unlink"}, ReadsRegistry(c, pc)
          PROVE  job'[c].pc = pc
      <3>1. pc \in Pc
        BY DEF Pc
      <3>2. job'[c] = [job[c] EXCEPT !.pc = pc, !.reg = registry.list,
                                     !.blind = BeingWritten("registry")]
        BY <1>1, <2>1, <3>1, ReadsKeeps
      <3> QED
        BY <1>1, <3>2 DEF Jobs
    <2>2. Fails(c) => job'[c].pc = "idle"
      BY <1>1, EndsPc
    <2>3. job'[c].pc \in {"idle", "resolve", "disk", "unlink"}
      BY <1>2, <2>1, <2>2 DEF LoadRegistry, Refuses
    <2>4. doubt \subseteq doubt'
      BY <1>2 DEF LoadRegistry, Refuses, ReadsRegistry
    <2> QED
      BY <1>2, <2>3, <2>4 DEF LoadRegistry, Quiet, Underway, Writes, At, files
  <1>3. CASE Resolve(c)
    <2>1. ASSUME NEW pc \in {"disk", "ensure"}, Goes(c, pc) PROVE job'[c].pc = pc
      <3>1. pc \in Pc
        BY DEF Pc
      <3>2. job'[c] = [job[c] EXCEPT !.pc = pc]
        BY <1>1, <2>1, <3>1, GoesKeeps
      <3> QED
        BY <1>1, <3>2 DEF Jobs
    <2>2. Fails(c) => job'[c].pc = "idle"
      BY <1>1, EndsPc
    <2>3. job'[c].pc \in {"disk", "ensure"} \cup {"idle"}
      BY <1>3, <2>1, <2>2 DEF Resolve
    <2> QED
      BY <1>3, <2>3 DEF Resolve, Quiet, Underway, Writes, At, files, histories
  <1>4. CASE Ensure(c)
    <2>1. job'[c] = [job[c] EXCEPT !.pc = IF Missing(c) THEN "curl" ELSE "load",
                                      !.retry = TRUE, !.names = Listed]
      BY <1>4, <1>1, EnsureKeeps
    <2>2. job'[c].pc \in {"curl", "load"}
      BY <1>1, <2>1 DEF Jobs
    <2> QED
      BY <1>4, <2>2 DEF Ensure, Quiet, Underway, Writes, At, files, histories
  <1>5. CASE LoadCatalog(c)
    <2>1. job'[c] # Idle => job'[c] = [job[c] EXCEPT
                 !.pc = IF job[c].op = "pull" THEN "truncate" ELSE "unlink image",
                 !.file = "catalog", !.names = Listed]
      BY <1>5, <1>1, LoadCatalogKeeps
    <2>2. \/ job'[c].pc = "idle"
          \/ job'[c].pc \in {"truncate", "unlink image"} /\ job'[c].file = "catalog"
      <3>1. CASE job'[c] = Idle
        BY <3>1 DEF Idle
      <3>2. CASE job'[c] # Idle
        BY <1>1, <2>1, <3>2 DEF Jobs
      <3> QED
        BY <3>1, <3>2
    <2> QED
      BY <1>5, <2>2 DEF LoadCatalog, Quiet, Underway, Writes, At, files, histories
  <1>6. CASE CurlStarts(c)
    <2>1. job'[c] = [job[c] EXCEPT !.pc = "curling"]
      BY <1>6, <1>1, GoesKeeps DEF CurlStarts, Pc
    <2>2. job'[c].pc = "curling" /\ job'[c].file = job[c].file
      BY <1>1, <2>1 DEF Jobs
    <2> QED
      BY <1>1, <1>6, <2>2, OpOf DEF CurlStarts, Quiet, Underway, Writes, At, Shape
  <1>7. CASE CurlEnds(c)
    <2>1. job'[c] = [job[c] EXCEPT !.file = "catalog",
                       !.pc = IF job[c].op = "pull" THEN "load catalog" ELSE "truncate"]
      BY <1>7, <1>1, FetchedKeeps DEF CurlEnds
    <2>2. job'[c].pc \in {"load catalog", "truncate"} /\ job'[c].file = "catalog"
      BY <1>1, <2>1 DEF Jobs
    <2> QED
      BY <1>7, <2>2 DEF CurlEnds, Quiet, Underway, Writes, At
  <1>8. CASE CurlFails(c)
    <2>1. job'[c].pc = "idle"
      BY <1>8, <1>1, EndsPc DEF CurlFails
    <2> QED
      BY <1>8, <2>1 DEF CurlFails, Quiet, Underway, Writes, At, files, histories
  <1>9. CASE UnlinkImage(c)
    <2>1. job'[c] = [job[c] EXCEPT !.pc = "truncate"]
      BY <1>9, <1>1, GoesKeeps DEF UnlinkImage, Pc
    <2>2. job'[c].pc = "truncate" /\ job'[c].file = job[c].file
      BY <1>1, <2>1 DEF Jobs
    <2> QED
      BY <1>1, <1>9, <2>2, OpOf DEF UnlinkImage, Quiet, Underway, Writes, At, Shape
  <1>10. CASE QemuImgFails(c)
    <2>1. job'[c].pc = "idle"
      BY <1>10, <1>1, EndsPc DEF QemuImgFails
    <2> QED
      BY <1>10, <2>1 DEF QemuImgFails, Quiet, Underway, Writes, At, files, histories
  <1>11. CASE TruncateCatalog(c)
    <2>1. job'[c] = [job[c] EXCEPT !.pc = "write"]
      BY <1>11, <1>1, GoesKeeps DEF TruncateCatalog, Pc
    <2>2. job'[c].pc = "write" /\ job'[c].file = job[c].file
      BY <1>1, <2>1 DEF Jobs
    <2> QED
      BY <1>1, <1>11, <2>2, OpOf DEF TruncateCatalog, Quiet, Underway, Writes, At, Shape
  <1>12. CASE WriteCatalog(c)
    <2>1. ASSUME NEW pc \in {"load"}, Goes(c, pc) PROVE job'[c].pc = pc
      <3>1. pc \in Pc
        BY DEF Pc
      <3>2. job'[c] = [job[c] EXCEPT !.pc = pc]
        BY <1>1, <2>1, <3>1, GoesKeeps
      <3> QED
        BY <1>1, <3>2 DEF Jobs
    <2>2. Fails(c) => job'[c].pc = "idle"
      BY <1>1, EndsPc
    <2>3. Fails(c) \/ Goes(c, "load")
      BY <1>12 DEF WriteCatalog
    <2>4. job'[c].pc \in {"load", "idle"}
      BY <2>1, <2>2, <2>3
    <2> QED
      BY <1>12, <2>4 DEF WriteCatalog, Quiet, Underway, Writes, At, files, histories
  <1>13. CASE DomainCreate(c)
    <2>1. ASSUME NEW pc \in {"start"}, Goes(c, pc) PROVE job'[c].pc = pc
      <3>1. pc \in Pc
        BY DEF Pc
      <3>2. job'[c] = [job[c] EXCEPT !.pc = pc]
        BY <1>1, <2>1, <3>1, GoesKeeps
      <3> QED
        BY <1>1, <3>2 DEF Jobs
    <2>2. Fails(c) => job'[c].pc = "idle"
      BY <1>1, EndsPc
    <2>3. job'[c].pc \in {"start"} \cup {"idle"}
      BY <1>13, <2>1, <2>2 DEF DomainCreate
    <2> QED
      BY <1>13, <2>3 DEF DomainCreate, Quiet, Underway, Writes, At, files, histories
  <1>14. CASE DomainStart(c)
    <2>1. job'[c].pc = "idle"
      BY <1>14, <1>1, EndsPc DEF DomainStart
    <2> QED
      BY <1>14, <2>1 DEF DomainStart, Quiet, Underway, Writes, At, files, histories
  <1>15. CASE DaemonFails(c)
    <2>1. job'[c].pc = "idle"
      BY <1>15, <1>1, EndsPc DEF DaemonFails
    <2> QED
      BY <1>15, <2>1 DEF DaemonFails, Quiet, Underway, Writes, At, files, histories
  <1>16. CASE Kill(c)
    <2>1. job'[c].pc = "idle"
      BY <1>16, <1>1, EndsPc DEF Kill
    <2> QED
      BY <1>16, <2>1 DEF Kill, Quiet, Loud, Underway, Writes, At
  <1> QED
    BY <1>2, <1>3, <1>4, <1>5, <1>6, <1>7, <1>8, <1>9, <1>10, <1>11, <1>12, <1>13, <1>14, <1>15, <1>16 DEF Works, Loud

LEMMA LoudMoves ==
    ASSUME TypeOK, ShapeOK, NEW c \in Callers, Loud(c)
    PROVE  /\ OwnJob(c) /\ job[c] \in Jobs /\ Shape(job[c])
           /\ job[c].id \in Ids /\ Busy(c) /\ Changing(c)
           /\ job[c].op \in Creates \cup {"fork", "rm"}
           /\ CreateDisk(c) => job'[c].pc = "manifest" /\ job[c].op # "rm"
           /\ Unlink(c) \/ UnlinkFails(c) => job'[c].pc = "unlink manifest" /\ job[c].op = "rm"
           /\ WriteManifest(c) \/ UnlinkManifest(c) =>
                job'[c].pc = "truncate" /\ job'[c].file = "registry"
           /\ WriteManifest(c) => job[c].op # "rm"
           /\ UnlinkManifest(c) => job[c].op = "rm"
           /\ TruncateRegistry(c) => job'[c].pc = "write" /\ job'[c].file = "registry"
           /\ WriteRegistry(c) \/ Kill(c) => job'[c].pc \in {"create", "idle"}
           /\ ~WriteRegistry(c) /\ ~Kill(c) => Same(c) /\ job'[c].reg = job[c].reg
  <1>1. /\ job[c] \in Jobs /\ Shape(job[c])
        /\ job[c].op \in Creates \cup {"fork", "rm"}
        /\ job[c].id \in Ids /\ Busy(c) /\ Changing(c)
    <2>1. Underway(c) \/ At(c, "disk") \/ At(c, "unlink")
      BY DEF Loud, Underway, CreateDisk, Unlink, UnlinkFails, WriteManifest, UnlinkManifest,
             TruncateRegistry, WriteRegistry
    <2> QED
      BY <2>1, UnderwayOn
  <1>2. job[c].op \in Ops /\ job[c].pc \in Pcs(job[c].op)
    BY <1>1 DEF Shape, Ops
  <1>3. CreateDisk(c) => /\ job'[c].pc = "manifest" /\ job[c].op # "rm"
                         /\ OwnJob(c) /\ Same(c) /\ job'[c].reg = job[c].reg
    <2>1. CreateDisk(c) => job[c].op # "rm" /\ Goes(c, "manifest")
      BY <1>2, OpOf DEF CreateDisk, At, Creates
    <2> QED
      BY <1>1, <2>1, GoesPc DEF Pc
  <1>4. Unlink(c) \/ UnlinkFails(c) =>
           /\ job'[c].pc = "unlink manifest" /\ job[c].op = "rm"
           /\ OwnJob(c) /\ Same(c) /\ job'[c].reg = job[c].reg
    <2>1. Unlink(c) \/ UnlinkFails(c) => job[c].op = "rm" /\ Goes(c, "unlink manifest")
      BY <1>2, OpOf DEF Unlink, UnlinkFails, At
    <2> QED
      BY <1>1, <2>1, GoesPc DEF Pc
  <1>5. WriteManifest(c) =>
           /\ job'[c].pc = "truncate" /\ job'[c].file = "registry" /\ job[c].op # "rm"
           /\ OwnJob(c) /\ Same(c) /\ job'[c].reg = job[c].reg
    <2>1. WriteManifest(c) => job[c].op # "rm" /\ Saves(c)
      BY <1>2, OpOf DEF WriteManifest, At, Creates
    <2> QED
      BY <1>1, <2>1, SavesPc
  <1>6. UnlinkManifest(c) =>
           /\ job'[c].pc = "truncate" /\ job'[c].file = "registry" /\ job[c].op = "rm"
           /\ OwnJob(c) /\ Same(c) /\ job'[c].reg = job[c].reg
    <2>1. UnlinkManifest(c) => job[c].op = "rm" /\ Saves(c)
      BY <1>2, OpOf DEF UnlinkManifest, At, Creates
    <2> QED
      BY <1>1, <2>1, SavesPc
  <1>7. TruncateRegistry(c) =>
           /\ job'[c].pc = "write" /\ job'[c].file = "registry"
           /\ OwnJob(c) /\ Same(c) /\ job'[c].reg = job[c].reg
    <2>1. TruncateRegistry(c) => job[c].file = "registry" /\ Goes(c, "write")
      BY DEF TruncateRegistry, Writes
    <2> QED
      BY <1>1, <2>1, GoesPc DEF Pc
  <1>8. WriteRegistry(c) \/ Kill(c) => OwnJob(c) /\ job'[c].pc \in {"create", "idle"}
    <2>1. WriteRegistry(c) \/ Kill(c) => Goes(c, "create") \/ Fails(c)
      BY DEF WriteRegistry, Reports, Fails, Kill
    <2> QED
      BY <1>1, <2>1, GoesPc, EndsPc DEF Pc
  <1> QED
    BY <1>1, <1>3, <1>4, <1>5, <1>6, <1>7, <1>8 DEF Loud

(* Two at the same instance: no step makes it so without a doubt.           *)
LEMMA Starts ==
    ASSUME NEW c \in Callers, Works(c)
    PROVE  /\ At(c, "load") => LoadRegistry(c) \/ Kill(c)
           /\ At(c, "create") => DomainCreate(c) \/ DaemonFails(c) \/ Kill(c)
           /\ At(c, "start") => DomainStart(c) \/ DaemonFails(c) \/ Kill(c)
  BY DEF Works, LoadRegistry, Resolve, Ensure, LoadCatalog, CurlStarts, CurlEnds, CurlFails,
       UnlinkImage, CreateDisk, QemuImgFails, WriteManifest, Unlink, UnlinkManifest, UnlinkFails,
       TruncateRegistry, WriteRegistry, TruncateCatalog, WriteCatalog, DomainCreate, DomainStart,
       DaemonFails, At, Writes

LEMMA ChangingStep ==
    ASSUME TypeOK, ShapeOK, NEW c \in Callers, Works(c), Busy(c)', Changing(c)'
    PROVE  /\ Same(c)
           /\ \/ Busy(c) /\ Changing(c)
              \/ Contended(c) => job[c].id \in doubt'
  <1>1. OwnJob(c)
    BY JobStep
  <1>2. Same(c) /\ job[c] \in Jobs
    BY <1>1 DEF OwnJob, Task, Same, Busy, Idle
  <1>3. Busy(c)
    BY <1>2 DEF Busy, Jobs
  <1>4. ASSUME ~Changing(c)
        PROVE  Contended(c) => job[c].id \in doubt'
    <2>1. At(c, "load") \/ At(c, "create") \/ At(c, "start")
      BY <1>2, <1>4 DEF Changing, Same, At
    <2>2. ~Fails(c)
      BY <1>2, EndsPc DEF Busy
    <2>3. CASE LoadRegistry(c)
      BY <2>2, <2>3 DEF LoadRegistry, ReadsRegistry, Refuses
    <2>4. CASE DomainCreate(c)
      <3>1. Goes(c, "start")
        BY <2>2, <2>4 DEF DomainCreate
      <3> QED
        BY <1>2, <3>1, GoesPc DEF Pc, Changing
    <2> QED
      BY <2>1, <2>2, <2>3, <2>4, Starts DEF DomainStart, DaemonFails, Kill
  <1> QED
    BY <1>2, <1>3, <1>4

LEMMA OneChangerStep == TypeOK /\ ShapeOK /\ OneChanger /\ [Next]_vars => OneChanger'
  <1> SUFFICES ASSUME TypeOK, ShapeOK, OneChanger, [Next]_vars,
                      NEW c \in Callers, NEW d \in Callers \ {c},
                      Busy(c)', Changing(c)', Busy(d)', Changing(d)', job'[c].id = job'[d].id
               PROVE  job'[c].id \in doubt'
    BY DEF OneChanger
  <1>1. ASSUME NEW e \in Callers, Works(e) PROVE job'[c].id \in doubt'
    <2>1. OwnJob(e)
      BY <1>1, JobStep
    <2>2. CASE e # c /\ e # d
      <3>1. /\ Busy(c) /\ Changing(c) /\ Busy(d) /\ Changing(d)
            /\ job'[c] = job[c] /\ job'[d] = job[d]
        BY <2>1, <2>2, OthersKeep
      <3>2. job[c].id \in doubt
        BY <3>1 DEF OneChanger
      <3> QED
        BY <1>1, <2>2, <3>1, <3>2, DoubtStep DEF Contended
    <2>3. ASSUME NEW x \in Callers, NEW y \in Callers \ {x}, e = x,
                 Busy(x)', Changing(x)', Busy(y)', Changing(y)', job'[x].id = job'[y].id
          PROVE  job'[x].id \in doubt'
      <3>1. Busy(y) /\ Changing(y) /\ job'[y] = job[y]
        BY <2>1, <2>3, OthersKeep
      <3>2. job'[x].id = job[x].id
        BY <1>1, <2>3, ChangingStep DEF Same
      <3>3. Contended(x)
        BY <2>3, <3>1, <3>2 DEF Contended
      <3>4. CASE Busy(x) /\ Changing(x)
        <4>1. job[x].id \in doubt
          BY <2>3, <3>1, <3>2, <3>4 DEF OneChanger
        <4> QED
          BY <1>1, <2>3, <3>2, <3>3, <4>1, DoubtStep
      <3> QED
        BY <1>1, <2>3, <3>2, <3>3, <3>4, ChangingStep
    <2> QED
      BY <2>2, <2>3
  <1>2. ASSUME NEW e \in Callers, NEW op, NEW id, NEW from, First(op, id, from), Begin(e, op, id, from)
        PROVE  job'[c].id \in doubt'
    <2>1. /\ \A x \in Callers \ {e} : job'[x] = job[x]
          /\ job'[e].op = op /\ job'[e].pc = FirstStep(op)
      <3>1. op \in Ops /\ id \in Ids \cup Images /\ from \in Ids \cup Images
        BY <1>2 DEF First
      <3> QED
        BY <1>2, <3>1, BeginStep
    <2>2. ~Changing(e)'
      BY <1>2, <2>1 DEF Changing, First, FirstStep, Creates, Ops
    <2> QED
      BY <1>2, <2>1, <2>2 DEF OneChanger, Busy, Changing, Begin, histories
  <1>3. ASSUME NEW id \in Ids, GuestEnds(id) PROVE job'[c].id \in doubt'
    BY <1>3 DEF GuestEnds, OneChanger, Busy, Changing, histories
  <1>4. CASE UNCHANGED vars
    BY <1>4 DEF vars, OneChanger, Busy, Changing
  <1> QED
    BY <1>1, <1>2, <1>3, <1>4, StepCases

(* Who saves, and what about.                                               *)
LEMMA RegistryFinds ==
    ASSUME TypeOK, ShapeOK, NEW c \in Callers, Underway(c)
    PROVE  /\ \A id : id # job[c].id => Entry(Registry(c), id) = Entry(job[c].reg, id)
           /\ Find(Registry(c), job[c].id) <=> job[c].op # "rm"
  <1>1. CASE job[c].op = "rm"
    BY <1>1 DEF Registry, Remove, Entry, Find
  <1>2. CASE job[c].op # "rm"
    <2> DEFINE e == NewEntry(c)
    <2>1. e.id = job[c].id
      BY DEF NewEntry
    <2>2. Registry(c) = Remove(job[c].reg, e.id) \cup {e}
      BY <1>2 DEF Registry, Upsert
    <2> HIDE DEF e
    <2>3. e \in Entry(Registry(c), job[c].id)
      BY <2>1, <2>2 DEF Entry
    <2>4. ASSUME NEW id, id # job[c].id
          PROVE  Entry(Registry(c), id) = Entry(job[c].reg, id)
      BY <2>1, <2>2, <2>4 DEF Entry, Remove
    <2> QED
      BY <1>2, <2>3, <2>4 DEF Find
  <1> QED
    BY <1>1, <1>2

LEMMA SavingStep ==
    ASSUME TypeOK, ShapeOK, NEW c \in Callers, Works(c), Saving(c)'
    PROVE  /\ TruncateRegistry(c) /\ Same(c) /\ Underway(c)
           /\ job'[c].reg = job[c].reg /\ Registry(c)' = Registry(c)
  <1>1. Underway(c)'
    BY DEF Saving, Underway
  <1>2. Loud(c)
    BY <1>1, QuietOrLoud DEF Quiet
  <1>3. job'[c].pc = "write"
    BY DEF Saving, Writes, At
  <1>4. TruncateRegistry(c) /\ Same(c) /\ job'[c].reg = job[c].reg
    BY <1>2, <1>3, LoudMoves DEF Loud
  <1> QED
    BY <1>4 DEF Same, Registry, NewEntry, TruncateRegistry, Underway

LEMMA AgreeStep == TypeOK /\ ShapeOK /\ SaversAgree /\ [Next]_vars => SaversAgree'
  <1> SUFFICES ASSUME TypeOK, ShapeOK, SaversAgree, [Next]_vars,
                      NEW c \in Callers, NEW d \in Callers \ {c}, Saving(c)', Saving(d)'
               PROVE  Differ(Registry(c)', Registry(d)') \subseteq doubt'
    BY DEF SaversAgree, Differ
  <1>1. ASSUME NEW e \in Callers, Works(e)
        PROVE  Differ(Registry(c)', Registry(d)') \subseteq doubt'
    <2>1. OwnJob(e)
      BY <1>1, JobStep
    <2>2. CASE e # c /\ e # d
      <3>1. /\ Saving(c) /\ Saving(d)
            /\ Registry(c)' = Registry(c) /\ Registry(d)' = Registry(d)
        BY <2>1, <2>2, OthersKeep
      <3>2. Differ(Registry(c), Registry(d)) \subseteq doubt
        BY <3>1 DEF SaversAgree
      <3>3. c \in Writers(e) /\ d \in Writers(e)
        BY <2>2, <3>1 DEF Writers, Saving
      <3>4. ASSUME NEW id \in Differ(Registry(c), Registry(d)) PROVE id \in Stales(e)
        BY <3>3, <3>4 DEF Differ, Stales
      <3> QED
        BY <1>1, <3>1, <3>2, <3>4, DoubtStep
    <2>3. ASSUME NEW x \in Callers, NEW y \in Callers \ {x}, e = x, Saving(x)', Saving(y)'
          PROVE  Differ(Registry(x)', Registry(y)') \subseteq doubt'
      <3>1. TruncateRegistry(x) /\ Registry(x)' = Registry(x)
        BY <1>1, <2>3, SavingStep
      <3>2. y \in Writers(x) /\ Registry(y)' = Registry(y)
        BY <2>1, <2>3, OthersKeep DEF Writers, Saving
      <3>3. Differ(Registry(x), Registry(y)) \subseteq doubt'
        BY <3>1, <3>2 DEF TruncateRegistry
      <3> QED
        BY <3>1, <3>2, <3>3
    <2>4. Differ(Registry(c)', Registry(d)') = Differ(Registry(d)', Registry(c)')
      BY DEF Differ
    <2> QED
      BY <2>2, <2>3, <2>4
  <1>2. ASSUME NEW e \in Callers, NEW op, NEW id, NEW from, First(op, id, from), Begin(e, op, id, from)
        PROVE  Differ(Registry(c)', Registry(d)') \subseteq doubt'
    <2>1. \A x \in Callers \ {e} : job'[x] = job[x]
      <3>1. op \in Ops /\ id \in Ids \cup Images /\ from \in Ids \cup Images
        BY <1>2 DEF First
      <3> QED
        BY <1>2, <3>1, BeginStep
    <2>2. ~Saving(e)'
      <3>1. job'[e].file = "none"
        <4>1. op \in Ops /\ id \in Ids \cup Images /\ from \in Ids \cup Images
          BY <1>2 DEF First
        <4> QED
          BY <1>2, <4>1, BeginStep
      <3> QED
        BY <3>1 DEF Saving, Writes
    <2> QED
      BY <1>2, <2>1, <2>2 DEF SaversAgree, Saving, Writes, At, Registry, NewEntry, Begin, histories
  <1>3. ASSUME NEW id \in Ids, GuestEnds(id)
        PROVE  Differ(Registry(c)', Registry(d)') \subseteq doubt'
    BY <1>3 DEF GuestEnds, SaversAgree, Saving, Writes, At, Registry, NewEntry, histories
  <1>4. CASE UNCHANGED vars
    BY <1>4 DEF vars, SaversAgree, Saving, Writes, At, Registry, NewEntry
  <1> QED
    BY <1>1, <1>2, <1>3, <1>4, StepCases

(* Steps that none of the commands takes for its instance.                  *)
Aside == /\ UNCHANGED <<registry, disk, manifest, reported, doubt>>
         /\ \A c \in Callers : \/ ~Underway(c) /\ ~Underway(c)'
                               \/ job'[c] = job[c]

LEMMA AsideStep ==
    ASSUME TypeOK, [Next]_vars, \A c \in Callers : ~Works(c)
    PROVE  Aside
  <1>1. ASSUME NEW e \in Callers, NEW op, NEW id, NEW from, First(op, id, from), Begin(e, op, id, from)
        PROVE  Aside
    <2>1. /\ \A x \in Callers \ {e} : job'[x] = job[x]
          /\ job[e].pc = "idle" /\ job'[e].file = "none"
          /\ job'[e].pc = FirstStep(op)
      <3>1. op \in Ops /\ id \in Ids \cup Images /\ from \in Ids \cup Images
        BY <1>1 DEF First
      <3> QED
        BY <1>1, <3>1, BeginStep
    <2>2. FirstStep(op) \notin {"manifest", "unlink manifest"}
      BY DEF FirstStep
    <2>3. ~Underway(e) /\ ~Underway(e)'
      BY <2>1, <2>2 DEF Underway, At, Writes
    <2> QED
      BY <1>1, <2>1, <2>3 DEF Aside, Begin, files, histories
  <1>2. ASSUME NEW id \in Ids, GuestEnds(id) PROVE Aside
    BY <1>2 DEF GuestEnds, Aside, files, histories
  <1>3. CASE UNCHANGED vars
    BY <1>3 DEF vars, Aside
  <1> QED
    BY <1>1, <1>2, <1>3, StepCases

LEMMA MidwayStep ==
    TypeOK /\ ShapeOK /\ OneChanger /\ Midway /\ [Next]_vars => Midway'
  <1> SUFFICES ASSUME TypeOK, ShapeOK, OneChanger, Midway, [Next]_vars,
                      NEW d \in Callers, Underway(d)', job'[d].id \notin doubt'
               PROVE  /\ disk'[job'[d].id].stamp # None <=> job'[d].op # "rm"
                      /\ At(d, "truncate")' \/ At(d, "write")'
                           => (manifest'[job'[d].id] <=> job'[d].op # "rm")
    BY DEF Midway
  <1> DEFINE id == job'[d].id
  <1>1. ASSUME NEW c \in Callers, Works(c), c # d
        PROVE  /\ disk'[id].stamp # None <=> job'[d].op # "rm"
               /\ At(d, "truncate")' \/ At(d, "write")' => (manifest'[id] <=> job'[d].op # "rm")
    <2>1. job'[d] = job[d] /\ Underway(d) /\ OwnJob(c)
      BY <1>1, JobStep, OthersKeep
    <2>2. Busy(d) /\ Changing(d)
      BY <2>1, UnderwayOn
    <2>3. id \notin doubt
      BY <1>1, <2>1, <2>2, DoubtStep DEF Contended
    <2>4. /\ disk[id].stamp # None <=> job[d].op # "rm"
          /\ At(d, "truncate") \/ At(d, "write") => (manifest[id] <=> job[d].op # "rm")
      BY <2>1, <2>3 DEF Midway
    <2>5. disk'[id] = disk[id] /\ manifest'[id] = manifest[id]
      <3>1. CASE Quiet(c)
        BY <3>1 DEF Quiet
      <3>2. CASE Loud(c)
        <4>1. Busy(c) /\ Changing(c) /\ job[c].id \in Ids
          BY <3>2, LoudMoves
        <4>2. job[c].id # id
          BY <1>1, <2>1, <2>2, <2>3, <4>1 DEF OneChanger
        <4>3. disk' = disk \/ \E r : disk' = [disk EXCEPT ![job[c].id] = r]
          BY <3>2 DEF Loud, CreateDisk, Unlink, UnlinkFails, WriteManifest, UnlinkManifest,
                      TruncateRegistry, WriteRegistry, Kill, files
        <4>4. manifest' = manifest \/ \E b : manifest' = [manifest EXCEPT ![job[c].id] = b]
          BY <3>2 DEF Loud, CreateDisk, Unlink, UnlinkFails, WriteManifest, UnlinkManifest,
                      TruncateRegistry, WriteRegistry, Kill, files
        <4>5. id \in Ids
          BY <2>1, UnderwayOn
        <4> QED
          BY <4>2, <4>3, <4>4, <4>5 DEF TypeOK
      <3> QED
        BY <1>1, <3>1, <3>2, QuietOrLoud
    <2> QED
      BY <2>1, <2>4, <2>5 DEF At
  <1>2. CASE Works(d)
    <2>1. Loud(d)
      BY <1>2, QuietOrLoud DEF Quiet
    <2>2. ~WriteRegistry(d) /\ ~Kill(d)
      BY <2>1, LoudMoves DEF Underway, Writes, At
    <2>3. /\ Same(d) /\ job[d].id \in Ids /\ job[d] \in Jobs
          /\ id = job[d].id /\ job'[d].op = job[d].op
      BY <2>1, <2>2, LoudMoves DEF Same
    <2>4. CASE CreateDisk(d)
      <3>1. job'[d].pc = "manifest" /\ job[d].op # "rm"
        BY <2>1, <2>4, LoudMoves
      <3>2. disk'[id].stamp = job[d].stamp
        BY <2>3, <2>4 DEF CreateDisk, TypeOK
      <3>3. job[d].stamp # None
        BY <2>3 DEF Jobs
      <3> QED
        BY <2>3, <3>1, <3>2, <3>3 DEF At
    <2>5. CASE Unlink(d)
      <3>1. job'[d].pc = "unlink manifest" /\ job[d].op = "rm"
        BY <2>1, <2>5, LoudMoves
      <3>2. disk'[id].stamp = None
        BY <2>3, <2>5 DEF Unlink, TypeOK, NoDisk
      <3> QED
        BY <2>3, <3>1, <3>2 DEF At
    <2>6. CASE UnlinkFails(d)
      BY <2>3, <2>6 DEF UnlinkFails
    <2>7. CASE WriteManifest(d)
      <3>1. disk' = disk /\ Underway(d) /\ id \notin doubt
        BY <2>7 DEF WriteManifest, Underway
      <3>2. disk[id].stamp # None <=> job[d].op # "rm"
        BY <2>3, <3>1 DEF Midway
      <3>3. manifest'[id] = TRUE /\ job[d].op # "rm"
        BY <2>1, <2>3, <2>7, LoudMoves DEF WriteManifest, TypeOK
      <3> QED
        BY <2>3, <3>1, <3>2, <3>3
    <2>8. CASE UnlinkManifest(d)
      <3>1. disk' = disk /\ Underway(d) /\ id \notin doubt
        BY <2>8 DEF UnlinkManifest, Underway
      <3>2. disk[id].stamp # None <=> job[d].op # "rm"
        BY <2>3, <3>1 DEF Midway
      <3>3. manifest'[id] = FALSE /\ job[d].op = "rm"
        BY <2>1, <2>3, <2>8, LoudMoves DEF UnlinkManifest, TypeOK
      <3> QED
        BY <2>3, <3>1, <3>2, <3>3
    <2>9. CASE TruncateRegistry(d)
      <3>1. /\ disk' = disk /\ manifest' = manifest /\ Underway(d)
            /\ At(d, "truncate") /\ id \notin doubt
        BY <2>9 DEF TruncateRegistry, Underway, Writes
      <3> QED
        BY <2>3, <3>1 DEF Midway
    <2> QED
      BY <2>1, <2>2, <2>4, <2>5, <2>6, <2>7, <2>8, <2>9 DEF Loud
  <1>3. CASE \A c \in Callers : ~Works(c)
    <2>1. Aside
      BY <1>3, AsideStep
    <2> QED
      BY <2>1 DEF Aside, Midway, Underway, Writes, At
  <1> QED
    BY <1>1, <1>2, <1>3

LEMMA SettledStep ==
    /\ TypeOK /\ ShapeOK /\ OneChanger /\ SaversAgree /\ Settled /\ Midway /\ [Next]_vars
    => Settled'
  <1> SUFFICES ASSUME TypeOK, ShapeOK, OneChanger, SaversAgree, Settled, Midway, [Next]_vars,
                      NEW id \in Ids, id \notin doubt',
                      \A d \in Callers : Underway(d)' => job'[d].id # id
               PROVE  /\ Known(id)'
                      /\ reported'[id] = "created" <=> disk'[id].stamp # None
                      /\ reported'[id] = "created" <=> manifest'[id]
    BY DEF Settled
  <1> DEFINE Goal == /\ Known(id)'
                     /\ reported'[id] = "created" <=> disk'[id].stamp # None
                     /\ reported'[id] = "created" <=> manifest'[id]
  <1>1. ASSUME NEW c \in Callers, Works(c) PROVE Goal
    <2>1. /\ OwnJob(c)
          /\ \A d \in Callers \ {c} :
               /\ job'[d] = job[d] /\ Registry(d)' = Registry(d)
               /\ Underway(d)' <=> Underway(d)
               /\ Saving(d)' <=> Saving(d)
      BY <1>1, JobStep, OthersKeep
    <2>a. \A d \in Callers \ {c} : Underway(d) => job[d].id # id
      BY <2>1
    <2>2. CASE Quiet(c)
      <3>1. id \notin doubt /\ ~Saving(c) /\ ~Saving(c)'
        BY <2>2 DEF Quiet, Underway, Saving
      <3>2. /\ Known(id)
            /\ reported[id] = "created" <=> disk[id].stamp # None
            /\ reported[id] = "created" <=> manifest[id]
        BY <2>2, <2>a, <3>1 DEF Quiet, Settled
      <3>3. BeingWritten("registry")' <=> BeingWritten("registry")
        BY <2>1, <3>1 DEF BeingWritten, Saving
      <3>4. Known(id)'
        BY <2>1, <2>2, <3>1, <3>2, <3>3 DEF Known, Quiet
      <3> QED
        BY <2>2, <3>2, <3>4 DEF Quiet
    <2>3. CASE Loud(c)
      <3>0. /\ job[c].id \in Ids /\ Busy(c) /\ Changing(c) /\ job[c] \in Jobs
            /\ job[c].op \in Creates \cup {"fork", "rm"}
        BY <2>3, LoudMoves
      <3>1. CASE ~WriteRegistry(c) /\ ~Kill(c)
        <4>1. job[c].id # id
          <5>1. Underway(c)' /\ Same(c)
            BY <2>3, <3>1, LoudMoves DEF Loud, Underway, At, Writes
          <5> QED
            BY <5>1 DEF Same
        <4>2. id \notin doubt
          BY <1>1, <4>1, DoubtStep
        <4>3. /\ Known(id)
              /\ reported[id] = "created" <=> disk[id].stamp # None
              /\ reported[id] = "created" <=> manifest[id]
          BY <2>a, <4>1, <4>2 DEF Settled
        <4>4. /\ disk' = disk \/ \E r : disk' = [disk EXCEPT ![job[c].id] = r]
              /\ manifest' = manifest \/ \E b : manifest' = [manifest EXCEPT ![job[c].id] = b]
              /\ reported' = reported
          BY <2>3, <3>1 DEF Loud, CreateDisk, Unlink, UnlinkFails, WriteManifest, UnlinkManifest,
                      TruncateRegistry, files
        <4>5. disk'[id] = disk[id] /\ manifest'[id] = manifest[id] /\ reported'[id] = reported[id]
          BY <4>1, <4>4 DEF TypeOK
        <4>6. CASE TruncateRegistry(c)
          <5>1. id \notin Stales(c) /\ ~job[c].blind /\ Saving(c)' /\ Registry(c)' = Registry(c)
            <6>1. id \notin Stales(c)
              BY <4>6 DEF TruncateRegistry
            <6>2. job'[c].pc = "write" /\ job'[c].file = "registry"
              BY <2>3, <4>6, LoudMoves
            <6>3. Saving(c)'
              BY <6>2 DEF Saving, Writes, At
            <6>4. Registry(c)' = Registry(c)
              BY <1>1, <6>3, SavingStep
            <6> QED
              BY <6>1, <6>3, <6>4 DEF Stales
          <5>2. reported[id] = "created" <=> Find(job[c].reg, id)
            <6>1. CASE Writers(c) = {}
              <7>1. ~BeingWritten("registry")
                BY <4>6, <6>1 DEF BeingWritten, Writers, TruncateRegistry, Writes, At
              <7>2. Entry(job[c].reg, id) = Entry(registry.list, id)
                BY <5>1, <6>1 DEF Stales, Differ
              <7> QED
                BY <4>3, <7>1, <7>2 DEF Known, Find
            <6>2. ASSUME NEW d \in Writers(c)
                  PROVE  reported[id] = "created" <=> Find(job[c].reg, id)
              <7>1. Entry(job[c].reg, id) = Entry(Registry(d), id)
                BY <5>1, <6>2 DEF Stales, Differ
              <7>2. Saving(d) /\ d \in Callers
                BY DEF Writers, Saving
              <7> QED
                BY <4>3, <7>1, <7>2 DEF Known, Find
            <6> QED
              BY <6>1, <6>2
          <5>3. Underway(c)
            BY <4>6 DEF TruncateRegistry, Underway
          <5>4. reported[id] = "created" <=> Find(Registry(c), id)
            BY <4>1, <5>2, <5>3, RegistryFinds DEF Find
          <5>5. BeingWritten("registry")'
            BY <5>1 DEF Saving, BeingWritten
          <5>6. Known(id)'
            BY <2>1, <4>3, <4>5, <5>1, <5>4, <5>5 DEF Known
          <5> QED
            BY <4>3, <4>5, <5>6
        <4>7. CASE ~TruncateRegistry(c)
          <5>1. registry' = registry /\ ~Saving(c)
            BY <2>3, <3>1, <4>7 DEF Loud, CreateDisk, Unlink, UnlinkFails, WriteManifest,
               UnlinkManifest, files, Saving, Writes, At
          <5>2. ~Saving(c)'
            BY <1>1, <4>7, SavingStep
          <5>3. BeingWritten("registry")' <=> BeingWritten("registry")
            BY <2>1, <5>1, <5>2 DEF BeingWritten, Saving
          <5>4. Known(id)'
            BY <2>1, <4>3, <4>5, <5>1, <5>2, <5>3 DEF Known
          <5> QED
            BY <4>3, <4>5, <5>4
        <4> QED
          BY <4>6, <4>7
      <3>2. CASE WriteRegistry(c)
        <4>1. /\ id \notin doubt /\ Saving(c) /\ Underway(c) /\ At(c, "write")
              /\ disk' = disk /\ manifest' = manifest
              /\ id \notin Differ(registry'.list, Registry(c))
          BY <3>2 DEF WriteRegistry, Saving, Underway, Writes
        <4>2. Find(registry'.list, id) <=> Find(Registry(c), id)
          BY <4>1 DEF Differ, Find
        <4>3. \A d \in Callers : Saving(d) => (Find(Registry(d), id) <=> Find(Registry(c), id))
          BY <4>1 DEF SaversAgree, Differ, Find
        <4>4. ~Saving(c)'
          <5>1. job'[c].pc \in {"create", "idle"}
            BY <2>3, <3>2, LoudMoves
          <5> QED
            BY <5>1 DEF Saving, Writes, At
        <4>5. CASE job[c].id # id
          <5>1. reported'[id] = reported[id]
            BY <3>0, <3>2, <4>5 DEF WriteRegistry, Reports, TypeOK
          <5>2. /\ Known(id)
                /\ reported[id] = "created" <=> disk[id].stamp # None
                /\ reported[id] = "created" <=> manifest[id]
            BY <2>a, <4>1, <4>5 DEF Settled
          <5>3. Known(id)'
            BY <2>1, <4>1, <4>2, <4>4, <5>1, <5>2 DEF Known
          <5> QED
            BY <4>1, <5>1, <5>2, <5>3
        <4>6. CASE job[c].id = id
          <5>1. reported'[id] = "created" <=> job[c].op # "rm"
            BY <3>0, <3>2, <4>6 DEF WriteRegistry, Reports, TypeOK, Creates
          <5>2. /\ disk[id].stamp # None <=> job[c].op # "rm"
                /\ manifest[id] <=> job[c].op # "rm"
            BY <4>1, <4>6 DEF Midway
          <5>3. Find(Registry(c), id) <=> job[c].op # "rm"
            BY <4>1, <4>6, RegistryFinds
          <5>4. Known(id)'
            BY <2>1, <4>2, <4>3, <4>4, <5>1, <5>3 DEF Known
          <5> QED
            BY <4>1, <5>1, <5>2, <5>4
        <4> QED
          BY <4>5, <4>6
      <3>3. CASE Kill(c) /\ ~WriteRegistry(c)
        <4>1. job[c].id # id /\ id \notin doubt
          BY <3>0, <3>3 DEF Kill
        <4>2. /\ Known(id)
              /\ reported[id] = "created" <=> disk[id].stamp # None
              /\ reported[id] = "created" <=> manifest[id]
          BY <2>a, <4>1 DEF Settled
        <4>3. job'[c].pc \in {"create", "idle"}
          BY <2>3, <3>3, LoudMoves
        <4>4. ~Saving(c)'
          BY <4>3 DEF Saving, Writes, At
        <4>5. disk' = disk /\ manifest' = manifest /\ reported' = reported
          BY <3>3 DEF Kill
        <4>6. CASE Saving(c)
          <5>1. id \notin Differ(registry'.list, Registry(c))
            BY <3>3, <4>6 DEF Kill, Saving, Writes
          <5>2. Find(registry'.list, id) <=> Find(Registry(c), id)
            BY <5>1 DEF Differ, Find
          <5>3. Known(id)'
            BY <2>1, <4>2, <4>4, <4>5, <4>6, <5>2 DEF Known
          <5> QED
            BY <4>2, <4>5, <5>3
        <4>7. CASE ~Saving(c)
          <5>1. registry' = registry
            BY <3>3, <4>7 DEF Kill, Saving
          <5>2. BeingWritten("registry")' <=> BeingWritten("registry")
            BY <2>1, <4>4, <4>7 DEF BeingWritten, Saving
          <5>3. Known(id)'
            BY <2>1, <4>2, <4>4, <4>5, <5>1, <5>2 DEF Known
          <5> QED
            BY <4>2, <4>5, <5>3
        <4> QED
          BY <4>6, <4>7
      <3> QED
        BY <3>1, <3>2, <3>3
    <2> QED
      BY <1>1, <2>2, <2>3, QuietOrLoud
  <1>2. CASE \A c \in Callers : ~Works(c)
    <2>1. /\ UNCHANGED <<registry, disk, manifest, reported, doubt>>
          /\ \A d \in Callers : \/ ~Underway(d) /\ ~Underway(d)'
                                \/ job'[d] = job[d]
      BY <1>2, AsideStep DEF Aside
    <2>2. \A d \in Callers : Underway(d) => job[d].id # id
      BY <2>1 DEF Underway, Writes, At
    <2>3. /\ Known(id)
          /\ reported[id] = "created" <=> disk[id].stamp # None
          /\ reported[id] = "created" <=> manifest[id]
      BY <2>1, <2>2 DEF Settled
    <2>4. \A d \in Callers : /\ Saving(d)' <=> Saving(d)
                             /\ Saving(d) => Registry(d)' = Registry(d)
      BY <2>1 DEF Saving, Underway, Writes, At, Registry, NewEntry
    <2>5. Known(id)'
      <3>1. BeingWritten("registry")' <=> BeingWritten("registry")
        BY <2>4 DEF BeingWritten, Saving
      <3> QED
        BY <2>1, <2>3, <2>4, <3>1 DEF Known
    <2> QED
      BY <2>1, <2>3, <2>5
  <1> QED
    BY <1>1, <1>2

(* Where a step leaves a command that goes on.                              *)
Went(c) == /\ Same(c)
           /\ job'[c].names = job[c].names \/ job'[c].names = Listed
           /\ \/ LoadRegistry(c) /\ \/ job'[c].pc = "resolve"
                                    \/ job'[c].pc = "unlink" /\ job[c].op = "rm"
                                    \/ job'[c].pc = "disk" /\ job[c].op = "fork"
              \/ Resolve(c) /\ \/ job'[c].pc = "disk" /\ job[c].from \in Listed
                               \/ job'[c].pc = "ensure"
              \/ Ensure(c) /\ job'[c].pc \in {"curl", "load"}
              \/ LoadCatalog(c) /\ \/ job'[c].pc = "truncate" /\ job[c].op = "pull"
                                   \/ job'[c].pc = "unlink image" /\ job[c].from \in Listed
              \/ CurlStarts(c) /\ job'[c].pc = "curling"
              \/ CurlEnds(c) /\ job'[c].pc \in {"load catalog", "truncate"}
              \/ UnlinkImage(c) /\ job'[c].pc = "truncate"
              \/ (TruncateCatalog(c) \/ TruncateRegistry(c)) /\ job'[c].pc = "write"
              \/ WriteCatalog(c) /\ job'[c].pc = "load"
              \/ CreateDisk(c) /\ job'[c].pc = "manifest"
              \/ (Unlink(c) \/ UnlinkFails(c)) /\ job'[c].pc = "unlink manifest"
              \/ (WriteManifest(c) \/ UnlinkManifest(c)) /\ job'[c].pc = "truncate"
              \/ WriteRegistry(c) /\ job'[c].pc = "create"
              \/ DomainCreate(c) /\ job'[c].pc = "start"

LEMMA Goings ==
    ASSUME TypeOK, ShapeOK, NEW c \in Callers, Works(c)
    PROVE  /\ job[c] \in Jobs /\ Shape(job[c]) /\ OwnJob(c)
           /\ job[c].op \in Ops /\ job[c].pc \in Pcs(job[c].op)
           /\ job'[c].pc = "idle" \/ Went(c)
  <1>1. OwnJob(c) /\ job[c] \in Jobs
    BY JobStep DEF OwnJob
  <1>2. Shape(job[c]) /\ job[c].op \in Ops /\ job[c].pc \in Pcs(job[c].op)
    <2>1. job[c].pc # "idle"
      BY <1>1 DEF Jobs
    <2> QED
      BY <2>1, Where
  <1>3. ASSUME ~Fails(c) PROVE Went(c)
    <2>a. ASSUME NEW pc \in Pc, Goes(c, pc)
          PROVE  job'[c].pc = pc /\ Same(c) /\ job'[c].names = job[c].names
      BY <1>1, <2>a, GoesPc
    <2>b. Saves(c) => job'[c].pc = "truncate" /\ Same(c) /\ job'[c].names = job[c].names
      BY <1>1, SavesPc
    <2>1. CASE LoadRegistry(c)
      <3>1. ASSUME NEW pc \in {"resolve", "disk", "unlink"}, ReadsRegistry(c, pc)
            PROVE  job'[c].pc = pc /\ Same(c) /\ job'[c].names = job[c].names
        <4>1. pc \in Pc
          BY DEF Pc
        <4>2. job'[c] = [job[c] EXCEPT !.pc = pc, !.reg = registry.list,
                                       !.blind = BeingWritten("registry")]
          BY <1>1, <3>1, <4>1, ReadsKeeps
        <4> QED
          BY <1>1, <4>2 DEF Jobs, Same
      <3> QED
        BY <1>3, <2>1, <3>1 DEF LoadRegistry, Refuses, Went
    <2>2. CASE Resolve(c)
      <3>1. \/ Goes(c, "disk") /\ job[c].from \in Listed
            \/ Goes(c, "ensure")
        BY <1>3, <2>2 DEF Resolve
      <3> QED
        BY <2>2, <2>a, <3>1 DEF Went, Pc
    <2>3. CASE Ensure(c)
      <3>1. job'[c] = [job[c] EXCEPT !.pc = IF Missing(c) THEN "curl" ELSE "load",
                                     !.retry = TRUE, !.names = Listed]
        BY <1>1, <2>3, EnsureKeeps
      <3>2. job'[c].pc \in {"curl", "load"} /\ Same(c) /\ job'[c].names = Listed
        BY <1>1, <3>1 DEF Jobs, Same
      <3> QED
        BY <2>3, <3>2 DEF Went
    <2>4. CASE LoadCatalog(c)
      <3>1. job'[c] = [job[c] EXCEPT
                         !.pc = IF job[c].op = "pull" THEN "truncate" ELSE "unlink image",
                         !.file = "catalog", !.names = Listed]
        BY <1>3, <2>4 DEF LoadCatalog, Becomes, TypeOK
      <3>2. /\ job'[c].pc = (IF job[c].op = "pull" THEN "truncate" ELSE "unlink image")
            /\ Same(c) /\ job'[c].names = Listed
        BY <1>1, <3>1 DEF Jobs, Same
      <3>3. job[c].op = "pull" \/ job[c].from \in Listed
        BY <1>2, <1>3, <2>4, OpOf DEF LoadCatalog, At
      <3> QED
        BY <2>4, <3>2, <3>3 DEF Went
    <2>5. CASE CurlEnds(c)
      <3>1. job'[c] = [job[c] EXCEPT !.file = "catalog",
                         !.pc = IF job[c].op = "pull" THEN "load catalog" ELSE "truncate"]
        BY <1>1, <2>5, FetchedKeeps DEF CurlEnds
      <3>2. job'[c].pc \in {"load catalog", "truncate"} /\ Same(c) /\ job'[c].names = job[c].names
        BY <1>1, <3>1 DEF Jobs, Same
      <3> QED
        BY <2>5, <3>2 DEF Went
    <2>6. CASE CurlStarts(c)
      BY <2>6, <2>a DEF CurlStarts, Went, Pc
    <2>7. CASE UnlinkImage(c)
      BY <2>7, <2>a DEF UnlinkImage, Went, Pc
    <2>8. CASE CreateDisk(c)
      BY <2>8, <2>a DEF CreateDisk, Went, Pc
    <2>9. CASE WriteManifest(c) \/ UnlinkManifest(c)
      BY <2>9, <2>b DEF WriteManifest, UnlinkManifest, Went
    <2>10. CASE Unlink(c) \/ UnlinkFails(c)
      BY <2>10, <2>a DEF Unlink, UnlinkFails, Went, Pc
    <2>11. CASE TruncateRegistry(c) \/ TruncateCatalog(c)
      BY <2>11, <2>a DEF TruncateRegistry, TruncateCatalog, Went, Pc
    <2>12. CASE WriteRegistry(c)
      BY <1>3, <2>12, <2>a DEF WriteRegistry, Reports, Fails, Went, Pc
    <2>13. CASE WriteCatalog(c)
      <3>1. Goes(c, "load")
        BY <1>3, <2>13 DEF WriteCatalog
      <3> QED
        BY <2>13, <2>a, <3>1 DEF Went, Pc
    <2>14. CASE DomainCreate(c)
      <3>1. Goes(c, "start")
        BY <1>3, <2>14 DEF DomainCreate
      <3> QED
        BY <2>14, <2>a, <3>1 DEF Went, Pc
    <2> QED
      BY <1>3, <2>1, <2>2, <2>3, <2>4, <2>5, <2>6, <2>7, <2>8, <2>9, <2>10, <2>11, <2>12,
         <2>13, <2>14 DEF Works, CurlFails, QemuImgFails, DomainStart, DaemonFails, Kill
  <1>4. Fails(c) => job'[c].pc = "idle"
    BY <1>1, EndsPc
  <1> QED
    BY <1>1, <1>2, <1>3, <1>4

---------------------------------------------------- (* the images and the overlays *)

LEMMA DiskSteps ==
    ASSUME TypeOK, NEW c \in Callers, Works(c), NEW id \in Ids
    PROVE  \/ CreateDisk(c) /\ job[c].id = id
           \/ Unlink(c) /\ job[c].id = id /\ disk'[id] = NoDisk
           \/ disk'[id] = disk[id]
  <1>1. CreateDisk(c) => job[c].id = id \/ disk'[id] = disk[id]
    BY DEF CreateDisk, TypeOK
  <1>2. Unlink(c) => disk'[id] = IF job[c].id = id THEN NoDisk ELSE disk[id]
    BY DEF Unlink, TypeOK
  <1>3. CreateDisk(c) \/ Unlink(c) \/ disk' = disk
    BY DEF Works, LoadRegistry, Resolve, Ensure, LoadCatalog, CurlStarts, CurlEnds, CurlFails,
       UnlinkImage, QemuImgFails, WriteManifest, UnlinkManifest, UnlinkFails,
       TruncateRegistry, WriteRegistry, TruncateCatalog, WriteCatalog, DomainCreate, DomainStart,
       DaemonFails, Kill, files
  <1> QED
    BY <1>1, <1>2, <1>3

LEMMA ImageSteps ==
    ASSUME TypeOK, NEW c \in Callers, Works(c), NEW i \in Images
    PROVE  \/ (CurlStarts(c) \/ CurlEnds(c) \/ UnlinkImage(c)) /\ job[c].from = i
           \/ image'[i] = image[i] /\ (i \in refetched' <=> i \in refetched)
  <1>1. CASE CurlStarts(c)
    BY <1>1 DEF CurlStarts, TypeOK
  <1>2. CASE CurlEnds(c)
    BY <1>2 DEF CurlEnds, TypeOK
  <1>3. CASE UnlinkImage(c)
    BY <1>3 DEF UnlinkImage, TypeOK
  <1> QED
    BY <1>1, <1>2, <1>3
    DEF Works, LoadRegistry, Resolve, Ensure, LoadCatalog, CurlFails,
       CreateDisk, QemuImgFails, WriteManifest, Unlink, UnlinkManifest, UnlinkFails,
       TruncateRegistry, WriteRegistry, TruncateCatalog, WriteCatalog, DomainCreate, DomainStart,
       DaemonFails, Kill, files, histories

LEMMA CatalogSteps ==
    ASSUME NEW c \in Callers, Works(c)
    PROVE  \/ TruncateCatalog(c) \/ WriteCatalog(c)
           \/ Kill(c) /\ Writes(c, "catalog", "write")
           \/ UNCHANGED <<catalog, lost>> /\ ~Writes(c, "catalog", "write")
  BY DEF Works, LoadRegistry, Resolve, Ensure, LoadCatalog, CurlStarts, CurlEnds, CurlFails,
       UnlinkImage, CreateDisk, QemuImgFails, WriteManifest, Unlink, UnlinkManifest, UnlinkFails,
       TruncateRegistry, WriteRegistry, TruncateCatalog, WriteCatalog, DomainCreate, DomainStart,
       DaemonFails, Kill, At, Writes, files, histories

LEMMA SaveCatalogSteps ==
    ASSUME TypeOK, ShapeOK, NEW c \in Callers,
           TruncateCatalog(c) \/ WriteCatalog(c) \/ (Kill(c) /\ Writes(c, "catalog", "write"))
    PROVE  \/ /\ TruncateCatalog(c) /\ Listed' = {} /\ lost' = lost \cup (Listed \ Names(c))
              /\ Writes(c, "catalog", "write")' /\ Names(c)' = Names(c)
           \/ /\ Writes(c, "catalog", "write") /\ Listed' \subseteq Listed \cup Names(c)
              /\ (Listed \cup Names(c)) \ Listed' \subseteq lost' /\ lost \ Listed' \subseteq lost'
  <1>0. job[c] \in Jobs
    BY BusyJob DEF TruncateCatalog, WriteCatalog, Kill, Writes, At, Busy
  <1>1. CASE TruncateCatalog(c)
    <2>1. job'[c].pc = "write" /\ Same(c) /\ job'[c].names = job[c].names /\ job'[c].file = job[c].file
      BY <1>0, <1>1, GoesPc DEF TruncateCatalog, Pc
    <2> QED
      BY <1>1, <2>1 DEF TruncateCatalog, Listed, Text, Writes, At, Names, Same
  <1>2. CASE WriteCatalog(c)
    <2>1. Listed' \subseteq Listed \cup Names(c)
      <3>1. catalog' \in Overwritten(catalog, Names(c))
        BY <1>2 DEF WriteCatalog
      <3> QED
        BY <3>1 DEF Overwritten, Text, Garbled, Listed
    <2> QED
      BY <1>2, <2>1 DEF WriteCatalog, Loses
  <1>3. CASE Kill(c) /\ Writes(c, "catalog", "write")
    <2>1. catalog' \in BrokenOff(catalog, Names(c)) /\ lost' = lost \cup Loses(c)
      BY <1>3 DEF Kill, Writes
    <2>2. Listed' \subseteq Listed \cup Names(c)
      BY <2>1 DEF BrokenOff, Text, Garbled, Listed
    <2> QED
      BY <1>3, <2>1, <2>2 DEF Loses
  <1> QED
    BY <1>1, <1>2, <1>3

(* A name goes from the catalogue only into what is lost.                   *)
LEMMA HeldStep ==
    ASSUME TypeOK, ShapeOK, NEW c \in Callers, Works(c),
           NEW i \in Images, i \notin lost', ~Held(i)'
    PROVE  i \notin lost /\ ~Held(i)
  <1>1. /\ OwnJob(c)
        /\ \A d \in Callers \ {c} :
             (Writes(d, "catalog", "write") /\ i \in Names(d))'
               <=> Writes(d, "catalog", "write") /\ i \in Names(d)
    BY JobStep DEF OwnJob, Writes, At, Names
  <1>2. /\ i \notin Listed'
        /\ \A d \in Callers : ~(Writes(d, "catalog", "write")' /\ i \in Names(d)')
    BY DEF Held
  <1>3. CASE TruncateCatalog(c) \/ WriteCatalog(c) \/ (Kill(c) /\ Writes(c, "catalog", "write"))
    <2>1. \/ /\ TruncateCatalog(c) /\ lost' = lost \cup (Listed \ Names(c))
             /\ Writes(c, "catalog", "write")' /\ Names(c)' = Names(c)
          \/ /\ Writes(c, "catalog", "write")
             /\ (Listed \cup Names(c)) \ Listed' \subseteq lost' /\ lost \ Listed' \subseteq lost'
      BY <1>3, SaveCatalogSteps
    <2>2. i \notin Names(c) /\ i \notin Listed /\ i \notin lost
      BY <1>2, <2>1
    <2> QED
      BY <1>1, <1>2, <2>2 DEF Held
  <1>4. CASE UNCHANGED <<catalog, lost>> /\ ~Writes(c, "catalog", "write")
    BY <1>1, <1>2, <1>4 DEF Held, Listed
  <1> QED
    BY <1>3, <1>4, CatalogSteps

(* Steps that leave the images, the overlays and the catalogue alone.       *)
Apart == UNCHANGED <<catalog, image, disk, doubt, refetched, lost>>

LEMMA ApartStep ==
    ASSUME TypeOK, [Next]_vars, \A c \in Callers : ~Works(c)
    PROVE  /\ Apart
           /\ \A d \in Callers : \/ job'[d] = job[d]
                                 \/ /\ job'[d].file = "none" /\ job'[d].names = {}
                                    /\ job'[d].pc = FirstStep(job'[d].op)
                                    /\ job[d].pc = "idle"
                                    /\ First(job'[d].op, job'[d].id, job'[d].from)
  <1>1. ASSUME NEW e \in Callers, NEW op, NEW id, NEW from, First(op, id, from), Begin(e, op, id, from)
        PROVE  /\ Apart
               /\ \A d \in Callers \ {e} : job'[d] = job[d]
               /\ job'[e].file = "none" /\ job'[e].names = {}
               /\ job'[e].pc = FirstStep(job'[e].op)
               /\ job[e].pc = "idle"
               /\ First(job'[e].op, job'[e].id, job'[e].from)
    <2>1. op \in Ops /\ id \in Ids \cup Images /\ from \in Ids \cup Images
      BY <1>1 DEF First
    <2>2. /\ \A x \in Callers \ {e} : job'[x] = job[x]
          /\ job[e].pc = "idle" /\ job'[e].file = "none" /\ job'[e].names = {}
          /\ job'[e].pc = FirstStep(op)
          /\ job'[e].op = op /\ job'[e].id = id /\ job'[e].from = from
      BY <1>1, <2>1, BeginStep
    <2> QED
      BY <1>1, <2>2 DEF Apart, Begin, files, histories
  <1>2. ASSUME NEW id \in Ids, GuestEnds(id) PROVE Apart /\ job' = job
    BY <1>2 DEF GuestEnds, Apart, files, histories
  <1>3. CASE UNCHANGED vars
    BY <1>3 DEF vars, Apart
  <1> QED
    BY <1>1, <1>2, <1>3, StepCases

LEMMA UnlistedStep ==
    TypeOK /\ ShapeOK /\ Unlisted /\ [Next]_vars => Unlisted'
  <1> SUFFICES ASSUME TypeOK, ShapeOK, Unlisted, [Next]_vars,
                      NEW i \in Images, i \notin lost', ~Held(i)'
               PROVE  /\ \A id \in Ids : disk'[id].stamp # None /\ disk'[id].of = i => id \in doubt'
                      /\ \A c \in Callers : At(c, "disk")' /\ job'[c].op \in Creates => job'[c].from # i
    BY DEF Unlisted, RestsOn
  <1>1. ASSUME NEW c \in Callers, Works(c)
        PROVE  /\ \A id \in Ids : disk'[id].stamp # None /\ disk'[id].of = i => id \in doubt'
               /\ \A d \in Callers : At(d, "disk")' /\ job'[d].op \in Creates => job'[d].from # i
    <2>1. i \notin lost /\ ~Held(i)
      BY <1>1, HeldStep
    <2>2. /\ RestsOn(i) \subseteq doubt
          /\ \A d \in Callers : At(d, "disk") /\ job[d].op \in Creates => job[d].from # i
      BY <2>1 DEF Unlisted
    <2>3. /\ job[c] \in Jobs /\ Shape(job[c]) /\ OwnJob(c)
          /\ job[c].op \in Ops /\ job[c].pc \in Pcs(job[c].op)
          /\ job'[c].pc = "idle" \/ Went(c)
      BY <1>1, Goings
    <2>4. ASSUME NEW id \in Ids, disk'[id].stamp # None, disk'[id].of = i
          PROVE  id \in doubt'
      <3>1. CASE CreateDisk(c) /\ job[c].id = id
        <4>1. disk'[id].of = job[c].from /\ At(c, "disk")
          BY <3>1 DEF CreateDisk, TypeOK
        <4>2. job[c].op \in Creates \cup {"fork"}
          BY <2>3, <4>1, OpOf DEF At
        <4> QED
          BY <2>2, <2>3, <2>4, <4>1, <4>2, InstancesAssumption DEF Shape
      <3>2. CASE Unlink(c) /\ job[c].id = id
        BY <2>4, <3>2 DEF Unlink, TypeOK, NoDisk
      <3>3. CASE ~(CreateDisk(c) /\ job[c].id = id) /\ ~(Unlink(c) /\ job[c].id = id)
        <4>1. disk'[id] = disk[id]
          BY <1>1, <3>3, DiskSteps
        <4>2. id \in doubt
          BY <2>2, <2>4, <4>1 DEF RestsOn
        <4> QED
          BY <1>1, <3>3, <4>2, DoubtStep
      <3> QED
        BY <1>1, <3>1, <3>2, <3>3, DiskSteps
    <2>5. ASSUME NEW d \in Callers, At(d, "disk")', job'[d].op \in Creates
          PROVE  job'[d].from # i
      <3>1. CASE d = c
        <4>1. Went(c) /\ job'[c].pc = "disk"
          BY <2>3, <2>5, <3>1 DEF At
        <4>2. job[c].from \in Listed /\ job'[c].from = job[c].from
          BY <2>5, <3>1, <4>1 DEF Went, Same, Creates
        <4> QED
          BY <2>1, <3>1, <4>2 DEF Held
      <3>2. CASE d # c
        BY <2>2, <2>3, <2>5, <3>2 DEF OwnJob, At
      <3> QED
        BY <3>1, <3>2
    <2> QED
      BY <2>4, <2>5
  <1>2. CASE \A c \in Callers : ~Works(c)
    <2>1. /\ Apart
          /\ \A d \in Callers : \/ job'[d] = job[d]
                                \/ /\ job'[d].file = "none" /\ job'[d].names = {}
                                   /\ job'[d].pc = FirstStep(job'[d].op)
                                   /\ job[d].pc = "idle"
      BY <1>2, ApartStep
    <2>2. ASSUME NEW d \in Callers, Writes(d, "catalog", "write"), i \in Names(d)
          PROVE  FALSE
      <3>1. job'[d] = job[d]
        BY <2>1, <2>2 DEF Writes, At
      <3> QED
        BY <2>2, <3>1 DEF Held, Writes, At, Names
    <2>3. i \notin lost /\ ~Held(i)
      BY <2>1, <2>2 DEF Held, Apart, Listed
    <2>4. \A d \in Callers : At(d, "disk")' => job'[d] = job[d]
      BY <2>1 DEF At, FirstStep
    <2> QED
      BY <2>1, <2>3, <2>4 DEF Unlisted, RestsOn, Apart, At
  <1> QED
    BY <1>1, <1>2

LEMMA BackingStep ==
    TypeOK /\ ShapeOK /\ Unlisted /\ BackingKept /\ [Next]_vars => BackingKept'
  <1> SUFFICES ASSUME TypeOK, ShapeOK, Unlisted, BackingKept, [Next]_vars,
                      NEW id \in Ids, id \notin doubt', disk'[id].stamp # None
               PROVE  \/ /\ disk'[id].of \in Images
                         /\ image'[disk'[id].of].stamp = disk'[id].on
                      \/ /\ disk'[id].of \in Ids
                         /\ disk'[disk'[id].of].stamp = disk'[id].on
    BY DEF BackingKept
  <1> DEFINE Goal == \/ /\ disk'[id].of \in Images
                        /\ image'[disk'[id].of].stamp = disk'[id].on
                     \/ /\ disk'[id].of \in Ids
                        /\ disk'[disk'[id].of].stamp = disk'[id].on
  <1>1. ASSUME NEW c \in Callers, Works(c) PROVE Goal
    <2>1. /\ job[c] \in Jobs /\ Shape(job[c]) /\ OwnJob(c)
          /\ job[c].op \in Ops /\ job[c].pc \in Pcs(job[c].op)
      BY <1>1, Goings
    <2>2. CASE CreateDisk(c) /\ job[c].id = id
      <3>1. /\ disk'[id].of = job[c].from /\ disk'[id].on = Backing(c) /\ image' = image
            /\ \A x \in Ids \ {id} : disk'[x] = disk[x]
        BY <2>2 DEF CreateDisk, TypeOK
      <3>2. job[c].op \in Creates \cup {"fork"}
        BY <2>1, <2>2, OpOf DEF CreateDisk, At
      <3>3. CASE job[c].op = "fork"
        BY <2>1, <2>2, <3>1, <3>3 DEF Shape, Backing
      <3>4. CASE job[c].op \in Creates
        BY <2>1, <3>1, <3>4 DEF Shape, Backing, Creates
      <3> QED
        BY <3>2, <3>3, <3>4
    <2>3. CASE ~(CreateDisk(c) /\ job[c].id = id)
      <3>1. disk'[id] = disk[id]
        <4>1. ~(Unlink(c) /\ job[c].id = id /\ disk'[id] = NoDisk)
          BY DEF NoDisk
        <4> QED
          BY <1>1, <2>3, <4>1, DiskSteps
      <3>2. id \notin doubt
        <4>1. Unlink(c) /\ job[c].id = id => disk'[id] = NoDisk
          BY DEF Unlink, TypeOK
        <4>2. ~(Unlink(c) /\ job[c].id = id)
          BY <4>1 DEF NoDisk
        <4> QED
          BY <1>1, <2>3, <4>2, DoubtStep
      <3>3. CASE disk[id].of \in Images /\ image[disk[id].of].stamp = disk[id].on
        <4> DEFINE i == disk[id].of
        <4>1. id \in RestsOn(i)
          BY <3>1 DEF RestsOn
        <4>2. CASE CurlStarts(c) /\ job[c].from = i
          <5>1. ~Excused(c)
            BY <4>1, <4>2 DEF CurlStarts
          <5>2. job[c].op = "spawn" /\ i \notin lost /\ (i \in job[c].names \/ ~Held(i))
            BY <2>1, <4>2, <5>1, OpOf DEF Excused, CurlStarts, At
          <5>3. ~Held(i)
            BY <2>1, <4>2, <5>2 DEF Shape, CurlStarts, At
          <5>4. RestsOn(i) \subseteq doubt
            BY <3>3, <5>2, <5>3 DEF Unlisted
          <5> QED
            BY <3>2, <4>1, <5>4
        <4>3. CASE UnlinkImage(c) /\ job[c].from = i
          BY <4>1, <4>3 DEF UnlinkImage
        <4>4. CASE CurlEnds(c) /\ job[c].from = i
          <5>1. image'[i].stamp = image[i].stamp
            BY <3>3, <4>4 DEF CurlEnds, TypeOK
          <5> QED
            BY <3>1, <3>3, <5>1
        <4>5. CASE image'[i] = image[i]
          BY <3>1, <3>3, <4>5
        <4> QED
          BY <1>1, <3>3, <4>2, <4>3, <4>4, <4>5, ImageSteps
      <3>4. CASE disk[id].of \in Ids /\ disk[disk[id].of].stamp = disk[id].on
        <4> DEFINE p == disk[id].of
        <4>1. id \in RestsOn(p)
          BY <3>1 DEF RestsOn
        <4>2. CASE CreateDisk(c) /\ job[c].id = p
          BY <4>1, <4>2 DEF CreateDisk
        <4>3. CASE Unlink(c) /\ job[c].id = p
          BY <4>1, <4>3 DEF Unlink
        <4>4. CASE disk'[p] = disk[p]
          BY <3>1, <3>4, <4>4
        <4> QED
          BY <1>1, <3>4, <4>2, <4>3, <4>4, DiskSteps
      <3> QED
        BY <3>1, <3>2, <3>3, <3>4 DEF BackingKept
    <2> QED
      BY <2>2, <2>3
  <1>2. CASE \A c \in Callers : ~Works(c)
    <2>1. Apart
      BY <1>2, ApartStep
    <2> QED
      BY <2>1 DEF Apart, BackingKept
  <1> QED
    BY <1>1, <1>2

LEMMA OneCurlStep ==
    TypeOK /\ ShapeOK /\ OneCurl /\ [Next]_vars => OneCurl'
  <1> SUFFICES ASSUME TypeOK, ShapeOK, OneCurl, [Next]_vars,
                      NEW i \in Images, i \notin refetched',
                      NEW c \in Callers, At(c, "curling")', job'[c].from = i
               PROVE  /\ image'[i].stamp = job'[c].stamp
                      /\ \A d \in Callers \ {c} : At(d, "curling")' => job'[d].from # i
    BY DEF OneCurl
  <1>1. ASSUME NEW e \in Callers, Works(e)
        PROVE  /\ image'[i].stamp = job'[c].stamp
               /\ \A d \in Callers \ {c} : At(d, "curling")' => job'[d].from # i
    <2>1. /\ job[e] \in Jobs /\ Shape(job[e]) /\ OwnJob(e)
          /\ \A d \in Callers \ {e} : job'[d] = job[d]
          /\ job'[e].pc = "idle" \/ Went(e)
      BY <1>1, Goings DEF OwnJob
    <2>2. At(e, "curling")' => CurlStarts(e) /\ Same(e)
      BY <2>1 DEF At, Went
    <2>3. CASE CurlStarts(e) /\ job[e].from = i
      <3>1. /\ image[i].stamp = None /\ i \notin refetched
            /\ image'[i].stamp = job[e].stamp
        BY <2>3 DEF CurlStarts, TypeOK
      <3>2. ASSUME NEW d \in Callers \ {e}, At(d, "curling")', job'[d].from = i
            PROVE  FALSE
        <4>1. At(d, "curling") /\ job[d].from = i
          BY <2>1, <3>2 DEF At
        <4>2. job[d].stamp = None
          BY <3>1, <4>1 DEF OneCurl
        <4>3. job[d] \in Jobs
          BY <4>1, BusyJob DEF At
        <4> QED
          BY <4>2, <4>3 DEF Jobs
      <3>3. c = e
        BY <3>2
      <3> QED
        BY <2>2, <3>1, <3>2, <3>3 DEF Same
    <2>4. CASE CurlEnds(e) /\ job[e].from = i
      <3>1. c # e /\ job[c] = job'[c]
        BY <2>1, <2>2, <2>4 DEF CurlStarts, CurlEnds, At
      <3>2. At(c, "curling") /\ job[c].from = i /\ At(e, "curling")
        BY <2>4, <3>1 DEF At, CurlEnds
      <3>3. ~Alone(e)
        BY <2>4, <3>1, <3>2 DEF Alone
      <3>4. i \notin refetched
        BY <2>4, <3>3 DEF CurlEnds
      <3> QED
        BY <2>4, <3>1, <3>2, <3>4 DEF OneCurl
    <2>5. CASE UnlinkImage(e) /\ job[e].from = i
      BY <2>5 DEF UnlinkImage
    <2>6. CASE image'[i] = image[i] /\ i \notin refetched /\ ~(CurlStarts(e) /\ job[e].from = i)
      <3>1. ASSUME NEW d \in Callers, At(d, "curling")', job'[d].from = i
            PROVE  job'[d] = job[d]
        BY <2>1, <2>2, <2>6, <3>1 DEF Same
      <3>2. job'[c] = job[c] /\ At(c, "curling") /\ job[c].from = i
        BY <3>1 DEF At
      <3>3. /\ image[i].stamp = job[c].stamp
            /\ \A d \in Callers \ {c} : At(d, "curling") => job[d].from # i
        BY <2>6, <3>2 DEF OneCurl
      <3> QED
        BY <2>6, <3>1, <3>2, <3>3 DEF At
    <2> QED
      BY <1>1, <2>3, <2>4, <2>5, <2>6, ImageSteps
  <1>2. CASE \A e \in Callers : ~Works(e)
    <2>1. Apart
      BY <1>2, ApartStep
    <2>2. ASSUME NEW d \in Callers, At(d, "curling")', job'[d].from = i
          PROVE  job'[d] = job[d]
      <3>1. \/ job'[d] = job[d]
            \/ job'[d].pc = FirstStep(job'[d].op)
        BY <1>2, ApartStep
      <3> QED
        BY <2>2, <3>1 DEF At, FirstStep
    <2> QED
      BY <2>1, <2>2 DEF Apart, OneCurl, At
  <1> QED
    BY <1>1, <1>2

LEMMA ThereStep == TypeOK /\ ShapeOK /\ WholeIsThere /\ [Next]_vars => WholeIsThere'
  <1> SUFFICES ASSUME TypeOK, ShapeOK, WholeIsThere, [Next]_vars,
                      NEW i \in Images, image'[i].whole
               PROVE  image'[i].stamp # None
    BY DEF WholeIsThere
  <1>1. ASSUME NEW c \in Callers, Works(c) PROVE image'[i].stamp # None
    <2>1. CASE CurlStarts(c) /\ job[c].from = i
      BY <2>1 DEF CurlStarts, TypeOK
    <2>2. CASE CurlEnds(c) /\ job[c].from = i
      BY <2>2 DEF CurlEnds, TypeOK
    <2>3. CASE UnlinkImage(c) /\ job[c].from = i
      BY <2>3 DEF UnlinkImage, TypeOK
    <2>4. CASE image'[i] = image[i]
      BY <2>4 DEF WholeIsThere
    <2> QED
      BY <1>1, <2>1, <2>2, <2>3, <2>4, ImageSteps
  <1>2. CASE \A c \in Callers : ~Works(c)
    BY <1>2, ApartStep DEF Apart, WholeIsThere
  <1> QED
    BY <1>1, <1>2

LEMMA UnseenStep ==
    TypeOK /\ ShapeOK /\ OneCurl /\ WholeOrUnseen /\ WholeIsThere /\ [Next]_vars => WholeOrUnseen'
  <1> SUFFICES ASSUME TypeOK, ShapeOK, OneCurl, WholeOrUnseen, WholeIsThere, [Next]_vars,
                      NEW i \in Images, i \notin refetched', ~image'[i].whole
               PROVE  Unseen(i)'
    BY DEF WholeOrUnseen
  <1>1. ASSUME NEW c \in Callers, Works(c) PROVE Unseen(i)'
    <2>1. /\ job[c] \in Jobs /\ Shape(job[c])
          /\ job[c].op \in Ops /\ job[c].pc \in Pcs(job[c].op)
          /\ \A d \in Callers \ {c} : job'[d] = job[d]
          /\ job'[c].pc = "idle" \/ Went(c)
      BY <1>1, Goings DEF OwnJob
    <2>2. ~(CurlEnds(c) /\ job[c].from = i)
      <3> SUFFICES ASSUME CurlEnds(c), job[c].from = i PROVE FALSE
        OBVIOUS
      <3>1. ~Alone(c)
        BY DEF CurlEnds, TypeOK
      <3>2. i \notin refetched /\ At(c, "curling")
        BY <3>1 DEF CurlEnds
      <3> QED
        BY <3>1, <3>2 DEF OneCurl, Alone
    <2>3. i \notin refetched /\ ~image[i].whole
      <3>1. CASE CurlStarts(c) /\ job[c].from = i
        BY <3>1 DEF CurlStarts, WholeIsThere
      <3>2. CASE UnlinkImage(c) /\ job[c].from = i
        BY <3>2 DEF UnlinkImage
      <3>3. CASE image'[i] = image[i] /\ (i \in refetched' <=> i \in refetched)
        BY <3>3
      <3> QED
        BY <1>1, <2>2, <3>1, <3>2, <3>3, ImageSteps
    <2>4. Unseen(i)
      BY <2>3 DEF WholeOrUnseen
    <2>5. /\ i \notin Listed /\ i \notin job[c].names
          /\ job[c].from = i => \/ job[c].pc \in {"load", "resolve", "ensure", "curl", "curling"}
                                \/ job[c].op = "image rm" /\ job[c].pc = "load catalog"
      BY <2>1, <2>4 DEF Unseen, Busy, Jobs
    <2>6. i \notin Listed'
      <3>1. CASE TruncateCatalog(c) \/ WriteCatalog(c) \/ (Kill(c) /\ Writes(c, "catalog", "write"))
        <4>1. \/ Listed' = {}
              \/ Writes(c, "catalog", "write") /\ Listed' \subseteq Listed \cup Names(c)
          BY <3>1, SaveCatalogSteps
        <4>2. Writes(c, "catalog", "write") => i \notin Names(c)
          BY <2>5 DEF Names, Writes, At
        <4> QED
          BY <2>5, <4>1, <4>2
      <3>2. CASE UNCHANGED catalog
        BY <2>5, <3>2 DEF Listed
      <3> QED
        BY <1>1, <3>1, <3>2, CatalogSteps
    <2>7. ASSUME job'[c].pc # "idle"
          PROVE  /\ i \notin job'[c].names
                 /\ job'[c].from = i =>
                      \/ job'[c].pc \in {"load", "resolve", "ensure", "curl", "curling"}
                      \/ job'[c].op = "image rm" /\ job'[c].pc = "load catalog"
      <3>1. Went(c) /\ Same(c)
        BY <2>1, <2>7 DEF Went
      <3>2. i \notin job'[c].names
        BY <2>5, <3>1 DEF Went
      <3>3. ASSUME job[c].from = i
            PROVE  job'[c].pc \in {"load", "resolve", "ensure", "curl", "curling"}
        <4>1. ~CurlEnds(c)
          BY <2>2, <3>3
        <4>2. job[c].op \notin {"fork", "rm", "start"}
          BY <2>1, <3>3, InstancesAssumption DEF Shape
        <4>3. At(c, "load") => job[c].op \in Creates
          BY <2>1, <4>2, OpOf DEF At
        <4>4. CASE LoadRegistry(c)
          BY <3>1, <4>2, <4>3, <4>4 DEF LoadRegistry, Went, At, Creates, Resolve, Ensure,
             LoadCatalog, CurlStarts, CurlEnds, UnlinkImage, TruncateCatalog, TruncateRegistry,
             WriteCatalog, CreateDisk, Unlink, UnlinkFails, WriteManifest, UnlinkManifest,
             WriteRegistry, DomainCreate, Writes
        <4>5. CASE Resolve(c) \/ Ensure(c) \/ LoadCatalog(c) \/ CurlStarts(c)
          BY <2>5, <3>1, <3>3, <4>5 DEF LoadRegistry, Went, At, Creates, Resolve, Ensure,
             LoadCatalog, CurlStarts, CurlEnds, UnlinkImage, TruncateCatalog, TruncateRegistry,
             WriteCatalog, CreateDisk, Unlink, UnlinkFails, WriteManifest, UnlinkManifest,
             WriteRegistry, DomainCreate, Writes
        <4> QED
          BY <2>5, <3>1, <3>3, <4>1, <4>4, <4>5 DEF Went, At, UnlinkImage, TruncateCatalog,
             TruncateRegistry, WriteCatalog, CreateDisk, Unlink, UnlinkFails, WriteManifest,
             UnlinkManifest, WriteRegistry, DomainCreate, Writes
      <3> QED
        BY <3>1, <3>2, <3>3 DEF Same
    <2> QED
      BY <2>1, <2>4, <2>6, <2>7 DEF Unseen, Busy
  <1>2. CASE \A c \in Callers : ~Works(c)
    <2>1. /\ Apart
          /\ \A d \in Callers : \/ job'[d] = job[d]
                                \/ /\ job'[d].names = {}
                                   /\ job'[d].pc = FirstStep(job'[d].op)
                                   /\ First(job'[d].op, job'[d].id, job'[d].from)
      BY <1>2, ApartStep
    <2>2. Unseen(i)
      BY <2>1 DEF Apart, WholeOrUnseen
    <2>3. ASSUME NEW d \in Callers, job'[d].names = {}, job'[d].pc = FirstStep(job'[d].op),
                 First(job'[d].op, job'[d].id, job'[d].from), job'[d].from = i
          PROVE  \/ job'[d].pc \in {"load", "resolve", "ensure", "curl", "curling"}
                 \/ job'[d].op = "image rm" /\ job'[d].pc = "load catalog"
      <3>1. job'[d].op \in Creates \cup {"pull", "image rm"}
        BY <2>3, InstancesAssumption DEF First, Ops
      <3> QED
        BY <2>3, <3>1 DEF FirstStep, Creates
    <2> QED
      BY <2>1, <2>2, <2>3 DEF Unseen, Busy, Apart, Listed
  <1> QED
    BY <1>1, <1>2

LEMMA DomainStep == TypeOK /\ DomainOK /\ [Next]_vars => DomainOK'
  <1> SUFFICES ASSUME TypeOK, DomainOK, [Next]_vars, NEW id \in Ids, domain'[id].on
               PROVE  domain'[id].disk # None
    BY DEF DomainOK
  <1>1. ASSUME NEW c \in Callers, Works(c) PROVE domain'[id].disk # None
    <2>1. CASE DomainCreate(c)
      BY <2>1 DEF DomainCreate, DomainOK, TypeOK
    <2>2. CASE DomainStart(c)
      BY <2>2 DEF DomainStart, DomainOK, TypeOK
    <2>3. CASE domain' = domain
      BY <2>3 DEF DomainOK
    <2> QED
      BY <1>1, <2>1, <2>2, <2>3 DEF Works, LoadRegistry, Resolve, Ensure, LoadCatalog, CurlStarts,
         CurlEnds, CurlFails, UnlinkImage, CreateDisk, QemuImgFails, WriteManifest, Unlink,
         UnlinkManifest, UnlinkFails, TruncateRegistry, WriteRegistry, TruncateCatalog,
         WriteCatalog, DaemonFails, Kill
  <1>2. ASSUME NEW e \in Ids, GuestEnds(e) PROVE domain'[id].disk # None
    BY <1>2 DEF GuestEnds, DomainOK, TypeOK, Off
  <1>3. ASSUME NEW c \in Callers, NEW op, NEW x, NEW from, Begin(c, op, x, from)
        PROVE  domain'[id].disk # None
    BY <1>3 DEF Begin, DomainOK
  <1>4. CASE UNCHANGED vars
    BY <1>4 DEF vars, DomainOK
  <1> QED
    BY <1>1, <1>2, <1>3, <1>4, StepCases

----------------------------------------------------------------- (* the theorems *)

LEMMA InvInit == Init => Inv
  <1> SUFFICES ASSUME Init PROVE Inv
    OBVIOUS
  <1>1. TypeOK
    <2>1. None \in Stamps /\ 0 \in Stamps /\ 0 \in 0..MaxBreaks
      BY InstancesAssumption DEF None, Stamps
    <2>2. FilesOK
      <3>1. Text({}) \in [list : SUBSET Entries, parses : BOOLEAN]
        BY DEF Text
      <3>2. Text({}) \in [list : SUBSET Images, parses : BOOLEAN]
        BY DEF Text
      <3>3. NoDisk \in [stamp : Stamps, on : Stamps, of : Ids \cup Images \cup {"nothing"}]
        BY <2>1 DEF NoDisk
      <3> QED
        BY <2>1, <3>1, <3>2, <3>3 DEF FilesOK, Init
    <2>3. Off \in [on : BOOLEAN, running : BOOLEAN, disk : Stamps, by : Stamps, told : BOOLEAN]
      BY <2>1 DEF Off
    <2>4. RestOK
      BY <2>1, <2>3 DEF RestOK, Init
    <2> QED
      BY <2>2, <2>4, TypesParts DEF Init
  <1>2. \A c \in Callers : ~Busy(c)
    BY DEF Init, Busy, Idle
  <1>3. ShapeOK /\ OneChanger
    BY <1>2 DEF ShapeOK, OneChanger
  <1>4. \A c \in Callers : job[c].pc = "idle"
    BY <1>2 DEF Busy
  <1>5. DomainOK
    BY DEF DomainOK, Init, Off
  <1>6. \A c \in Callers : ~Underway(c) /\ ~Saving(c)
    BY <1>4 DEF Underway, Saving, Writes, At
  <1>7. SaversAgree /\ Midway
    BY <1>6 DEF SaversAgree, Midway
  <1>8. \A id \in Ids : disk[id].stamp = None
    BY DEF Init, NoDisk
  <1>9. Settled
    <2>1. \A id \in Ids : ~Find(registry.list, id)
      BY DEF Init, Text, Find, Entry
    <2> QED
      BY <1>6, <1>8, <2>1 DEF Settled, Known, Init
  <1>10. Unlisted /\ BackingKept
    BY <1>4, <1>8 DEF Unlisted, BackingKept, RestsOn, At
  <1>11. OneCurl /\ WholeIsThere
    BY <1>4 DEF OneCurl, WholeIsThere, At, Init
  <1>12. WholeOrUnseen
    <2>1. Listed = {}
      BY DEF Init, Text, Listed
    <2> QED
      BY <1>2, <2>1 DEF WholeOrUnseen, Unseen
  <1> QED
    BY <1>1, <1>3, <1>5, <1>7, <1>9, <1>10, <1>11, <1>12 DEF Inv

LEMMA InvStep == Inv /\ [Next]_vars => Inv'
  BY TypesStep, ShapeStep, DomainStep, OneChangerStep, AgreeStep, SettledStep, MidwayStep,
     UnlistedStep, BackingStep, OneCurlStep, UnseenStep, ThereStep DEF Inv

(* Every variable keeps its type, and the inductive invariant holds: what    *)
(* a job can be at each step, who may be at the same instance, what the      *)
(* registry, the disk and the manifest of an instance agree on, and what     *)
(* the catalogue says of the backing files.                                  *)
THEOREM InstancesInv == Spec => []Inv
  BY InvInit, InvStep, PTL DEF Spec

THEOREM InstancesTypes == Spec => []TypeOK
  <1>1. Inv => TypeOK
    BY DEF Inv
  <1> QED
    BY <1>1, InstancesInv, PTL

(* What a command said when it succeeded is so until the next command on    *)
(* the id (create_instance_in, fork_instance_in, destroy_instance_in).      *)
THEOREM InstancesSuccess == Spec => []SuccessIsTrue
  <1>1. ASSUME Inv PROVE SuccessIsTrue
    <2>1. ASSUME ~BeingWritten("registry"), NEW id \in Ids \ doubt,
                 \A c \in Callers : ~(Busy(c) /\ job[c].id = id /\ Changing(c))
          PROVE  /\ reported[id] = "created" <=> Find(registry.list, id)
                 /\ reported[id] = "created" <=> disk[id].stamp # None
                 /\ reported[id] = "created" <=> manifest[id]
      <3>1. \A c \in Callers : Underway(c) => job[c].id # id
        BY <1>1, <2>1, UnderwayOn DEF Inv
      <3> QED
        BY <1>1, <2>1, <3>1 DEF Inv, Settled, Known
    <2> QED
      BY <2>1 DEF SuccessIsTrue
  <1> QED
    BY <1>1, InstancesInv, PTL

(* An overlay keeps the backing file that it grew on: only image pull,      *)
(* image rm, the destruction of a fork's parent and the losses named in     *)
(* Excused replace it (ensure_base_image_present, destroy_instance_in).     *)
THEOREM InstancesBacking == Spec => []BackingKept
  <1>1. Inv => BackingKept
    BY DEF Inv
  <1> QED
    BY <1>1, InstancesInv, PTL

(* No command creates the disk of a live domain anew under it, unless the   *)
(* registry was spoilt by a kill, a failed unlink or a stale copy: create_  *)
(* and fork_instance_in look only at the registry, domain.create does not.  *)
THEOREM InstancesLiveDisk == Spec => LiveDiskKept
  <1>1. ASSUME Inv, [Next]_vars
        PROVE  [\A id \in Ids :
                 (domain[id].on /\ disk[id].stamp = domain[id].disk) =>
                   disk'[id].stamp \in {disk[id].stamp, None} \/ id \in doubt \cup doubt']_vars
    <2> SUFFICES ASSUME NEW id \in Ids, domain[id].on, disk[id].stamp = domain[id].disk,
                        disk'[id].stamp \notin {disk[id].stamp, None},
                        id \notin doubt, id \notin doubt'
                 PROVE  FALSE
      OBVIOUS
    <2>1. disk[id].stamp # None /\ TypeOK /\ ShapeOK
      BY <1>1 DEF Inv, DomainOK
    <2>2. PICK c \in Callers : CreateDisk(c) /\ job[c].id = id
      <3>1. PICK c \in Callers : Works(c)
        <4>1. CASE \A c \in Callers : ~Works(c)
          BY <1>1, <2>1, <4>1, ApartStep DEF Apart
        <4> QED
          BY <4>1
      <3>2. disk'[id] # disk[id] /\ disk'[id] # NoDisk
        BY DEF NoDisk
      <3> QED
        BY <2>1, <3>1, <3>2, DiskSteps
    <2>3. At(c, "disk") /\ ~Contended(c) /\ id \notin Stales(c)
      BY <2>2 DEF CreateDisk, Fresh
    <2>4. job[c].op \in Creates \cup {"fork"} /\ ~Find(job[c].reg, id)
      <3>1. /\ job[c] \in Jobs /\ Shape(job[c])
            /\ job[c].op \in Ops /\ job[c].pc \in Pcs(job[c].op)
        BY <2>1, <2>3, Where DEF At
      <3> QED
        BY <2>2, <2>3, <3>1, OpOf DEF Shape, At
    <2>5. \A d \in Callers : Underway(d) => job[d].id # id
      <3>1. ~Underway(c)
        BY <2>3 DEF Underway, Writes, At
      <3>2. \A d \in Callers \ {c} : Underway(d) => Busy(d) /\ Changing(d)
        BY <2>1, UnderwayOn
      <3> QED
        BY <2>2, <2>3, <3>1, <3>2 DEF Contended
    <2>6. Known(id) /\ reported[id] = "created"
      BY <1>1, <2>1, <2>5 DEF Inv, Settled
    <2>7. CASE Writers(c) = {}
      <3>1. ~BeingWritten("registry")
        BY <2>3, <2>7 DEF BeingWritten, Writers, Writes, At
      <3>2. Entry(job[c].reg, id) = Entry(registry.list, id)
        BY <2>3, <2>7 DEF Stales, Differ
      <3> QED
        BY <2>4, <2>6, <3>1, <3>2 DEF Known, Find
    <2>8. ASSUME NEW d \in Writers(c) PROVE FALSE
      <3>1. Entry(job[c].reg, id) = Entry(Registry(d), id)
        BY <2>3, <2>8 DEF Stales, Differ
      <3>2. Saving(d) /\ d \in Callers
        BY DEF Writers, Saving
      <3> QED
        BY <2>4, <2>6, <3>1, <3>2 DEF Known, Find
    <2> QED
      BY <2>7, <2>8
  <1> QED
    BY <1>1, InstancesInv, PTL DEF Spec, LiveDiskKept

(* An overlay grows on a download that is complete, unless the image was    *)
(* being fetched again or such a download broke off (resolve_base_image,    *)
(* pull of the images crate).                                               *)
THEOREM InstancesGrow == Spec => GrowsOnWhole
  <1>1. ASSUME Inv, [Next]_vars
        PROVE  [\A id \in Ids, i \in Images \ refetched :
                  disk'[id].stamp \notin {None, disk[id].stamp} /\ disk'[id].of = i
                    => image[i].whole]_vars
    <2> SUFFICES ASSUME NEW id \in Ids, NEW i \in Images \ refetched,
                        disk'[id].stamp \notin {None, disk[id].stamp}, disk'[id].of = i
                 PROVE  image[i].whole
      OBVIOUS
    <2>1. TypeOK
      BY <1>1 DEF Inv
    <2>2. PICK c \in Callers : CreateDisk(c) /\ job[c].id = id
      <3>1. PICK c \in Callers : Works(c)
        <4>1. CASE \A c \in Callers : ~Works(c)
          BY <1>1, <2>1, <4>1, ApartStep DEF Apart
        <4> QED
          BY <4>1
      <3>2. disk'[id] # disk[id] /\ disk'[id] # NoDisk
        BY DEF NoDisk
      <3> QED
        BY <2>1, <3>1, <3>2, DiskSteps
    <2>3. job[c].pc = "disk" /\ job[c].from = i
      BY <2>1, <2>2 DEF CreateDisk, At, TypeOK
    <2>4. ~Unseen(i)
      BY <2>3 DEF Unseen, Busy
    <2> QED
      BY <1>1, <2>4 DEF Inv, WholeOrUnseen
  <1> QED
    BY <1>1, InstancesInv, PTL DEF Spec, GrowsOnWhole

=============================================================================
