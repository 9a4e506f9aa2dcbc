----------------------------- MODULE GuestConfig -----------------------------
(***************************************************************************)
(* OwnedDomainConfig::new: a plan becomes a libxl_domain_config, a graph   *)
(* of C arrays and strings, any of whose allocations may fail, and which   *)
(* libxl_domain_config_dispose frees as far as the configuration leads to  *)
(* it. An array under construction hangs on a local pointer only until it  *)
(* is entered, with its length, in the configuration.                      *)
(*                                                                         *)
(* The parts come in the code's order. A direct part is one string (or the *)
(* bitmap) in the configuration itself; an array part has Size[p] elements *)
(* with Strings(p) strings each. Size[p] = 0 where the plan has no such    *)
(* part. An object is [part, elem, field]; field 0 of element 0 is a       *)
(* direct part's string or the array itself. The names say Build because   *)
(* the theorems, in Cockpit_proofs, stand beside those of the cockpit.     *)
(***************************************************************************)
EXTENDS GuestPlan

CONSTANT Size

Order == <<"name", "avail_vcpus", "bootloader", "disks", "nics",
           "vfbs", "vkbs", "listen", "keymap", "pcidevs">>
Parts  == {Order[k] : k \in 1 .. Len(Order)}
Arrays == {"disks", "nics", "vfbs", "vkbs", "pcidevs"}

Strings(p) == IF p \in {"disks", "vfbs"} THEN 2 ELSE IF p = "nics" THEN 1 ELSE 0

(* The sizes a plan gives rise to.                                         *)
SizeOf(plan) ==
    [p \in Parts |->
        CASE p = "disks"               -> Len(plan.disks)
          [] p = "nics"                -> Len(plan.nics)
          [] p = "pcidevs"             -> Len(plan.pci)
          [] p = "bootloader"          -> IF plan.bootloader = Nothing THEN 0 ELSE 1
          [] p \in {"vfbs", "vkbs"}     -> IF plan.display = "pv_vnc" THEN 1 ELSE 0
          [] p \in {"listen", "keymap"} -> IF plan.display = "hvm_vnc" THEN 1 ELSE 0
          [] OTHER                     -> 1]

VARIABLES
    stage,    \* the part being built, a position in Order
    open,     \* its array is allocated and not yet in the configuration
    elem,     \* the element of the array being filled
    field,    \* its next string
    mem,      \* the objects allocated and not freed
    num,      \* the lengths entered in the configuration, -1: no array yet
    outcome   \* "building", "failed", "built", "dropped"

buildVars == <<stage, open, elem, field, mem, num, outcome>>

Object(p, e, f) == [part |-> p, elem |-> e, field |-> f]

BuildInit ==
    /\ stage = 1 /\ open = FALSE /\ elem = 0 /\ field = 1
    /\ mem = {} /\ num = [p \in Arrays |-> -1] /\ outcome = "building"

(* What dispose frees: the direct parts, and of each array entered itself  *)
(* and the strings of the elements that its length counts.                 *)
Reached(counts) ==
    {o \in mem : \/ o.part \notin Arrays
                 \/ counts[o.part] # -1 /\ (o.field = 0 \/ o.elem < counts[o.part])}

Building == outcome = "building" /\ stage <= Len(Order)
Part     == Order[stage]

NextPart == stage' = stage + 1 /\ elem' = 0 /\ field' = 1

(* The plan has no such part: its block is not entered.                    *)
Skip ==
    /\ Building /\ ~open /\ Size[Part] = 0
    /\ NextPart
    /\ UNCHANGED <<open, mem, num, outcome>>

(* strdup or libxl_bitmap_alloc of a field of the configuration itself.    *)
Direct ==
    /\ Building /\ Part \notin Arrays /\ Size[Part] > 0
    /\ mem' = mem \cup {Object(Part, 0, 0)}
    /\ NextPart
    /\ UNCHANGED <<open, num, outcome>>

(* calloc: into a local pointer.                                           *)
Calloc ==
    /\ Building /\ ~open /\ Part \in Arrays /\ Size[Part] > 0
    /\ open' = TRUE
    /\ mem' = mem \cup {Object(Part, 0, 0)}
    /\ UNCHANGED <<stage, elem, field, num, outcome>>

(* strdup of the next string of the element.                               *)
Strdup ==
    /\ Building /\ open /\ elem < Size[Part] /\ field <= Strings(Part)
    /\ mem' = mem \cup {Object(Part, elem, field)}
    /\ field' = field + 1
    /\ UNCHANGED <<stage, open, elem, num, outcome>>

NextElement ==
    /\ Building /\ open /\ elem < Size[Part] /\ field > Strings(Part)
    /\ elem' = elem + 1
    /\ field' = 1
    /\ UNCHANGED <<stage, open, mem, num, outcome>>

(* dc.disks = arr; dc.num_disks = n.                                       *)
Enter ==
    /\ Building /\ open /\ elem = Size[Part]
    /\ num' = [num EXCEPT ![Part] = Size[Part]]
    /\ open' = FALSE
    /\ NextPart
    /\ UNCHANGED <<mem, outcome>>

(* An allocation of a direct part or of an array fails: dispose.           *)
AllocFails ==
    /\ Building /\ ~open /\ Size[Part] > 0
    /\ mem' = mem \ Reached(num)
    /\ outcome' = "failed"
    /\ UNCHANGED <<stage, open, elem, field, num>>

(* strdup fails inside an array: the array is entered up to and with the   *)
(* element at hand, then dispose.                                          *)
Partial == [num EXCEPT ![Part] = elem + 1]

StrdupFails ==
    /\ Building /\ open /\ elem < Size[Part] /\ field <= Strings(Part)
    /\ num' = Partial
    /\ mem' = mem \ Reached(Partial)
    /\ outcome' = "failed"
    /\ UNCHANGED <<stage, open, elem, field>>

Built ==
    /\ outcome = "building" /\ stage > Len(Order)
    /\ outcome' = "built"
    /\ UNCHANGED <<stage, open, elem, field, mem, num>>

(* libxl_domain_create_new has read the configuration; Drop disposes of it *)
(* whatever that returned.                                                 *)
Drop ==
    /\ outcome = "built"
    /\ mem' = mem \ Reached(num)
    /\ outcome' = "dropped"
    /\ UNCHANGED <<stage, open, elem, field, num>>

BuildNext ==
    \/ Skip \/ Direct \/ Calloc \/ Strdup \/ NextElement \/ Enter
    \/ AllocFails \/ StrdupFails \/ Built \/ Drop

BuildSpec == BuildInit /\ [][BuildNext]_buildVars

-----------------------------------------------------------------------------

Last == 10

BuildTypes ==
    /\ stage \in 1 .. Last + 1 /\ open \in BOOLEAN
    /\ elem \in Nat /\ field \in Nat \ {0}
    /\ num \in [Arrays -> Int]
    /\ outcome \in {"building", "failed", "built", "dropped"}

(* Whichever allocation fails, and after every domain creation, nothing    *)
(* that was allocated for the configuration is left.                       *)
NothingLeaks == outcome \in {"failed", "dropped"} => mem = {}

(* What libxl_domain_create_new is given is all there: every array of the  *)
(* plan is entered with its full length and every string of it allocated.  *)
Stored(p) ==
    Size[p] > 0 =>
        /\ Object(p, 0, 0) \in mem
        /\ p \in Arrays =>
             /\ num[p] = Size[p]
             /\ \A e \in 0 .. Size[p] - 1, f \in 1 .. Strings(p) : Object(p, e, f) \in mem
Whole(k) == \A j \in 1 .. Len(Order) : j < k => Stored(Order[j])

HandedWhole == outcome = "built" => Whole(Len(Order) + 1)

=============================================================================
