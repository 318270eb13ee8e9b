------------------------------- MODULE Routines -------------------------------
(***************************************************************************)
(* The sequential components side by side.  main (main.cc) calls one       *)
(* routine of those it lists, and each owns its objects: routine is the    *)
(* component in use, and the others stay as they were constructed.  The    *)
(* reference-counting classes appear twice, under all programs and under   *)
(* those that keep to what their counters are made for.                    *)
(***************************************************************************)
EXTENDS Containers, FiniteSets

CONSTANTS NodeSize, Bases, Lens, Handles, NoBlock,  \* of MemoryAllocator
          NodeCapacity, MaxNodes,                   \* of both pools
          Weaks                                     \* of SharedPointer

VARIABLES a_nodes, a_free, left2right, right2left, addr2len, block, failed,
          l_nodes, cur_free_idx, freelist, l_holders, l_lost, objects, l_peak,
          i_nodes, current, free_list, link, i_holders, i_lost, i_peak,
          c_data, c_alive, c_refcnt, vec, c_undefined,
          s_data, weak_ptr_set, shared_ptr, s_alive, s_refcnt, s_undefined

Allocator == INSTANCE MemoryAllocator WITH nodes <- a_nodes, free <- a_free

OPool == INSTANCE ListPool WITH
    nodes <- l_nodes, holders <- l_holders, lost <- l_lost, peak <- l_peak

ObjectPool == INSTANCE IntrusivePool WITH
    nodes <- i_nodes, holders <- i_holders, lost <- i_lost, peak <- i_peak

Cow == INSTANCE CopyOnWrite WITH
    data <- c_data, alive <- c_alive, refcnt <- c_refcnt, undefined <- c_undefined

Shared == INSTANCE SharedPointer WITH
    data <- s_data, alive <- s_alive, refcnt <- s_refcnt, undefined <- s_undefined

ASSUME RoutinesAssumption ==
    /\ Allocator!AllocatorAssumption
    /\ OPool!ListPoolAssumption /\ ObjectPool!IntrusivePoolAssumption
    /\ Cow!CowAssumption /\ Shared!PointerAssumption /\ ContainersAssumption

allocatorVars == <<a_nodes, a_free, left2right, right2left, addr2len, block, failed>>
opoolVars == <<l_nodes, cur_free_idx, freelist, l_holders, l_lost, objects, l_peak>>
objectPoolVars == <<i_nodes, current, free_list, link, i_holders, i_lost, i_peak>>
cowVars == <<c_data, c_alive, c_refcnt, vec, c_undefined>>
sharedVars == <<s_data, weak_ptr_set, shared_ptr, s_alive, s_refcnt, s_undefined>>

storageVars == <<allocatorVars, opoolVars, objectPoolVars, cowVars, sharedVars>>
allVars == <<routine, containerVars, storageVars>>

RoutineNames == {"memory_allocator", "opool", "object_pool", "cow", "cow_copies",
                 "shared_pointer", "shared_pointer_careful"} \cup ContainerNames

Init ==
    /\ routine \in RoutineNames
    /\ Allocator!Init /\ OPool!Init /\ ObjectPool!Init /\ Cow!Init /\ Shared!Init
    /\ ContainersInit
    /\ routine # "memory_allocator" => a_nodes = {CHOOSE b \in Bases : TRUE}

MemoryAllocatorStep ==
    /\ routine = "memory_allocator"
    /\ Allocator!Next
    /\ UNCHANGED <<routine, containerVars, opoolVars, objectPoolVars, cowVars, sharedVars>>

OPoolStep ==
    /\ routine = "opool"
    /\ OPool!Next
    /\ UNCHANGED <<routine, containerVars, allocatorVars, objectPoolVars, cowVars, sharedVars>>

ObjectPoolStep ==
    /\ routine = "object_pool"
    /\ ObjectPool!Next
    /\ UNCHANGED <<routine, containerVars, allocatorVars, opoolVars, cowVars, sharedVars>>

CowStep ==
    /\ \/ routine = "cow" /\ Cow!Next
       \/ routine = "cow_copies" /\ Cow!CopyNext
    /\ UNCHANGED <<routine, containerVars, allocatorVars, opoolVars, objectPoolVars, sharedVars>>

SharedPointerStep ==
    /\ \/ routine = "shared_pointer" /\ Shared!Next
       \/ routine = "shared_pointer_careful" /\ Shared!CarefulNext
    /\ UNCHANGED <<routine, containerVars, allocatorVars, opoolVars, objectPoolVars, cowVars>>

ContainersStep == ContainersNext /\ UNCHANGED <<routine, storageVars>>

Next ==
    \/ MemoryAllocatorStep \/ OPoolStep \/ ObjectPoolStep
    \/ CowStep \/ SharedPointerStep \/ ContainersStep

Spec == Init /\ [][Next]_allVars
-----------------------------------------------------------------------------
(***************************************************************************)
(* Type correctness of every component.                                    *)
(***************************************************************************)
TypeOK ==
    /\ routine \in RoutineNames
    /\ Allocator!TypeOK /\ OPool!TypeOK /\ ObjectPool!TypeOK /\ Cow!TypeOK /\ Shared!TypeOK
    /\ ContainersTypeOK

(***************************************************************************)
(* Free regions and blocks tile the allocator's nodes, release leaves no   *)
(* free regions of a node side by side, and a block lies in one node when  *)
(* no two nodes touch.                                                     *)
(***************************************************************************)
MemoryTiled == Allocator!MemoryTiled /\ Allocator!Coalesced /\ Allocator!BlocksInOneNode

(***************************************************************************)
(* The allocator's three indexes of free regions agree, and the assertions *)
(* of memory_allocator.cc on them hold.                                    *)
(***************************************************************************)
IndexesAgree == Allocator!IndexesAgree /\ Allocator!AssertsHold

(***************************************************************************)
(* In both pools every chunk carved from a node is in exactly one place.   *)
(***************************************************************************)
ChunksAccounted == OPool!ChunksAccounted /\ ObjectPool!ChunksAccounted

(***************************************************************************)
(* Neither pool grows while it has a chunk to use again.                   *)
(***************************************************************************)
NoNeedlessGrowth == OPool!NoNeedlessGrowth /\ ObjectPool!NoNeedlessGrowth

(***************************************************************************)
(* Both pools hand a chunk to one caller at a time.                        *)
(***************************************************************************)
ImplementsPool == OPool!ImplementsPool /\ ObjectPool!ImplementsPool

(***************************************************************************)
(* refcnt counts the owners, and what it counts is gone with its last      *)
(* owner: a Data of cow.cc while objects are only copied, and an object of *)
(* shared_ptr.cc whatever the program does.                                *)
(***************************************************************************)
RefcntCountsOwners ==
    /\ routine = "cow_copies" => Cow!RefcntCountsOwners
    /\ Cow!NothingLeaks
    /\ Shared!RefcntCountsOwners

(***************************************************************************)
(* A change through one COW object is not seen through another, while      *)
(* objects are only copied.                                                *)
(***************************************************************************)
MutationIsPrivate ==
    [][\A o, p \in Objects, c \in Contents :
          routine = "cow_copies" /\ Cow!Mutate(o, c) /\ p # o /\ Cow!Exists(p)
              => c_data'[p] = c_data[p] /\ vec'[c_data[p]] = vec[c_data[p]]]_allVars

(***************************************************************************)
(* Nothing undefined happens to programs that only copy COW objects, or    *)
(* that use shared and weak pointers carefully, whose weak pointers and    *)
(* shared pointers know each other.                                        *)
(***************************************************************************)
WellDefined ==
    /\ routine = "cow_copies" => Cow!WellDefined
    /\ routine = "shared_pointer_careful" => Shared!WellDefined /\ Shared!SubscriptionsAgree
=============================================================================
