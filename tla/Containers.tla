------------------------------ MODULE Containers ------------------------------
(***************************************************************************)
(* The containers, the owning classes and the sort side by side, as part   *)
(* of Routines: routine is the component that main uses, and the others    *)
(* stay as they were constructed.                                          *)
(***************************************************************************)
EXTENDS Naturals

CONSTANTS Numbers, MaxHeapSize,                     \* of MinHeap (Numbers also below)
          ListNodes,                                \* of LinkedList
          Keys, Hash, Default, MaxInsertions,       \* of HashTable
          StackCapacity, MaxSize,                   \* of Vec
          Strings, Nul, MaxText,                    \* of CharString
          MaxFd,                                    \* of RuleOfFive
          ArraySize,                                \* of MiniSort
          Objects, Pointers, Blocks, Contents, Null, NoObject  \* shared with Routines

VARIABLES routine,
          h_data,
          head, live, elem, next, prev,
          table, len,
          stack_vec, heap_vec, vec_size, vec_capacity,
          t_data, str_len, chars,
          u_data, u_alive,
          r_data, sockfd, r_alive, open,
          input, arr, pending, left, right, pivot

Heap == INSTANCE MinHeap WITH Values <- Numbers, data <- h_data
List == INSTANCE LinkedList WITH Nodes <- ListNodes, Elements <- Contents
Table == INSTANCE HashTable WITH Values <- Contents, MaxLen <- MaxInsertions
Vector == INSTANCE Vec WITH Elements <- Contents, N <- StackCapacity
Text == INSTANCE CharString WITH Buffers <- Blocks, Chars <- Contents, MaxLen <- MaxText, data <- t_data
Unique == INSTANCE UniquePointer WITH data <- u_data, alive <- u_alive
Five == INSTANCE RuleOfFive WITH data <- r_data, alive <- r_alive
Sort == INSTANCE MiniSort WITH Values <- Numbers, N <- ArraySize

ContainersAssumption ==
    /\ Heap!HeapAssumption /\ List!LinkedListAssumption /\ Table!HashTableAssumption
    /\ Vector!VecAssumption /\ Text!StringAssumption /\ Five!RuleOfFiveAssumption
    /\ Sort!SortAssumption

heapVars == h_data
listVars == <<head, live, elem, next, prev>>
tableVars == <<table, len>>
vectorVars == <<stack_vec, heap_vec, vec_size, vec_capacity>>
textVars == <<t_data, str_len, chars>>
uniqueVars == <<u_data, u_alive>>
fiveVars == <<r_data, sockfd, r_alive, open>>
sortVars == <<input, arr, pending, left, right, pivot>>

containerVars ==
    <<heapVars, listVars, tableVars, vectorVars, textVars, uniqueVars, fiveVars, sortVars>>

ContainerNames == {"heap", "linked_list", "hash_table", "vec", "string", "unique_ptr",
                   "ro5", "ro5_copies", "iterator"}

ContainersInit ==
    /\ Heap!Init /\ List!Init /\ Table!Init /\ Vector!Init
    /\ Text!Init /\ Unique!Init /\ Five!Init /\ Sort!Init
    /\ routine # "iterator" => input = [i \in 0 .. ArraySize - 1 |-> CHOOSE v \in Numbers : TRUE]

HeapStep ==
    /\ routine = "heap" /\ Heap!Next
    /\ UNCHANGED <<listVars, tableVars, vectorVars, textVars, uniqueVars, fiveVars, sortVars>>

ListStep ==
    /\ routine = "linked_list" /\ List!Next
    /\ UNCHANGED <<heapVars, tableVars, vectorVars, textVars, uniqueVars, fiveVars, sortVars>>

TableStep ==
    /\ routine = "hash_table" /\ Table!Next
    /\ UNCHANGED <<heapVars, listVars, vectorVars, textVars, uniqueVars, fiveVars, sortVars>>

VectorStep ==
    /\ routine = "vec" /\ Vector!Next
    /\ UNCHANGED <<heapVars, listVars, tableVars, textVars, uniqueVars, fiveVars, sortVars>>

TextStep ==
    /\ routine = "string" /\ Text!Next
    /\ UNCHANGED <<heapVars, listVars, tableVars, vectorVars, uniqueVars, fiveVars, sortVars>>

UniqueStep ==
    /\ routine = "unique_ptr" /\ Unique!Next
    /\ UNCHANGED <<heapVars, listVars, tableVars, vectorVars, textVars, fiveVars, sortVars>>

FiveStep ==
    /\ \/ routine = "ro5" /\ Five!Next
       \/ routine = "ro5_copies" /\ Five!CopyNext
    /\ UNCHANGED <<heapVars, listVars, tableVars, vectorVars, textVars, uniqueVars, sortVars>>

SortStep ==
    /\ routine = "iterator" /\ Sort!Next
    /\ UNCHANGED <<heapVars, listVars, tableVars, vectorVars, textVars, uniqueVars, fiveVars>>

ContainersNext ==
    \/ HeapStep \/ ListStep \/ TableStep \/ VectorStep
    \/ TextStep \/ UniqueStep \/ FiveStep \/ SortStep
-----------------------------------------------------------------------------
(***************************************************************************)
(* Type correctness of the containers.                                     *)
(***************************************************************************)
ContainersTypeOK ==
    /\ Heap!TypeOK /\ List!TypeOK /\ Table!TypeOK /\ Vector!TypeOK
    /\ Text!TypeOK /\ Unique!TypeOK /\ Five!TypeOK /\ Sort!TypeOK

(***************************************************************************)
(* Each container keeps its representation in order: the heap of heap.cc   *)
(* its fathers no greater than their children, linked_list one ring in     *)
(* both directions, HashTable one node per key where it is looked for, and *)
(* ministl_sort what lies between its calls sorted, within the array.      *)
(***************************************************************************)
ContainersSound ==
    /\ routine = "heap" => Heap!HeapOrdered /\ Heap!BuildOnlyMoves
    /\ routine = "linked_list" => List!RingsAgree
    /\ routine = "hash_table" => Table!OneNodePerKey
    /\ routine = "iterator" => Sort!SortedAround

(***************************************************************************)
(* What a string, a unique_pointer or an RDerived owns belongs to nobody   *)
(* else and lives exactly as long (a unique_pointer's object for ever);    *)
(* sockets do in programs that do not move.                                *)
(***************************************************************************)
OwnedOnce ==
    /\ routine = "string" => Text!OwnedOnce
    /\ routine = "unique_ptr" => Unique!OwnedOnce
    /\ routine \in {"ro5", "ro5_copies"} => Five!OwnedOnce
    /\ routine = "ro5_copies" => Five!SocketsOwnedOnce

(***************************************************************************)
(* The heap is a priority queue, linked_list a sequence open at both ends, *)
(* HashTable a map, and vec a sequence that grows at its end.              *)
(***************************************************************************)
ImplementsContainers ==
    /\ Heap!ImplementsPriorityQueue /\ List!ImplementsDeque
    /\ Table!ImplementsMap /\ Vector!ImplementsDeque
=============================================================================
