-------------------------------- MODULE Sll --------------------------------
(***************************************************************************)
(* libsll: singly linked lists of nodes that the caller allocates, with a  *)
(* pointer to the data of each.  The lists of the mail client (addresses,  *)
(* server capabilities, attachments) are lists of this kind.               *)
(***************************************************************************)
EXTENDS Integers, FiniteSets, Sequences

CONSTANTS
  SllNodes,    \* where nodes may be allocated
  SllNames,    \* the list heads of the program
  SllValues,   \* what the data of a node compares as
  SllNil       \* the null pointer

ASSUME SllAssumption ==
  IsFiniteSet(SllNodes) /\ SllNil \notin SllNodes /\ SllValues \subseteq Int

VARIABLES
  sllHead,     \* the head pointers
  sllNext,     \* the next field of every node
  sllData,     \* the data that a node points to
  sllMemory,   \* the nodes that are allocated, and the data that is
  sllNew       \* the node that the caller has allocated and not yet linked

sllVars == <<sllHead, sllNext, sllData, sllMemory, sllNew>>

(* The program's heads are static variables or set by initList.            *)
SllInit ==
  /\ sllHead = [l \in SllNames |-> SllNil]
  /\ sllNext = [n \in SllNodes |-> SllNil]
  /\ sllData \in [SllNodes -> {CHOOSE v \in SllValues : TRUE}]
  /\ sllMemory = [nodes |-> {}, data |-> {}]
  /\ sllNew = SllNil

-----------------------------------------------------------------------------
(* Walking: the node after i steps from p; i never exceeds the nodes.      *)

Walk(p, i) ==
  LET f[k \in 0 .. i] ==
        IF k = 0 THEN p
        ELSE IF f[k - 1] = SllNil THEN SllNil ELSE sllNext[f[k - 1]]
  IN f[i]

NumNodes(head) ==
  Cardinality({i \in 0 .. Cardinality(SllNodes) - 1 : Walk(head, i) # SllNil})

(* getNthNode: positions start at 1.                                       *)
GetNthNode(head, n) == Walk(head, n - 1)
EmptyList(head) == head = SllNil
OnList(head) == {GetNthNode(head, i) : i \in 1 .. NumNodes(head)}
LastNode(head) == GetNthNode(head, NumNodes(head))

-----------------------------------------------------------------------------
(* Operations.                                                             *)

Sets(l, p) == sllHead' = [sllHead EXCEPT ![l] = p]
Links(n, p) == sllNext' = [sllNext EXCEPT ![n] = p]
Linked == sllNew' = SllNil /\ UNCHANGED <<sllData, sllMemory>>

(* allocateNode; malloc may find nothing.                                  *)
AllocateNode ==
  /\ sllNew = SllNil
  /\ \E n \in SllNodes \ sllMemory.nodes, v \in SllValues :
       /\ sllNew' = n
       /\ sllData' = [sllData EXCEPT ![n] = v]
       /\ sllMemory' = [nodes |-> sllMemory.nodes \cup {n},
                        data |-> sllMemory.data \cup {n}]
       /\ Links(n, SllNil)
  /\ UNCHANGED sllHead

AppendNode(l) ==
  /\ sllNew # SllNil /\ Linked
  /\ IF EmptyList(sllHead[l]) THEN Sets(l, sllNew) /\ UNCHANGED sllNext
     ELSE Links(LastNode(sllHead[l]), sllNew) /\ UNCHANGED sllHead

InsertNode(l) ==
  /\ sllNew # SllNil /\ Linked
  /\ Links(sllNew, sllHead[l]) /\ Sets(l, sllNew)

(* appendNodeSorted: before the head if that is greater, else after the    *)
(* last node that the next one is not greater than the new one behind.     *)
Greater(p) == sllData[p] > sllData[sllNew]
AppendNodeSorted(l) ==
  /\ sllNew # SllNil /\ Linked
  /\ IF EmptyList(sllHead[l]) THEN Sets(l, sllNew) /\ UNCHANGED sllNext
     ELSE IF Greater(sllHead[l]) THEN Links(sllNew, sllHead[l]) /\ Sets(l, sllNew)
     ELSE \E i \in 1 .. NumNodes(sllHead[l]) :
            LET tmp(j) == GetNthNode(sllHead[l], j)
                Stops(j) == sllNext[tmp(j)] # SllNil => Greater(sllNext[tmp(j)])
            IN /\ Stops(i) /\ \A j \in 1 .. i - 1 : ~Stops(j)
               /\ sllNext' = [sllNext EXCEPT ![sllNew] = sllNext[tmp(i)], ![tmp(i)] = sllNew]
               /\ UNCHANGED sllHead

(* delNode: a node that is not on the list stays as it is.  Mutant: the    *)
(* node before it is not told.                                             *)
DelNodeUnlinked(l, node) ==
  /\ IF sllHead[l] = node THEN Sets(l, sllNext[node]) ELSE UNCHANGED sllHead
  /\ UNCHANGED sllNext
DelNode(l, node) ==
  IF sllHead[l] = node THEN Sets(l, sllNext[node]) /\ UNCHANGED sllNext
  ELSE /\ \E p \in OnList(sllHead[l]) :
            sllNext[p] = node /\ Links(p, sllNext[node])
       /\ UNCHANGED sllHead

(* destroyNode: the data goes first, whether or not the node is on the     *)
(* list; the callers give a node of the list.                              *)
DestroyNode(l) ==
  /\ \E i \in 1 .. NumNodes(sllHead[l]) :
       LET node == GetNthNode(sllHead[l], i)
       IN /\ DelNode(l, node)
          /\ sllMemory' = [nodes |-> sllMemory.nodes \ {node},
                           data |-> sllMemory.data \ {node}]
  /\ UNCHANGED <<sllData, sllNew>>

DestroyNodes(l) ==
  /\ sllHead[l] # SllNil /\ Sets(l, SllNil)
  /\ sllMemory' = [nodes |-> sllMemory.nodes \ OnList(sllHead[l]),
                   data |-> sllMemory.data \ OnList(sllHead[l])]
  /\ UNCHANGED <<sllNext, sllData, sllNew>>

SllNext ==
  \/ AllocateNode
  \/ \E l \in SllNames : \/ AppendNode(l) \/ InsertNode(l) \/ AppendNodeSorted(l)
                         \/ DestroyNode(l) \/ DestroyNodes(l)

SllSpec == SllInit /\ [][SllNext]_sllVars

-----------------------------------------------------------------------------
(* Properties.                                                             *)

SllTypeOK ==
  /\ \A l \in SllNames : sllHead[l] \in SllNodes \cup {SllNil}
  /\ sllNew \in sllMemory.nodes \cup {SllNil}
  /\ sllMemory.nodes \subseteq SllNodes /\ sllMemory.data \subseteq SllNodes

(* Every allocated node is on exactly one list, once, or is the one that   *)
(* the caller still holds; no list runs into a node or into data that was  *)
(* freed, and none runs in a circle (sll.c:91-383).                        *)
NodesAreOnOneList ==
  LET held == IF sllNew = SllNil THEN {} ELSE {sllNew}
  IN /\ sllMemory.nodes = held \cup UNION {OnList(sllHead[l]) : l \in SllNames}
     /\ sllMemory.nodes = sllMemory.data
     /\ \A l \in SllNames :
          /\ Walk(sllHead[l], Cardinality(SllNodes)) = SllNil
          /\ Cardinality(OnList(sllHead[l])) = NumNodes(sllHead[l])
          /\ held \cap OnList(sllHead[l]) = {}
          /\ \A m \in SllNames \ {l} : OnList(sllHead[l]) \cap OnList(sllHead[m]) = {}

(* The lists are the sequences that SeqLists describes.                    *)
Sequence(l) ==
  [i \in 1 .. NumNodes(sllHead[l]) |-> sllData[GetNthNode(sllHead[l], i)]]
Abstract == INSTANCE SeqLists WITH ListNames <- SllNames, ListValues <- SllValues,
                                   lists <- [l \in SllNames |-> Sequence(l)]
IsSequences == Abstract!ListSpec
=============================================================================
