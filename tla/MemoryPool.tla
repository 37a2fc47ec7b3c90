----------------------------- MODULE MemoryPool -----------------------------
(***************************************************************************)
(* FixedSizeMemoryPool (memory_pool.h): blocks of one size on two doubly   *)
(* linked lists threaded through the blocks, those in use and those free.  *)
(* A fresh block is what malloc returns: its `prev` holds whatever was in  *)
(* that memory.                                                            *)
(***************************************************************************)
EXTENDS Integers, FiniteSets, Functions

CONSTANTS
    Block,
    Null,
    Wild,     \* an address that is no block of the pool
    Leftover  \* what the memory malloc returns may hold where `prev` is

ASSUME PoolAssumption ==
    /\ IsFiniteSet(Block)
    /\ Null \notin Block /\ Wild \notin Block /\ Null # Wild
    /\ Leftover \subseteq Block \cup {Null, Wild} /\ Leftover # {}

VARIABLES
    free,      \* free_
    allocated, \* allocated_
    prev,
    next,
    owned,     \* blocks taken from malloc
    used       \* blocks the caller has

poolVars == <<free, allocated, prev, next, owned, used>>

\* p->prev = v, and p->next = v, where the code has asked whether p is null.
SetPrev(f, p, v) == IF p \in Block THEN [f EXCEPT ![p] = v] ELSE f
SetNext(f, p, v) == IF p \in Block THEN [f EXCEPT ![p] = v] ELSE f

-----------------------------------------------------------------------------

\* Allocate(Block*): the block becomes the first of those in use.
PushAllocated(b) ==
    /\ next' = [next EXCEPT ![b] = allocated]
    /\ allocated' = b
    /\ used' = used \cup {b}

\* Allocate without a free block.
AllocateFresh(b) ==
    /\ free = Null /\ b \notin owned
    /\ owned' = owned \cup {b}
    /\ \E rest \in Leftover : prev' = SetPrev([prev EXCEPT ![b] = rest], allocated, b)
    /\ PushAllocated(b)
    /\ UNCHANGED free

\* Allocate takes the block that was freed last.
AllocateFree ==
    /\ free # Null
    /\ free' = next[free]
    /\ prev' = SetPrev(SetPrev(prev, next[free], Null), allocated, free)
    /\ PushAllocated(free)
    /\ UNCHANGED owned

\* Variant: the list of those in use is not unlinked but at its head.
FreeKeepsLink(b) ==
    /\ b \in used
    /\ used' = used \ {b}
    /\ allocated' = IF b = allocated THEN next[b] ELSE allocated
    /\ prev' = SetPrev([prev EXCEPT ![b] = Null], free, b)
    /\ next' = [next EXCEPT ![b] = free]
    /\ free' = b
    /\ UNCHANGED owned

\* Free(Block*).  The prev of the first block may be what malloc left there:
\* it is copied to the next block and written through.  What a write
\* outside the pool damages is not followed.
Free(b) ==
    /\ b \in used
    /\ used' = used \ {b}
    /\ allocated' = IF b = allocated THEN next[b] ELSE allocated
    /\ LET head == IF b = allocated THEN SetPrev(prev, next[b], Null) ELSE prev
           before == head[b]
           bridged == SetPrev(head, next[b], before)
       IN /\ prev' = SetPrev([bridged EXCEPT ![b] = Null], free, b)
          /\ next' = [SetNext(next, before, next[b]) EXCEPT ![b] = free]
    /\ free' = b
    /\ UNCHANGED owned

-----------------------------------------------------------------------------

PoolInit ==
    /\ free = Null /\ allocated = Null
    /\ prev = [b \in Block |-> Null] /\ next = [b \in Block |-> Null]
    /\ owned = {} /\ used = {}

PoolNext ==
    \/ AllocateFree
    \/ \E b \in Block : AllocateFresh(b) \/ Free(b)

PoolSpec == PoolInit /\ [][PoolNext]_poolVars

-----------------------------------------------------------------------------
(* Properties. *)

\* The walk of FreeBlock from a block, as far as the blocks go.
Walk(from) ==
    LET at[i \in 0..Cardinality(Block)] ==
          IF i = 0 THEN from ELSE IF at[i - 1] \in Block THEN next[at[i - 1]] ELSE at[i - 1]
    IN at

\* The blocks FreeBlock frees, if it ends.
Chain(from) == Range(Walk(from)) \cap Block
Terminates(from) == Walk(from)[Cardinality(Block)] = Null

\* The destructor frees each block once: after any sequence of calls one list
\* holds the blocks in use and the other the rest, and both end.
EachBlockOnOneList ==
    /\ Terminates(allocated) /\ Chain(allocated) = used
    /\ Terminates(free) /\ Chain(free) = owned \ used

\* The lists are linked in both directions, which Free relies on to take a
\* block out of the middle.
LinkedBothWays ==
    \A b \in owned : next[b] # Null => prev[next[b]] = b

\* The destructor frees each block once and Free unlinks what it is given,
\* after any sequence of calls (memory_pool.h:45-72).
ListsAreWhole == EachBlockOnOneList /\ LinkedBothWays
=============================================================================
