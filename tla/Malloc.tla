------------------------------- MODULE Malloc -------------------------------
(***************************************************************************)
(* The heap (core/malloc.c) and the allocation of I/O buffers on it        *)
(* (core/iobuf.c).  Addresses and sizes are numbers of W values, sizes and *)
(* alignments wrap; physical and virtual addresses are the same.  What the *)
(* program keeps on the heap is the set objs; the part of it in cached may *)
(* be given up when an allocation finds no room.                           *)
(***************************************************************************)
EXTENDS Integers, Sequences, FiniteSets, FiniteSetsExt, SequencesExt

CONSTANTS
    W,          \* the number of values of a size_t
    MinBlock,   \* MIN_MEMBLOCK_SIZE
    Hdr,        \* offsetof ( struct autosized_block, data )
    IobSize,    \* sizeof ( struct io_buffer )
    IobAlign,   \* __alignof__ ( struct io_buffer )
    HeapStart, HeapLen,  \* the heap
    MallocSizes,  \* sizes asked of malloc and realloc
    PhysAsked,    \* <<size, alignment>> asked of malloc_phys
    IobAsked,     \* <<length, alignment, offset>> asked of alloc_iob_raw
    MaxObjs       \* bound on the objects that exist

Powers == {2 ^ k : k \in 0..16}

MallocAssumption ==
    /\ {W, MinBlock, IobAlign} \subseteq Powers /\ {Hdr, IobSize, HeapStart, HeapLen} \subseteq Nat
    /\ MinBlock >= Hdr /\ Hdr % IobAlign = 0 /\ MinBlock % IobAlign = 0
    /\ HeapStart + HeapLen < W
    /\ MallocSizes \subseteq 0..W - 1 /\ PhysAsked \subseteq (1..W - 1) \X Powers
    /\ IobAsked \subseteq (0..W - 1) \X (0..W - 1) \X (0..W - 1)

VARIABLES
    free_blocks,  \* the list of free blocks
    freemem, usedmem,
    objs,         \* what is allocated
    cached,       \* the objects a discarder can free
    cur           \* the call of alloc_memblock in progress, and for what

vars == <<free_blocks, freemem, usedmem, objs, cached, cur>>

Wrap(n) == n % W
End(b) == b.addr + b.size
Idle == [op |-> "none"]

RoundDown(n) == n - (n % MinBlock)

(* The size rounded up to a multiple of MIN_MEMBLOCK_SIZE; zero when that  *)
(* overflows                                                               *)
actual_size(size) == RoundDown(Wrap(size + MinBlock - 1))

-----------------------------------------------------------------------------

(* One block of the list, seen by the loop of free_memblock: a block that  *)
(* ends where the freed one starts is taken out and becomes the freed one, *)
(* the first one behind it ends the loop                                   *)
FreeScan(st, block) ==
    LET gap_before == st.freeing.addr - End(block)
        gap_after == block.addr - End(st.freeing)
    IN  IF st.stop THEN [st EXCEPT !.after = Append(@, block)]
        ELSE [freeing |-> IF gap_before = 0
                          THEN [addr |-> block.addr, size |-> block.size + st.freeing.size]
                          ELSE st.freeing,
              gap_after |-> gap_after, stop |-> gap_after >= 0,
              before |-> IF gap_before = 0 \/ gap_after >= 0 THEN st.before
                         ELSE Append(st.before, block),
              after |-> IF gap_after >= 0 THEN <<block>> ELSE <<>>]

(* The list after free_memblock *)
FreeList(list, ptr, size) ==
    LET st == FoldLeft(FreeScan,
                       [freeing |-> [addr |-> ptr, size |-> actual_size(size)],
                        gap_after |-> -1, stop |-> FALSE, before |-> <<>>, after |-> <<>>],
                       list)
    IN  IF st.gap_after = 0
        THEN st.before \o <<[st.freeing EXCEPT !.size = @ + Head(st.after).size]>>
             \o Tail(st.after)
        ELSE st.before \o <<st.freeing>> \o st.after

(* The list and the statistics, and free_memblock on them *)
Heap == [list |-> free_blocks, freemem |-> freemem, usedmem |-> usedmem]

free_memblock(H, ptr, size) ==
    [list |-> FreeList(H.list, ptr, size),
     freemem |-> Wrap(H.freemem + actual_size(size)),
     usedmem |-> Wrap(H.usedmem - actual_size(size))]

HeapBecomes(H) ==
    free_blocks' = H.list /\ freemem' = H.freemem /\ usedmem' = H.usedmem

-----------------------------------------------------------------------------
(* The alignment that align_mask stands for *)
AlignMod(align) == IF align = 0 THEN W ELSE Max({align, MinBlock})

PreSize(block, align, offset) == (offset - block.addr) % AlignMod(align)

(* The search of alloc_memblock: the blocks with enough space *)
Fitting(list, size, align, offset) ==
    {i \in DOMAIN list :
        LET pre == PreSize(list[i], align, offset)
        IN  list[i].size >= pre /\ list[i].size - pre >= actual_size(size)}

(* The block is split; a piece in front or behind that is too small is lost *)
Split(list, i, size, align, offset) ==
    LET pre_size == PreSize(list[i], align, offset)
        pre == [list[i] EXCEPT !.size = pre_size]
        post == [addr |-> list[i].addr + pre_size + actual_size(size),
                 size |-> list[i].size - pre_size - actual_size(size)]
    IN  SubSeq(list, 1, i - 1)
        \o (IF pre.size >= MinBlock THEN <<pre>> ELSE <<>>)
        \o (IF post.size >= MinBlock THEN <<post>> ELSE <<>>)
        \o SubSeq(list, i + 1, Len(list))

(* alloc_memblock when a block fits: the heap and the address it returns *)
Asking == cur.op \in {"realloc", "phys", "iob", "iobdata", "iobdesc"}

Fits ==
    /\ Asking /\ actual_size(cur.size) # 0
    /\ Fitting(free_blocks, cur.size, cur.align, cur.offset) # {}

TakeBlock ==
    LET i == Min(Fitting(free_blocks, cur.size, cur.align, cur.offset))
    IN  [ptr |-> free_blocks[i].addr + PreSize(free_blocks[i], cur.align, cur.offset),
         heap |-> [list |-> Split(free_blocks, i, cur.size, cur.align, cur.offset),
                   freemem |-> Wrap(freemem - actual_size(cur.size)),
                   usedmem |-> Wrap(usedmem + actual_size(cur.size))]]

-----------------------------------------------------------------------------
(* Objects: blocks with their size in front, blocks from malloc_phys, and  *)
(* I/O buffers from head to end with their descriptor.  asked is what the  *)
(* caller wanted, got what alloc_memblock gave for it.                     *)
AutoObj(ptr, size) ==
    [kind |-> "auto", ptr |-> ptr, size |-> size, asked |-> <<size, 1, 0>>, got |-> {<<ptr, size>>}]
PhysObj(ptr, size, align) ==
    [kind |-> "phys", ptr |-> ptr, size |-> size, asked |-> <<size, align, 0>>, got |-> {<<ptr, size>>}]
IobObj(head, len, desc, asked, got) ==
    [kind |-> "iob", ptr |-> head, size |-> len, desc |-> desc, asked |-> asked, got |-> got]

(* Mutant: a descriptor that follows the buffer is taken for one of its own *)
IobDetached(H, o) ==
    free_memblock(free_memblock(H, o.ptr, o.size), o.desc - Hdr, IobSize + Hdr)

free_iob(H, o) ==
    IF o.ptr + o.size = o.desc
    THEN free_memblock(H, o.ptr, o.size + IobSize)
    ELSE free_memblock(free_memblock(H, o.ptr, o.size), o.desc - Hdr, IobSize + Hdr)

(* free, free_phys or free_iob *)
Release(H, o) == IF o.kind = "iob" THEN free_iob(H, o) ELSE free_memblock(H, o.ptr, o.size)

-----------------------------------------------------------------------------
(* init_heap: mpopulate *)
Init ==
    /\ free_blocks = <<[addr |-> HeapStart, size |-> RoundDown(HeapLen)]>>
    /\ freemem = RoundDown(HeapLen) /\ usedmem = 0
    /\ objs = {} /\ cached = {} /\ cur = Idle

Calling == cur.op = "none" /\ Cardinality(objs) < MaxObjs

(* realloc, and with it malloc (no old object) and free (no size) *)
realloc(old, new_size) ==
    LET total == Wrap(new_size + Hdr)
    IN  /\ cur.op = "none" /\ old \subseteq {o \in objs \ cached : o.kind = "auto"}
        /\ Cardinality(old) <= 1
        /\ IF new_size = 0
           THEN /\ \E o \in old : HeapBecomes(Release(Heap, o)) /\ objs' = objs \ old
                /\ UNCHANGED <<cached, cur>>
           ELSE /\ total >= new_size /\ Calling
                /\ cur' = [op |-> "realloc", size |-> total, align |-> 1, offset |-> 0, old |-> old]
                /\ UNCHANGED <<free_blocks, freemem, usedmem, objs, cached>>

malloc_phys(size, align) ==
    /\ Calling
    /\ cur' = [op |-> "phys", size |-> size, align |-> align, offset |-> 0]
    /\ UNCHANGED <<free_blocks, freemem, usedmem, objs, cached>>

Free ==
    /\ cur.op = "none"
    /\ \E o \in {x \in objs \ cached : x.kind # "auto"} :
         HeapBecomes(Release(Heap, o)) /\ objs' = objs \ {o}
    /\ UNCHANGED <<cached, cur>>

(* alloc_iob_raw: the alignment is rounded up to a power of two no smaller *)
(* than the padding; a short buffer takes its descriptor with it           *)
alloc_iob_raw(len, align, offset) ==
    LET padding == IobSize + IobAlign - 1
        a == Min({n \in Powers : n >= Max({align, padding})})
        inline == len <= a - padding
        len1 == IF inline THEN Wrap(len + ((-len - offset) % IobAlign)) ELSE len
    IN  /\ Calling /\ a < W
        /\ cur' = [op |-> IF inline THEN "iob" ELSE "iobdata", len |-> len1,
                   size |-> IF inline THEN Wrap(len1 + IobSize) ELSE len1,
                   align |-> a, offset |-> offset, asked |-> <<len, align, offset>>]
        /\ UNCHANGED <<free_blocks, freemem, usedmem, objs, cached>>

-----------------------------------------------------------------------------
(* alloc_memblock succeeds, and its caller goes on: realloc frees the old  *)
(* block (what was in it has been copied), alloc_iob_raw asks for the      *)
(* descriptor of a long buffer                                             *)
Allocated ==
    LET T == TakeBlock
        got == <<T.ptr, cur.size>>
    IN  /\ Fits /\ UNCHANGED cached
        /\ CASE cur.op = "realloc" ->
                  /\ HeapBecomes(IF cur.old = {} THEN T.heap
                                 ELSE Release(T.heap, CHOOSE o \in cur.old : TRUE))
                  /\ objs' = (objs \ cur.old) \cup {AutoObj(T.ptr, cur.size)} /\ cur' = Idle
             [] cur.op = "phys" ->
                  /\ HeapBecomes(T.heap) /\ cur' = Idle
                  /\ objs' = objs \cup {PhysObj(T.ptr, cur.size, cur.align)}
             [] cur.op = "iob" ->
                  /\ HeapBecomes(T.heap) /\ cur' = Idle
                  /\ objs' = objs \cup {IobObj(T.ptr, cur.len, T.ptr + cur.len, cur.asked, {got})}
             [] cur.op = "iobdata" ->
                  /\ HeapBecomes(T.heap) /\ UNCHANGED objs
                  /\ cur' = [op |-> "iobdesc", size |-> IobSize + Hdr, align |-> 1, offset |-> 0,
                             data |-> T.ptr, len |-> cur.len, asked |-> cur.asked]
             [] cur.op = "iobdesc" ->
                  /\ HeapBecomes(T.heap) /\ cur' = Idle
                  /\ objs' = objs \cup {IobObj(cur.data, cur.len, T.ptr + Hdr, cur.asked,
                                               {got, <<cur.data, cur.len>>})}

(* discard_cache frees one object, for alloc_memblock or on shutdown *)
discard_cache ==
    /\ \/ Asking /\ ~Fits /\ actual_size(cur.size) # 0
       \/ cur.op = "shutdown"
    /\ \E o \in cached :
         HeapBecomes(Release(Heap, o)) /\ objs' = objs \ {o} /\ cached' = cached \ {o}
    /\ UNCHANGED cur

(* alloc_memblock returns NULL, and so does its caller *)
Failed ==
    /\ Asking /\ ~Fits /\ (cached = {} \/ actual_size(cur.size) = 0)
    /\ IF cur.op = "iobdesc" THEN HeapBecomes(free_memblock(Heap, cur.data, cur.len))
       ELSE UNCHANGED <<free_blocks, freemem, usedmem>>
    /\ cur' = Idle /\ UNCHANGED <<objs, cached>>

(* An object goes to a cache: a discarder can free it from now on *)
Cache ==
    /\ cur.op = "none" /\ \E o \in objs \ cached : cached' = cached \cup {o}
    /\ UNCHANGED <<free_blocks, freemem, usedmem, objs, cur>>

shutdown_cache ==
    /\ \/ cur.op = "none" /\ cached # {} /\ cur' = [op |-> "shutdown"]
       \/ cur.op = "shutdown" /\ cached = {} /\ cur' = Idle
    /\ UNCHANGED <<free_blocks, freemem, usedmem, objs, cached>>

Next ==
    \/ \E n \in MallocSizes \cup {0} : \E old \in {{}} \cup {{o} : o \in objs} : realloc(old, n)
    \/ \E a \in PhysAsked : malloc_phys(a[1], a[2])
    \/ \E a \in IobAsked : alloc_iob_raw(a[1], a[2], a[3])
    \/ Free \/ Allocated \/ discard_cache \/ Failed \/ Cache \/ shutdown_cache

Spec == Init /\ [][Next]_vars

-----------------------------------------------------------------------------
LiveBlocks == {[addr |-> g[1], size |-> actual_size(g[2])] : g \in UNION {o.got : o \in objs}}
          \cup (IF cur.op = "iobdesc" THEN {[addr |-> cur.data, size |-> actual_size(cur.len)]}
                ELSE {})
Bytes(b) == b.addr..End(b) - 1
FreeBytes == UNION {Bytes(b) : b \in ToSet(free_blocks)}
UsedBytes == UNION {Bytes(b) : b \in LiveBlocks}
HeapBytes == HeapStart..HeapStart + RoundDown(HeapLen) - 1
Lost == HeapBytes \ (FreeBytes \cup UsedBytes)

(* check_blocks: the blocks of the list are in ascending order, adjacent   *)
(* ones have been merged and none is too small                             *)
FreeListSound ==
    \A i \in DOMAIN free_blocks :
        /\ free_blocks[i].size >= MinBlock
        /\ i > 1 => free_blocks[i].addr > End(free_blocks[i - 1])

(* alloc_memblock and free_memblock: no byte is both free and allocated or *)
(* allocated twice, all are on the heap, and usedmem and freemem count     *)
(* the allocated ones and the rest                                         *)
Disjoint ==
    /\ FreeBytes \cap UsedBytes = {} /\ FreeBytes \cup UsedBytes \subseteq HeapBytes
    /\ \A b, c \in LiveBlocks : b = c \/ Bytes(b) \cap Bytes(c) = {}
    /\ usedmem = Cardinality(UsedBytes)
    /\ freemem = Cardinality(HeapBytes) - usedmem

(* alloc_memblock fails, or discards, only if nothing of the size and the  *)
(* alignment asked for fits in between the blocks in use                   *)
NoRoom ==
    Asking /\ ~Fits /\ actual_size(cur.size) # 0 =>
        \A a \in {x \in FreeBytes : (x - cur.offset) % AlignMod(cur.align) = 0} :
            ~(a..a + actual_size(cur.size) - 1 \subseteq FreeBytes)

(* malloc_phys, alloc_iob_raw: an object is aligned as asked and no        *)
(* smaller; the descriptor of a buffer is aligned, outside the buffer and  *)
(* in memory allocated for it                                              *)
AsAsked ==
    \A o \in objs :
        /\ o.asked[2] > 1 /\ o.asked[2] \in Powers =>
             (o.ptr - o.asked[3]) % o.asked[2] = 0
        /\ o.size >= o.asked[1]
        /\ o.kind = "iob" =>
             /\ o.desc % IobAlign = 0
             /\ (o.desc..o.desc + IobSize - 1) \cap (o.ptr..o.ptr + o.size - 1) = {}
             /\ o.desc..o.desc + IobSize - 1
                  \subseteq UNION {g[1]..g[1] + g[2] - 1 : g \in o.got}

(* "Leak it if it is too small (which can happen only at the very end of   *)
(* the heap)" and "only at the very start of the heap"                     *)
LeakAtEnds ==
    \A x \in Lost : \/ x < HeapStart + MinBlock
                    \/ x >= HeapStart + RoundDown(HeapLen) - MinBlock
=============================================================================
