---------------------------- MODULE SanOverride -----------------------------
(***************************************************************************)
(* The override of sandev_read (core/sanboot.c): after blocks have been    *)
(* read, every configured range of the disk that the read touches is       *)
(* covered with the override buffer, one range per turn of the loop.  All  *)
(* ranges have the same length and the same contents; they may overlap.    *)
(***************************************************************************)
EXTENDS Integers, Sequences

CONSTANTS
    BlkSize,     \* sandev_blksize
    DiskBlocks,  \* size of the disk in blocks
    OverLen,     \* g_uiSandiskOverLen
    MaxOver      \* most entries of g_aui64SandiskOverLoc

SanOverrideAssumption ==
    /\ BlkSize \in Nat \ {0} /\ DiskBlocks \in Nat \ {0}
    /\ OverLen \in Nat \ {0} /\ MaxOver \in Nat

VARIABLES
    lba, count,  \* what is read
    overLoc,     \* g_aui64SandiskOverLoc
    i,           \* turns of the loop taken
    buffer       \* the caller's buffer: where each byte came from

vars == <<lba, count, overLoc, i, buffer>>

seek == lba * BlkSize
len == count * BlkSize

FromDisk(p) == [from |-> "disk", at |-> p]
FromOver(p) == [from |-> "over", at |-> p]

(* memcpy of n bytes of g_pcSandiskOverBuf from src to offset dst of buf *)
memcpy(buf, dst, src, n) ==
    [b \in DOMAIN buf \cup dst..(dst + n - 1) |->
       IF b \in dst..(dst + n - 1) THEN FromOver(src + b - dst) ELSE buf[b]]

(* Mutant: the range is copied from its beginning *)
OverrideFromStart(buf, rangeStart) ==
    LET rangeEnd == rangeStart + OverLen IN
    IF seek + len <= rangeStart \/ seek >= rangeEnd THEN buf
    ELSE IF seek <= rangeStart
    THEN memcpy(buf, rangeStart - seek, 0,
                IF seek + len <= rangeEnd THEN seek + len - rangeStart ELSE OverLen)
    ELSE memcpy(buf, 0, 0, IF seek + len <= rangeEnd THEN len ELSE rangeEnd - seek)

override(buf, rangeStart) ==
    LET rangeEnd == rangeStart + OverLen IN
    IF seek + len <= rangeStart \/ seek >= rangeEnd THEN buf
    ELSE IF seek <= rangeStart
    THEN memcpy(buf, rangeStart - seek, 0,
                IF seek + len <= rangeEnd THEN seek + len - rangeStart ELSE OverLen)
    ELSE memcpy(buf, 0, seek - rangeStart,
                IF seek + len <= rangeEnd THEN len ELSE rangeEnd - seek)

Init ==
    /\ lba \in 0..(DiskBlocks - 1)
    /\ count \in 1..(DiskBlocks - lba)
    /\ \E n \in 0..MaxOver : overLoc \in [1..n -> 0..(DiskBlocks * BlkSize - 1)]
    /\ i = 0
    /\ buffer = [b \in 0..(count * BlkSize - 1) |-> FromDisk(lba * BlkSize + b)]

(* One turn of the loop of sandev_read *)
sandev_read ==
    /\ i < Len(overLoc)
    /\ buffer' = override(buffer, overLoc[i + 1])
    /\ i' = i + 1 /\ UNCHANGED <<lba, count, overLoc>>

Next == sandev_read

Spec == Init /\ [][Next]_vars

-----------------------------------------------------------------------------
Hits(p, n) == {j \in 1..n : p \in overLoc[j]..(overLoc[j] + OverLen - 1)}
Last(S) == CHOOSE j \in S : \A k \in S : k <= j

(* The disk as the user is meant to see it after n ranges *)
Overlaid(p, n) ==
    IF Hits(p, n) = {} THEN FromDisk(p) ELSE FromOver(p - overLoc[Last(Hits(p, n))])

(* Every byte that sandev_read returns is the byte of the overlaid disk,   *)
(* wherever the read begins and ends relative to the ranges.               *)
ReadIsOverlaid ==
    \A b \in 0..(len - 1) : buffer[b] = Overlaid(seek + b, i)

(* Nothing is written beside the caller's buffer or read beside the        *)
(* override buffer (the arithmetic on overLen).                            *)
InBounds ==
    /\ DOMAIN buffer = 0..(len - 1)
    /\ \A b \in DOMAIN buffer :
         buffer[b].from = "over" => buffer[b].at \in 0..(OverLen - 1)
=============================================================================
