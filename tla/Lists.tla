-------------------------------- MODULE Lists -------------------------------
(***************************************************************************)
(* The linked lists of include/ipxe/list.h, as sequences.                  *)
(***************************************************************************)
EXTENDS Integers, Sequences

(* The list without its i-th entry *)
list_del(list, i) == SubSeq(list, 1, i - 1) \o SubSeq(list, i + 1, Len(list))
=============================================================================
