--------------------------- MODULE AiDestinations ---------------------------
(***************************************************************************)
(* The ai_destinations map (maps.h): BPF_MAP_TYPE_LRU_HASH from an IPv4    *)
(* address to the AI hostname it was resolved from, modelled from how the  *)
(* DNS service and the connect hook use it.                                *)
(*                                                                         *)
(* The elements of an LRU hash are preallocated and reused.  An update     *)
(* takes an unused element, or evicts one when none is left, fills it in,  *)
(* and only then unlinks the element that held the key before.  A lookup   *)
(* returns a pointer to the element, and the element may be given to       *)
(* another key while the program still holds the pointer.  The timestamp   *)
(* and the TTL of an entry are left out: nothing reads them.  The hostname *)
(* field of an element holds the first 64 bytes of the name.               *)
(***************************************************************************)
EXTENDS Integers, Sequences

CONSTANTS
    Slots,      \* the preallocated elements (65536 in the code)
    Names,      \* DNS names, each the sequence of its labels
    Hostname64, \* the first MAX_HOSTNAME_LEN bytes of each name
    NoKey,      \* the key of an element that was never used
    NoHost      \* the hostname field of an element that was never used

VARIABLE aiDest

HostFields == {Hostname64[n] : n \in Names}

Element == [key : Nat \cup {NoKey}, host : HostFields \cup {NoHost}, st : {"linked", "free"}]

aiDestInit ==
    aiDest = [s \in Slots |-> [key |-> NoKey, host |-> NoHost, st |-> "free"]]

(* bpf_map_lookup_elem may return a pointer to any of these, or NULL. *)
Linked(k) == {s \in Slots : aiDest[s].st = "linked" /\ aiDest[s].key = k}

(* The map without the elements E, whose contents stay until they are used   *)
(* again.                                                                    *)
Unlink(E) == [x \in Slots |-> IF x \in E THEN [aiDest[x] EXCEPT !.st = "free"] ELSE aiDest[x]]

(* AIDestMap.Update(k, info, UpdateAny) that takes element s.  Which element *)
(* the kernel's free lists and LRU lists yield is left open: unused elements *)
(* may sit on the free list of another CPU, so that an update can evict an   *)
(* entry before the map is full.  It may evict others with it, as the kernel *)
(* shrinks its lists by several elements at a time.                          *)
UpdateElem(k, h, s) ==
    \E E \in SUBSET Slots :
        aiDest' = [Unlink(E \cup Linked(k)) EXCEPT
                     ![s] = [key |-> k, host |-> Hostname64[h], st |-> "linked"]]

(* An update that fails has perhaps evicted elements by then. *)
UpdateFails == \E E \in SUBSET Slots : aiDest' = Unlink(E)
=============================================================================
