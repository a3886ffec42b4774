------------------------------ MODULE BpfRing ------------------------------
(***************************************************************************)
(* BPF_MAP_TYPE_RINGBUF (maps.h) as operators on a sequence of records,    *)
(* modelled from how the eBPF programs and the readers use it.  Records    *)
(* are delivered in the order of their reservation, whatever the order in  *)
(* which the programs commit them: a record that is still busy holds back  *)
(* every record behind it.  All records of one ring have the same size, so *)
(* its capacity is a number of records.                                    *)
(***************************************************************************)
EXTENDS Naturals, Sequences

CONSTANT NoEvent        \* the contents of a record that is not filled in yet

RingRecord(Owners, Events) ==
    [owner : Owners, st : {"busy", "ready", "discarded"}, ev : Events \cup {NoEvent}]

HasRoom(ring, cap) == Len(ring) < cap

bpf_ringbuf_reserve(ring, o) ==
    Append(ring, [owner |-> o, st |-> "busy", ev |-> NoEvent])

Committed(ring, o, st, ev) ==
    [i \in 1..Len(ring) |->
        IF ring[i].owner = o /\ ring[i].st = "busy"
        THEN [owner |-> o, st |-> st, ev |-> ev]
        ELSE ring[i]]

bpf_ringbuf_submit(ring, o, ev) == Committed(ring, o, "ready", ev)
bpf_ringbuf_discard(ring, o)    == Committed(ring, o, "discarded", NoEvent)

(* What a consumer may do with the oldest record. *)
Readable(ring)  == Len(ring) > 0 /\ Head(ring).st = "ready"
Skippable(ring) == Len(ring) > 0 /\ Head(ring).st = "discarded"
=============================================================================
