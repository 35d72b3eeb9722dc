------------------------------- MODULE SlotPool -------------------------------
(***************************************************************************)
(* What a slab promises its callers (spec 4.3): a fixed set of slots, of   *)
(* which some are free.  alloc hands out a free slot, any one, and returns *)
(* NULL only when none is free; free gives back a slot that was not free;  *)
(* reserve takes a given slot.  No words, bits, hint or lock.              *)
(***************************************************************************)
CONSTANTS Slots,  \* the slot indexes 0..objects-1
          NULL

VARIABLES free,   \* the slots that are free
          ret     \* the slot the last alloc returned, or NULL

Init == /\ free = Slots
        /\ ret = NULL

Alloc == \/ \E s \in free : /\ free' = free \ {s}
                            /\ ret' = s
         \/ /\ free = {}
            /\ ret' = NULL
            /\ UNCHANGED free

Release(s) == /\ s \in Slots \ free
              /\ free' = free \cup {s}
              /\ UNCHANGED ret

Reserve(s) == /\ free' = free \ {s}
              /\ UNCHANGED ret

Next == Alloc \/ \E s \in Slots : Release(s) \/ Reserve(s)

Spec == Init /\ [][Next]_<<free, ret>>
=============================================================================
