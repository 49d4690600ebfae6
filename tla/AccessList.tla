----------------------------- MODULE AccessList -----------------------------
(***************************************************************************)
(* The per-transaction access list of core/state/access_list.go, as        *)
(* operators on a value.  A list is a record of                            *)
(*   addresses : per address, NotListed (not a key of the Go map), NoSlots *)
(*               (the stored -1) or a zero-based index into slots;         *)
(*   slots     : the slice of slot sets.  Index i of the slice is element  *)
(*               i+1 of the sequence.                                      *)
(* The list is pure data; StateDB journals every change made to it.        *)
(***************************************************************************)
EXTENDS Integers, Sequences

CONSTANT Address  \* account addresses

NoSlots   == -1
NotListed == -2

newAccessList == [addresses |-> [a \in Address |-> NotListed], slots |-> <<>>]

ContainsAddress(al, a) == al.addresses[a] # NotListed

Contains(al, a, k) == /\ al.addresses[a] \in Nat
                      /\ k \in al.slots[al.addresses[a] + 1]

AddAddress(al, a) ==
  IF ContainsAddress(al, a) THEN al ELSE [al EXCEPT !.addresses[a] = NoSlots]

AddSlot(al, a, k) ==
  IF al.addresses[a] \notin Nat
  THEN [addresses |-> [al.addresses EXCEPT ![a] = Len(al.slots)],
        slots     |-> Append(al.slots, {k})]
  ELSE [al EXCEPT !.slots[al.addresses[a] + 1] = @ \cup {k}]

\* Mutant of the next definition.
MutIndexKept(al, a, k) ==
  LET i    == al.addresses[a] + 1
      rest == al.slots[i] \ {k}
  IN  IF rest = {} THEN [al EXCEPT !.slots = SubSeq(@, 1, i - 1)]
      ELSE [al EXCEPT !.slots[i] = rest]

\* Removing the last slot of an address cuts the slice at that address's
\* index: everything stored behind it goes as well.
DeleteSlot(al, a, k) ==
  LET i    == al.addresses[a] + 1
      rest == al.slots[i] \ {k}
  IN  IF rest = {}
      THEN [addresses |-> [al.addresses EXCEPT ![a] = NoSlots],
            slots     |-> SubSeq(al.slots, 1, i - 1)]
      ELSE [al EXCEPT !.slots[i] = rest]

DeleteAddress(al, a) == [al EXCEPT !.addresses[a] = NotListed]

\* Every stored index points into the slice, at a non-empty set, and no two
\* addresses share one: what Contains and DeleteSlot take for granted.
WellIndexed(al) ==
  /\ \A a \in Address : al.addresses[a] \in Nat =>
        /\ al.addresses[a] < Len(al.slots)
        /\ al.slots[al.addresses[a] + 1] # {}
  /\ \A a, b \in Address :
        al.addresses[a] \in Nat /\ al.addresses[a] = al.addresses[b] => a = b
=============================================================================
