----------------------------- MODULE MCStateDB -----------------------------
(* Values for the constants of StateDB.                                    *)
EXTENDS StateDBProperties, TLC

\* An account of the parent state with one slot set, one without storage.
Contract(w) == [balance |-> 1, nonce |-> 1, code |-> EmptyCode, storage |-> [k \in Slot |-> w]]
Funded      == [balance |-> 1, nonce |-> 0, code |-> EmptyCode, storage |-> Zeroes]

GenesisNone    == {NoObject}
GenesisFunded  == {NoObject, Funded}
GenesisStorage == {NoObject} \cup {Contract(w) : w \in Word \ {ZeroHash}}

\* A node that compiles for itself, with singlepass or with its fallback, and one
\* that also compiles for the validator.
Host   == {<<"host", FALSE>>}
OneAsm == {Host}
AnyAsm == {Host, {<<"host", TRUE>>}, Host \cup {<<"wavm", FALSE>>}}

AccountCalls == {"AddBalance", "SubBalance", "SetNonce", "SetCode", "SetState",
                 "SelfDestruct", "SelfDestruct6780", "Create"}
EffectCalls  == {"SetTransientState", "AddAddressToAccessList", "AddSlotToAccessList", "Prepare",
                 "AddRefund", "SubRefund", "AddLog", "ActivateWasm"}
ZombieCalls  == {"AddBalance", "SelfDestruct", "CreateZombieIfDeleted"}
BlockCalls   == {"SetState", "SelfDestruct", "AddBalance", "SubBalance", "SetBalance",
                 "CreateZombieIfDeleted", "ExpectBalanceBurn", "ExpectBalanceMint",
                 "IntermediateRoot", "Commit"}

WarmEntries  == {"transient", "accessListAddAccount", "accessListAddSlot"}
CountEntries == {"refund", "addLog", "wasm"}

\* What is warm and what is counted are parts of the state that do not read one
\* another: a transaction of EffectCalls journals one of the two, the transaction
\* hash matters to the second only.
EntryTypes == {journal.entries[i].type : i \in 1 .. Len(journal.entries)}
OneEffect ==
  \/ /\ EntryTypes \cap CountEntries = {}
     /\ txs = 0
     /\ thash = (CHOOSE t \in Tx : TRUE)
  \/ /\ EntryTypes \cap WarmEntries = {}
     /\ world.accessList = newAccessList

\* EffectCalls treat all addresses, slots and modules alike.
Alike == Permutations(Address) \cup Permutations(Slot) \cup Permutations(Module)
=============================================================================
