--------------------------- MODULE HashTreeIndex ---------------------------
(***************************************************************************)
(* HashTree and AddressIndex side by side: every operation of a program is  *)
(* done on both.                                                            *)
(***************************************************************************)
EXTENDS HashTree

VARIABLE index               \* what the tree stands for

Abstract == INSTANCE AddressIndex

IndexedInit ==
    \/ tree = emptyTree /\ index = Abstract!IndexOfList(<< >>)
    \/ \E devices \in Files : /\ tree = fromList(devices)
                              /\ index = Abstract!IndexOfList(devices)

IndexedNext ==
    \/ \E d \in Device : addDeviceM(d) /\ Abstract!Add(d)
    \/ \E a \in Address : deleteByAddressM(a) /\ Abstract!Delete(a)

IndexedSpec == IndexedInit /\ [][IndexedNext]_<<tree, index>>

(* Whatever was inserted and deleted before, find returns the devices of    *)
(* the address and no other, oldest first: an insert or a delete changes    *)
(* what is found at its address only, also when another address shares its  *)
(* whole path.                                                              *)
FindGivesIndex == \A a \in Address : findByAddress(a, tree) = index[a]
=============================================================================
