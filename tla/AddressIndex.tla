--------------------------- MODULE AddressIndex ---------------------------
(***************************************************************************)
(* What haskell/HashTree.hs promises: an index from network addresses to    *)
(* the devices that have them, in the order they were added.                *)
(***************************************************************************)
EXTENDS Integers, Sequences

CONSTANT Address             \* addresses in use

VARIABLE index               \* index[a]: the devices with address a

With(d, i) == [i EXCEPT ![d.address] = Append(@, d)]

(* The index of a list of devices: fromList.                                *)
IndexOfList(devices) ==
    LET built[n \in 0..Len(devices)] ==
            IF n = 0 THEN [a \in Address |-> << >>]
            ELSE With(devices[n], built[n - 1])
    IN  built[Len(devices)]

Add(d) == index' = With(d, index)

Delete(a) == index' = [index EXCEPT ![a] = << >>]
=============================================================================
