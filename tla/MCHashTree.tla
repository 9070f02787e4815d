---------------------------- MODULE MCHashTree ----------------------------
(* A small instance of HashTreeIndex: bytes of two bits.  Of the addresses  *)
(* 0 and 1 share three bytes, 0 and 4 two; 256 is 0 modulo the number of    *)
(* paths, so it has the whole path of 0.                                    *)
EXTENDS HashTreeIndex

SomeAddresses == {0, 1, 4, 256}
Named(a, n) == [address |-> a, name |-> n]
SomeFiles == {<<Named(1, "x"), Named(0, "x"), Named(1, "y")>>,
              <<Named(256, "y"), Named(4, "x"), Named(0, "y")>>}
=============================================================================
