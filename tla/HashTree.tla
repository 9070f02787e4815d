----------------------------- MODULE HashTree -----------------------------
(***************************************************************************)
(* The hash tree of haskell/HashTree.hs under the state monad of            *)
(* haskell/HashTreeMonad.hs: the bytes of an address choose the branches,   *)
(* a leaf holds a bucket of addresses with their devices.  A recursion over *)
(* the bytes of an address is a function of the depth it has reached.       *)
(***************************************************************************)
EXTENDS Integers, SequencesExt

CONSTANTS
    Address,                 \* addresses in use, any Int of the program
    Name,                    \* what else tells two devices apart
    Radix,                   \* values of one byte (256 in the program)
    Files,                   \* lists of devices a program may start from
    MaxDevices               \* bound: devices in the tree

Device == [address : Address, name : Name]

ASSUME AddressAssumption == Address \subseteq Int
ASSUME RadixAssumption   == Radix \in Nat \ {0, 1}
ASSUME FilesAssumption   == Files \subseteq Seq(Device)

VARIABLE tree                \* the state of the monad

(* DeviceModel.hs: the path of an address.  An Int outside 0..2^32-1 has    *)
(* the path of the address it equals modulo 2^32.                           *)
addressBytes(addr) ==
    << (addr \div (Radix * Radix * Radix)) % Radix,
       (addr \div (Radix * Radix)) % Radix,
       (addr \div Radix) % Radix,
       addr % Radix >>

Depth == 4

(* The three kinds of tree, children and bucket being lists of pairs.       *)
emptyTree == [kind |-> "empty"]
HashNode(level, children) ==
    [kind |-> "node", level |-> level, children |-> children]
HashLeaf(bucket) == [kind |-> "leaf", bucket |-> bucket]
Branch(byte, child) == [byte |-> byte, child |-> child]
Entry(addr, devices) == [addr |-> addr, devices |-> devices]

ChildrenOf(t) == IF t.kind = "node" THEN t.children ELSE << >>
BucketOf(t) == IF t.kind = "leaf" THEN t.bucket ELSE << >>

BytesOf(children) == [i \in DOMAIN children |-> children[i].byte]
AddressesOf(bucket) == [i \in DOMAIN bucket |-> bucket[i].addr]

(* The place of x in s, 0 when it is not there.                             *)
IndexOf(x, s) == SelectInSeq(s, LAMBDA y : y = x)

-----------------------------------------------------------------------------
(* Branches of a node.                                                      *)

findChild(byte, children) ==
    LET i == IndexOf(byte, BytesOf(children)) IN
    IF i = 0 THEN emptyTree ELSE children[i].child

(* A bug: a replaced branch moves to the end.                               *)
insertChildAtEnd(byte, child, children) ==
    LET i == IndexOf(byte, BytesOf(children)) IN
    Append(IF i = 0 THEN children ELSE RemoveAt(children, i), Branch(byte, child))

insertChild(byte, child, children) ==
    LET i == IndexOf(byte, BytesOf(children)) IN
    IF i = 0 THEN Append(children, Branch(byte, child))
    ELSE [children EXCEPT ![i].child = child]

(* A bug: the branch of an emptied subtree stays.                           *)
keepChild(byte, child, children) ==
    LET i == IndexOf(byte, BytesOf(children)) IN
    IF i = 0 THEN children ELSE [children EXCEPT ![i].child = child]

(* deleteChild, given what is left of the subtree.                          *)
replaceChild(byte, child, children) ==
    LET i == IndexOf(byte, BytesOf(children)) IN
    IF i = 0 THEN children
    ELSE IF child = emptyTree THEN RemoveAt(children, i)
    ELSE [children EXCEPT ![i].child = child]

(* Entries of a leaf.  New devices come first in their list.                *)
insertIntoBucket(addr, device, bucket) ==
    LET i == IndexOf(addr, AddressesOf(bucket)) IN
    IF i = 0 THEN Append(bucket, Entry(addr, <<device>>))
    ELSE [bucket EXCEPT ![i].devices = <<device>> \o @]

(* A bug: the devices are given in the order the bucket stores them.        *)
devicesNewestFirst(entry) == entry.devices

devicesFromPair(entry) == Reverse(entry.devices)

findInBucket(addr, bucket) ==
    LET i == IndexOf(addr, AddressesOf(bucket)) IN
    IF i = 0 THEN << >> ELSE Reverse(bucket[i].devices)

(* A bug: the whole bucket goes with the address.                           *)
dropBucket(addr, bucket) == << >>

deleteFromBucket(addr, bucket) ==
    LET i == IndexOf(addr, AddressesOf(bucket)) IN
    IF i = 0 THEN bucket ELSE RemoveAt(bucket, i)

-----------------------------------------------------------------------------
(* The operations on a whole tree.  subtreesOn: the subtrees that the bytes *)
(* lead to, from the whole tree at depth 0 on; Empty where there is none.   *)

subtreesOn(bytes, t) ==
    LET sub[k \in 0..Depth] ==
            IF k = 0 THEN t ELSE findChild(bytes[k], ChildrenOf(sub[k - 1]))
    IN  sub

(* insertByBytes at each depth of the path, the result for the whole tree   *)
(* at depth 0.                                                              *)
insertByBytes(addr, bytes, device, t) ==
    LET sub == subtreesOn(bytes, t)
        new[k \in 0..Depth] ==
            LET old == sub[k] IN
            IF old.kind = "leaf" \/ k = Depth
            THEN HashLeaf(insertIntoBucket(addr, device, BucketOf(old)))
            ELSE HashNode(IF old.kind = "node" THEN old.level ELSE k,
                          insertChild(bytes[k + 1], new[k + 1], ChildrenOf(old)))
    IN  new

insertDevice(device, t) ==
    insertByBytes(device.address, addressBytes(device.address), device, t)[0]

(* A path ends at the first leaf.                                           *)
findByBytes(addr, bytes, t) ==
    LET sub    == subtreesOn(bytes, t)
        leaves == {k \in 0..Depth : sub[k].kind = "leaf"}
    IN  IF leaves = {} THEN << >>
        ELSE findInBucket(addr, sub[CHOOSE k \in leaves : TRUE].bucket)

findByAddress(addr, t) == findByBytes(addr, addressBytes(addr), t)

(* deleteByBytes at each depth of the path.                                 *)
deleteByBytes(addr, bytes, t) ==
    LET sub == subtreesOn(bytes, t)
        rest[k \in 0..Depth] ==
            LET old == sub[k] IN
            IF old.kind = "leaf"
            THEN LET bucket == deleteFromBucket(addr, old.bucket) IN
                 IF bucket = << >> THEN emptyTree ELSE HashLeaf(bucket)
            ELSE IF old.kind = "empty" \/ k = Depth THEN old
            ELSE LET children ==
                        replaceChild(bytes[k + 1], rest[k + 1], old.children)
                 IN  IF children = << >> THEN emptyTree
                     ELSE HashNode(old.level, children)
    IN  rest

deleteByAddress(addr, t) == deleteByBytes(addr, addressBytes(addr), t)[0]

fromList(devices) ==
    LET built[i \in 0..Len(devices)] ==
            IF i = 0 THEN emptyTree ELSE insertDevice(devices[i], built[i - 1])
    IN  built[Len(devices)]

(* The recursion of toList over the five levels of a tree.                  *)
toList(t) ==
    LET listWith(listOfChild(_), s) ==
            CASE s.kind = "empty" -> << >>
              [] s.kind = "leaf"  -> FlattenSeq([i \in DOMAIN s.bucket |->
                                                    devicesFromPair(s.bucket[i])])
              [] s.kind = "node"  -> FlattenSeq([i \in DOMAIN s.children |->
                                                    listOfChild(s.children[i].child)])
        nothing(s) == << >>
        list4(s) == listWith(nothing, s)
        list3(s) == listWith(list4, s)
        list2(s) == listWith(list3, s)
        list1(s) == listWith(list2, s)
    IN  listWith(list1, t)

treeSize(t) == Len(toList(t))

-----------------------------------------------------------------------------
(* The steps of a program in the monad.  It starts from nothing, or as      *)
(* Main.hs does from the devices of a file.                                 *)

Init == tree = emptyTree \/ \E devices \in Files : tree = fromList(devices)

addDeviceM(d) == treeSize(tree) < MaxDevices /\ tree' = insertDevice(d, tree)

deleteByAddressM(a) == tree' = deleteByAddress(a, tree)

Next ==
    \/ \E d \in Device : addDeviceM(d)
    \/ \E a \in Address : deleteByAddressM(a)

Spec == Init /\ [][Next]_tree

-----------------------------------------------------------------------------
(* Properties.                                                              *)

(* The paths of two addresses are the same down to a depth.                 *)
SamePath(k, p, q) == \A i \in 1..k : p[i] = q[i]

(* An entry holds devices of its address, whose path leads here.            *)
EntryOK(entry, path) ==
    /\ entry = Entry(entry.addr, entry.devices)
    /\ entry.addr \in Address /\ addressBytes(entry.addr) = path
    /\ entry.devices \in Seq({d \in Device : d.address = entry.addr}) \ {<< >>}

LeafOK(t, path) ==
    /\ t = HashLeaf(BucketOf(t))
    /\ BucketOf(t) \in Seq(ToSet(BucketOf(t))) \ {<< >>}
    /\ IsInjective(AddressesOf(BucketOf(t)))
    /\ \A entry \in ToSet(BucketOf(t)) : EntryOK(entry, path)

(* A branch is not empty, and the path of some address takes it.            *)
BranchOK(b, k, path) ==
    /\ b = Branch(b.byte, b.child)
    /\ b.child # emptyTree
    /\ \E a \in Address : /\ SamePath(k, addressBytes(a), path)
                          /\ addressBytes(a)[k + 1] = b.byte

NodeOK(t, k, path) ==
    /\ t = HashNode(k, ChildrenOf(t))
    /\ ChildrenOf(t) \in Seq(ToSet(ChildrenOf(t))) \ {<< >>}
    /\ IsInjective(BytesOf(ChildrenOf(t)))
    /\ \A b \in ToSet(ChildrenOf(t)) : BranchOK(b, k, path)

SubtreeOK(t, k, path) ==
    \/ t = emptyTree
    \/ k < Depth /\ NodeOK(t, k, path)
    \/ k = Depth /\ LeafOK(t, path)

(* What the path of every address meets on its way down.                    *)
TreeOK(t) ==
    \A a \in Address, k \in 0..Depth :
        SubtreeOK(subtreesOn(addressBytes(a), t)[k], k, addressBytes(a))

(* After any inserts and deletes every branch leads to a leaf at depth 4    *)
(* that holds a device, no byte has two branches, and every address lies on *)
(* its own path: the cases the code calls impossible do not arise, and a    *)
(* tree without devices is Empty.                                           *)
TypeOK == TreeOK(tree)

(* The devices of an address stand together in a list: they are found, in   *)
(* this order, and no other one has the address.                            *)
StandTogether(found, list, a) ==
    \E n \in 0..Len(list) :
        /\ \A i \in DOMAIN found : n + i \in DOMAIN list /\ list[n + i] = found[i]
        /\ \A j \in DOMAIN list :
              list[j].address = a <=> j \in (n + 1)..(n + Len(found))

(* The list of a tree has the devices of every address next to each other,  *)
(* in the order find gives them, and nothing else.                          *)
ListAgreesWithFind ==
    LET list == toList(tree) IN
    /\ list \in Seq(Device)
    /\ \A a \in Address : StandTogether(findByAddress(a, tree), list, a)

(* Deleting an address that was not there before its device was inserted    *)
(* gives back the very same tree: no empty branch is left, no branch moves. *)
DeleteUndoesInsert ==
    \A d \in Device : findByAddress(d.address, tree) = << >> =>
        deleteByAddress(d.address, insertDevice(d, tree)) = tree
=============================================================================
