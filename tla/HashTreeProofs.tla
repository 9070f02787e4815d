--------------------------- MODULE HashTreeProofs ---------------------------
(* Theorems about HashTree and HashTreeIndex for any addresses, names,      *)
(* radix, files and bound.                                                  *)
EXTENDS HashTreeIndex, WellFoundedInduction, TLAPS

-----------------------------------------------------------------------------
(* Sequences.                                                               *)

(* Where an element is that a sequence has only once.                       *)
LEMMA PlaceInSequence ==
    ASSUME NEW V, NEW s \in Seq(V), IsInjective(s), NEW x
    PROVE  /\ \A i \in 1..Len(s) : s[i] = x => IndexOf(x, s) = i
           /\ (\A i \in 1..Len(s) : s[i] # x) => IndexOf(x, s) = 0
<1> DEFINE I == {i \in 1..Len(s) : s[i] = x}
<1>1. IndexOf(x, s) = IF I # {} THEN Min(I) ELSE 0
  BY DEF IndexOf, SelectInSeq
<1>2. ASSUME NEW i \in 1..Len(s), s[i] = x
      PROVE  IndexOf(x, s) = i
  <2>1. DOMAIN s = 1..Len(s)
    OBVIOUS
  <2>2. I = {i}
    BY <1>2, <2>1 DEF IsInjective
  <2>3. Min({i}) = i
    BY DEF Min
  <2>4. QED
    BY <1>1, <2>2, <2>3
<1>3. ASSUME \A i \in 1..Len(s) : s[i] # x
      PROVE  IndexOf(x, s) = 0
  BY <1>1, <1>3
<1>4. QED
  BY <1>2, <1>3

LEMMA RemoveAtParts ==
    ASSUME NEW V, NEW s \in Seq(V), NEW i \in 1..Len(s)
    PROVE  /\ RemoveAt(s, i) \in Seq(V)
           /\ Len(RemoveAt(s, i)) = Len(s) - 1
           /\ \A j \in 1..(Len(s) - 1) :
                 RemoveAt(s, i)[j] = IF j < i THEN s[j] ELSE s[j + 1]
<1> DEFINE before == SubSeq(s, 1, i - 1)
           after  == SubSeq(s, i + 1, Len(s))
<1>1. /\ before \in Seq(V) /\ Len(before) = i - 1
      /\ \A j \in 1..(i - 1) : before[j] = s[j]
  OBVIOUS
<1>2. /\ after \in Seq(V) /\ Len(after) = Len(s) - i
      /\ \A j \in 1..(Len(s) - i) : after[j] = s[i + j]
  OBVIOUS
<1> HIDE DEF before, after
<1>3. /\ before \o after \in Seq(V)
      /\ Len(before \o after) = Len(s) - 1
  BY <1>1, <1>2
<1>4. ASSUME NEW j \in 1..(Len(s) - 1)
      PROVE  (before \o after)[j] = IF j < i THEN s[j] ELSE s[j + 1]
  <2>1. CASE j < i
    BY <1>1, <1>2, <2>1
  <2>2. CASE ~(j < i)
    <3>1. /\ j - (i - 1) \in 1..(Len(s) - i)
          /\ i + (j - (i - 1)) = j + 1
      BY <2>2
    <3>2. (before \o after)[j] = after[j - (i - 1)]
      BY <1>1, <1>2, <2>2
    <3>3. QED
      BY <1>2, <2>2, <3>1, <3>2
  <2>3. QED
    BY <2>1, <2>2
<1>5. QED
  BY <1>3, <1>4 DEF RemoveAt, before, after

-----------------------------------------------------------------------------
(* Lists of branches.                                                       *)

(* No byte has two branches.                                                *)
Branches(c) ==
    /\ c \in Seq(ToSet(c))
    /\ IsInjective(BytesOf(c))
    /\ \A b \in ToSet(c) : b = Branch(b.byte, b.child)

LEMMA PlaceOfByte ==
    ASSUME NEW c, Branches(c), NEW byte
    PROVE  /\ \A i \in 1..Len(c) : c[i].byte = byte => IndexOf(byte, BytesOf(c)) = i
           /\ (\A i \in 1..Len(c) : c[i].byte # byte) => IndexOf(byte, BytesOf(c)) = 0
<1> DEFINE V == {b.byte : b \in ToSet(c)}
<1>1. /\ DOMAIN c = 1..Len(c) /\ Len(c) \in Nat
      /\ \A i \in 1..Len(c) : c[i].byte \in V
  BY DEF Branches, ToSet
<1> HIDE DEF V
<1>2. BytesOf(c) = [i \in 1..Len(c) |-> c[i].byte]
  BY <1>1 DEF BytesOf
<1>3. BytesOf(c) \in Seq(V) /\ Len(BytesOf(c)) = Len(c)
  BY <1>1, <1>2
<1>4. IsInjective(BytesOf(c))
  BY DEF Branches
<1>5. /\ \A i \in 1..Len(c) : BytesOf(c)[i] = byte => IndexOf(byte, BytesOf(c)) = i
      /\ (\A i \in 1..Len(c) : BytesOf(c)[i] # byte) => IndexOf(byte, BytesOf(c)) = 0
  BY <1>3, <1>4, PlaceInSequence
<1>6. \A i \in 1..Len(c) : BytesOf(c)[i] = c[i].byte
  BY <1>2
<1>7. QED
  BY <1>5, <1>6

LEMMA FindBranch ==
    ASSUME NEW c, Branches(c), NEW byte
    PROVE  /\ \A i \in 1..Len(c) : c[i].byte = byte => findChild(byte, c) = c[i].child
           /\ (\A i \in 1..Len(c) : c[i].byte # byte) => findChild(byte, c) = emptyTree
BY PlaceOfByte DEF findChild

(* Two lists with the same elements at the same places.                     *)
LEMMA BranchesByParts ==
    ASSUME NEW n \in Nat, NEW c, c \in Seq(ToSet(c)), Len(c) = n,
           \A i \in 1..n : c[i] = Branch(c[i].byte, c[i].child),
           \A i, j \in 1..n : c[i].byte = c[j].byte => i = j
    PROVE  Branches(c)
<1>1. DOMAIN c = 1..n
  OBVIOUS
<1>2. IsInjective(BytesOf(c))
  BY <1>1 DEF IsInjective, BytesOf
<1>3. \A b \in ToSet(c) : b = Branch(b.byte, b.child)
  BY <1>1 DEF ToSet
<1>4. QED
  BY <1>2, <1>3 DEF Branches

LEMMA SequenceOfItsElements ==
    ASSUME NEW V, NEW c \in Seq(V)
    PROVE  c \in Seq(ToSet(c)) /\ DOMAIN c = 1..Len(c) /\ Len(c) \in Nat
           /\ ToSet(c) \subseteq V
<1>1. DOMAIN c = 1..Len(c) /\ Len(c) \in Nat /\ \A i \in 1..Len(c) : c[i] \in V
  OBVIOUS
<1>2. c = [i \in 1..Len(c) |-> c[i]]
  OBVIOUS
<1> DEFINE T == ToSet(c)
<1>3. (\A i \in 1..Len(c) : c[i] \in T) /\ T \subseteq V
  BY <1>1 DEF ToSet
<1> HIDE DEF T
<1>4. [i \in 1..Len(c) |-> c[i]] \in Seq(T)
  BY <1>1, <1>3
<1>5. c \in Seq(T)
  BY <1>2, <1>4
<1>6. QED
  BY <1>1, <1>3, <1>5 DEF T

(* A branch set in the list of a node: the other bytes keep theirs.         *)
LEMMA InsertChildStep ==
    ASSUME NEW c, Branches(c), NEW byte, NEW child
    PROVE  LET new == insertChild(byte, child, c) IN
           /\ Branches(new) /\ new # << >>
           /\ \A b \in ToSet(new) : b = Branch(byte, child) \/ b \in ToSet(c)
           /\ \A x : findChild(x, new) = IF x = byte THEN child ELSE findChild(x, c)
<1> DEFINE new == insertChild(byte, child, c)
           n == Len(c)
           V == ToSet(c) \cup {Branch(byte, child)}
<1>0. /\ c \in Seq(V) /\ n \in Nat /\ DOMAIN c = 1..n
      /\ \A i \in 1..n : c[i] = Branch(c[i].byte, c[i].child)
      /\ \A i, j \in 1..n : c[i].byte = c[j].byte => i = j
  BY DEF Branches, ToSet, IsInjective, BytesOf
<1>1. Branch(byte, child).byte = byte /\ Branch(byte, child).child = child
  BY DEF Branch
<1>2. CASE \A i \in 1..n : c[i].byte # byte
  <2>1. new = Append(c, Branch(byte, child))
    BY <1>2, PlaceOfByte DEF insertChild
  <2>2. /\ new \in Seq(V) /\ Len(new) = n + 1 /\ new[n + 1] = Branch(byte, child)
        /\ \A i \in 1..n : new[i] = c[i]
    BY <1>0, <2>1
  <2>3. /\ new \in Seq(ToSet(new)) /\ ToSet(new) \subseteq V
    BY <2>2, SequenceOfItsElements
  <2>4. Branches(new)
    <3>1. \A i \in 1..(n + 1) : new[i] = Branch(new[i].byte, new[i].child)
      BY <1>0, <1>1, <2>2
    <3>2. \A i, j \in 1..(n + 1) : new[i].byte = new[j].byte => i = j
      BY <1>0, <1>1, <1>2, <2>2
    <3>3. QED
      BY <1>0, <2>2, <2>3, <3>1, <3>2, BranchesByParts
  <2>5. ASSUME NEW x
        PROVE  findChild(x, new) = IF x = byte THEN child ELSE findChild(x, c)
    <3>1. CASE x = byte
      BY <1>0, <1>1, <2>2, <2>4, <3>1, FindBranch
    <3>2. CASE x # byte /\ \E i \in 1..n : c[i].byte = x
      BY <1>0, <2>2, <2>4, <3>2, FindBranch
    <3>3. CASE x # byte /\ \A i \in 1..n : c[i].byte # x
      BY <1>0, <1>1, <2>2, <2>4, <3>3, FindBranch
    <3>4. QED
      BY <3>1, <3>2, <3>3
  <2>6. new # << >>
    BY <1>0, <2>2
  <2>7. QED
    BY <2>3, <2>4, <2>5, <2>6
<1>3. CASE \E i \in 1..n : c[i].byte = byte
  <2>0. PICK i \in 1..n : c[i].byte = byte
    BY <1>3
  <2>1. new = [c EXCEPT ![i].child = child]
    <3>1. IndexOf(byte, BytesOf(c)) = i /\ i # 0
      BY <2>0, PlaceOfByte
    <3>2. QED
      BY <3>1 DEF insertChild
  <2>2. /\ new \in Seq(V) /\ Len(new) = n /\ new[i] = Branch(byte, child)
        /\ \A j \in 1..n : j # i => new[j] = c[j]
    <3>1. [c[i] EXCEPT !.child = child] = Branch(byte, child)
      BY <1>0, <2>0 DEF Branch
    <3>2. new = [c EXCEPT ![i] = Branch(byte, child)]
      BY <2>1, <3>1
    <3>3. QED
      BY <1>0, <3>2
  <2>3. /\ new \in Seq(ToSet(new)) /\ ToSet(new) \subseteq V
    BY <2>2, SequenceOfItsElements
  <2>4. Branches(new)
    <3>1. \A j \in 1..n : new[j] = Branch(new[j].byte, new[j].child)
      BY <1>0, <1>1, <2>2
    <3>2. \A j, k \in 1..n : new[j].byte = new[k].byte => j = k
      BY <1>0, <1>1, <2>0, <2>2
    <3>3. QED
      BY <1>0, <2>2, <2>3, <3>1, <3>2, BranchesByParts
  <2>5. ASSUME NEW x
        PROVE  findChild(x, new) = IF x = byte THEN child ELSE findChild(x, c)
    <3>1. CASE x = byte
      BY <1>0, <1>1, <2>2, <2>4, <3>1, FindBranch
    <3>2. CASE x # byte /\ \E j \in 1..n : c[j].byte = x
      BY <1>0, <2>0, <2>2, <2>4, <3>2, FindBranch
    <3>3. CASE x # byte /\ \A j \in 1..n : c[j].byte # x
      BY <1>0, <1>1, <2>2, <2>4, <3>3, FindBranch
    <3>4. QED
      BY <3>1, <3>2, <3>3
  <2>6. new # << >>
    BY <1>0, <2>2
  <2>7. QED
    BY <2>3, <2>4, <2>5, <2>6
<1>4. QED
  BY <1>2, <1>3

(* What is left of a subtree put in the place of it: an emptied one takes   *)
(* its branch with it.                                                      *)
LEMMA ReplaceChildStep ==
    ASSUME NEW c, Branches(c), NEW byte, NEW child,
           findChild(byte, c) = emptyTree => child = emptyTree
    PROVE  LET new == replaceChild(byte, child, c) IN
           /\ Branches(new)
           /\ \A b \in ToSet(new) :
                 b \in ToSet(c) \/ (b = Branch(byte, child) /\ child # emptyTree)
           /\ \A x : findChild(x, new) = IF x = byte THEN child ELSE findChild(x, c)
<1> DEFINE new == replaceChild(byte, child, c)
           n == Len(c)
           V == ToSet(c) \cup {Branch(byte, child)}
<1>0. /\ c \in Seq(V) /\ c \in Seq(ToSet(c)) /\ n \in Nat /\ DOMAIN c = 1..n
      /\ \A i \in 1..n : c[i] = Branch(c[i].byte, c[i].child)
      /\ \A i, j \in 1..n : c[i].byte = c[j].byte => i = j
  BY DEF Branches, ToSet, IsInjective, BytesOf
<1>1. Branch(byte, child).byte = byte /\ Branch(byte, child).child = child
  BY DEF Branch
<1>2. CASE \A i \in 1..n : c[i].byte # byte
  <2>1. new = c
    <3>1. IndexOf(byte, BytesOf(c)) = 0
      BY <1>2, PlaceOfByte
    <3>2. QED
      BY <3>1 DEF replaceChild
  <2>2. child = emptyTree /\ findChild(byte, c) = emptyTree
    BY <1>2, FindBranch
  <2>3. QED
    BY <2>1, <2>2
<1>3. CASE \E i \in 1..n : c[i].byte = byte
  <2>0. PICK i \in 1..n : c[i].byte = byte
    BY <1>3
  <2>1. IndexOf(byte, BytesOf(c)) = i /\ i # 0
    BY <2>0, PlaceOfByte
  <2>2. CASE child = emptyTree
    <3>1. new = RemoveAt(c, i)
      BY <2>1, <2>2 DEF replaceChild
    <3> HIDE DEF new
    <3>2. /\ new \in Seq(ToSet(c)) /\ Len(new) = n - 1
          /\ \A j \in 1..(n - 1) : new[j] = IF j < i THEN c[j] ELSE c[j + 1]
      BY <1>0, <3>1, RemoveAtParts
    <3>3. /\ new \in Seq(ToSet(new)) /\ ToSet(new) \subseteq ToSet(c)
      BY <3>2, SequenceOfItsElements
    <3>4. Branches(new)
      <4>1. \A j \in 1..(n - 1) : new[j] = Branch(new[j].byte, new[j].child)
        BY <1>0, <3>2
      <4>2. \A j, k \in 1..(n - 1) : new[j].byte = new[k].byte => j = k
        BY <1>0, <3>2
      <4>3. n - 1 \in Nat
        BY <1>0
      <4>4. QED
        BY <3>2, <3>3, <4>1, <4>2, <4>3, BranchesByParts
    <3>5. ASSUME NEW x
          PROVE  findChild(x, new) = IF x = byte THEN child ELSE findChild(x, c)
      <4>1. CASE \A j \in 1..(n - 1) : new[j].byte # x
        <5>1. findChild(x, new) = emptyTree
          BY <3>2, <3>4, <4>1, FindBranch
        <5>2. ASSUME NEW k \in 1..n, k # i
              PROVE  c[k].byte # x
          <6>1. CASE k < i
            BY <1>0, <3>2, <4>1, <6>1
          <6>2. CASE k > i
            <7>1. k - 1 \in 1..(n - 1) /\ ~(k - 1 < i) /\ (k - 1) + 1 = k
              BY <1>0, <6>2
            <7>2. QED
              BY <3>2, <4>1, <7>1
          <6>3. QED
            BY <1>0, <5>2, <6>1, <6>2
        <5>3. x # byte => \A k \in 1..n : c[k].byte # x
          BY <2>0, <5>2
        <5>4. QED
          BY <2>2, <5>1, <5>3, FindBranch
      <4>2. CASE \E j \in 1..(n - 1) : new[j].byte = x
        <5>1. PICK j \in 1..(n - 1) : new[j].byte = x
          BY <4>2
        <5>2. findChild(x, new) = new[j].child
          BY <3>2, <3>4, <5>1, FindBranch
        <5>3. PICK k \in 1..n : k # i /\ new[j] = c[k]
          <6>1. CASE j < i
            BY <1>0, <3>2, <6>1
          <6>2. CASE ~(j < i)
            <7>1. j + 1 \in 1..n /\ j + 1 # i
              BY <1>0, <6>2
            <7>2. QED
              BY <3>2, <6>2, <7>1
          <6>3. QED
            BY <6>1, <6>2
        <5>4. x # byte /\ findChild(x, c) = c[k].child
          BY <1>0, <2>0, <5>1, <5>3, FindBranch
        <5>5. QED
          BY <5>2, <5>3, <5>4
      <4>3. QED
        BY <4>1, <4>2
    <3>6. QED
      BY <3>3, <3>4, <3>5 DEF new
  <2>3. CASE child # emptyTree
    <3>1. new = insertChild(byte, child, c)
      BY <2>1, <2>3 DEF replaceChild, insertChild
    <3>2. /\ Branches(new)
          /\ \A b \in ToSet(new) : b = Branch(byte, child) \/ b \in ToSet(c)
          /\ \A x : findChild(x, new) = IF x = byte THEN child ELSE findChild(x, c)
      BY <3>1, InsertChildStep
    <3>3. QED
      BY <2>3, <3>2
  <2>4. QED
    BY <2>2, <2>3
<1>4. QED
  BY <1>2, <1>3

LEMMA RemoveLast ==
    ASSUME NEW V, NEW s \in Seq(V), NEW x
    PROVE  RemoveAt(Append(s, x), Len(s) + 1) = s
<1> DEFINE W == V \cup {x}
           t == Append(s, x)
<1>1. /\ s \in Seq(W) /\ t \in Seq(W) /\ Len(t) = Len(s) + 1 /\ Len(s) \in Nat
      /\ \A i \in 1..Len(s) : t[i] = s[i]
  OBVIOUS
<1> HIDE DEF t, W
<1> DEFINE k == Len(s) + 1
           r == RemoveAt(t, k)
<1>2. k \in 1..Len(t) /\ Len(t) - 1 = Len(s) /\ \A i \in 1..Len(s) : i < k
  BY <1>1
<1> HIDE DEF k
<1>3. /\ r \in Seq(W) /\ Len(r) = Len(s)
      /\ \A i \in 1..Len(s) : r[i] = s[i]
  <2>1. /\ r \in Seq(W) /\ Len(r) = Len(t) - 1
        /\ \A i \in 1..(Len(t) - 1) : r[i] = IF i < k THEN t[i] ELSE t[i + 1]
    BY <1>1, <1>2, RemoveAtParts
  <2>2. QED
    BY <1>1, <1>2, <2>1
<1> HIDE DEF r
<1>4. r = s
  BY <1>1, <1>3
<1>5. QED
  BY <1>4 DEF t, r, k

(* Putting back what was there undoes an insert.                            *)
LEMMA ReplaceAfterInsert ==
    ASSUME NEW c, Branches(c), \A b \in ToSet(c) : b.child # emptyTree,
           NEW byte, NEW child
    PROVE  replaceChild(byte, findChild(byte, c), insertChild(byte, child, c)) = c
<1> DEFINE new == insertChild(byte, child, c)
           n == Len(c)
<1>0. /\ c \in Seq(ToSet(c)) /\ n \in Nat /\ DOMAIN c = 1..n
      /\ \A i \in 1..n : c[i] = Branch(c[i].byte, c[i].child)
      /\ \A i \in 1..n : c[i].child # emptyTree
  BY DEF Branches, ToSet
<1>00. Branches(new)
  BY InsertChildStep
<1>1. Branch(byte, child).byte = byte /\ Branch(byte, child).child = child
  BY DEF Branch
<1>2. CASE \A i \in 1..n : c[i].byte # byte
  <2>1. new = Append(c, Branch(byte, child)) /\ findChild(byte, c) = emptyTree
    <3>1. IndexOf(byte, BytesOf(c)) = 0
      BY <1>2, PlaceOfByte
    <3>2. QED
      BY <1>2, <3>1, FindBranch DEF insertChild
  <2>2. Len(new) = n + 1 /\ new[n + 1] = Branch(byte, child)
    BY <1>0, <2>1
  <2>3. IndexOf(byte, BytesOf(new)) = n + 1
    BY <1>0, <1>00, <1>1, <2>2, PlaceOfByte
  <2>4. replaceChild(byte, emptyTree, new) = RemoveAt(new, n + 1)
    BY <1>0, <2>3 DEF replaceChild
  <2>5. QED
    BY <1>0, <2>1, <2>4, RemoveLast
<1>3. CASE \E i \in 1..n : c[i].byte = byte
  <2>0. PICK i \in 1..n : c[i].byte = byte
    BY <1>3
  <2>1. /\ IndexOf(byte, BytesOf(c)) = i /\ i # 0
        /\ findChild(byte, c) = c[i].child /\ c[i].child # emptyTree
    BY <1>0, <2>0, PlaceOfByte, FindBranch
  <2>2. new = [c EXCEPT ![i].child = child]
    BY <2>1 DEF insertChild
  <2>3. Len(new) = n /\ new[i].byte = byte
    BY <1>0, <2>0, <2>2 DEF Branch
  <2>4. IndexOf(byte, BytesOf(new)) = i
    BY <1>0, <1>00, <2>3, PlaceOfByte
  <2>5. replaceChild(byte, c[i].child, new) = [new EXCEPT ![i].child = c[i].child]
    BY <2>1, <2>4 DEF replaceChild
  <2>6. [[c[i] EXCEPT !.child = child] EXCEPT !.child = c[i].child] = c[i]
    BY <1>0 DEF Branch
  <2>7. [new EXCEPT ![i].child = c[i].child] = c
    <3>1. /\ new \in Seq(ToSet(c) \cup {[c[i] EXCEPT !.child = child]})
          /\ Len(new) = n /\ new[i] = [c[i] EXCEPT !.child = child]
          /\ \A j \in 1..n : j # i => new[j] = c[j]
      BY <1>0, <2>2
    <3>2. [new EXCEPT ![i].child = c[i].child] = [new EXCEPT ![i] = c[i]]
      BY <2>6, <3>1
    <3>3. [new EXCEPT ![i] = c[i]] = c
      BY <1>0, <3>1
    <3>4. QED
      BY <3>2, <3>3
  <2>8. QED
    BY <2>1, <2>5, <2>7
<1>4. QED
  BY <1>2, <1>3

-----------------------------------------------------------------------------
(* Buckets.                                                                 *)

(* No address has two entries, and all are on the path.                     *)
Bucket(s, path) ==
    /\ s \in Seq(ToSet(s))
    /\ IsInjective(AddressesOf(s))
    /\ \A entry \in ToSet(s) : EntryOK(entry, path)

LEMMA PlaceOfAddress ==
    ASSUME NEW s, NEW path, Bucket(s, path), NEW a
    PROVE  /\ \A i \in 1..Len(s) : s[i].addr = a => IndexOf(a, AddressesOf(s)) = i
           /\ (\A i \in 1..Len(s) : s[i].addr # a) => IndexOf(a, AddressesOf(s)) = 0
<1> DEFINE V == {e.addr : e \in ToSet(s)}
<1>1. /\ DOMAIN s = 1..Len(s) /\ Len(s) \in Nat
      /\ \A i \in 1..Len(s) : s[i].addr \in V
  BY DEF Bucket, ToSet
<1> HIDE DEF V
<1>2. AddressesOf(s) = [i \in 1..Len(s) |-> s[i].addr]
  BY <1>1 DEF AddressesOf
<1>3. AddressesOf(s) \in Seq(V) /\ Len(AddressesOf(s)) = Len(s)
  BY <1>1, <1>2
<1>4. IsInjective(AddressesOf(s))
  BY DEF Bucket
<1>5. /\ \A i \in 1..Len(s) : AddressesOf(s)[i] = a => IndexOf(a, AddressesOf(s)) = i
      /\ (\A i \in 1..Len(s) : AddressesOf(s)[i] # a) => IndexOf(a, AddressesOf(s)) = 0
  BY <1>3, <1>4, PlaceInSequence
<1>6. \A i \in 1..Len(s) : AddressesOf(s)[i] = s[i].addr
  BY <1>2
<1>7. QED
  BY <1>5, <1>6

LEMMA FindEntry ==
    ASSUME NEW s, NEW path, Bucket(s, path), NEW a
    PROVE  /\ \A i \in 1..Len(s) :
                 s[i].addr = a => findInBucket(a, s) = Reverse(s[i].devices)
           /\ (\A i \in 1..Len(s) : s[i].addr # a) => findInBucket(a, s) = << >>
BY PlaceOfAddress DEF findInBucket

LEMMA BucketByParts ==
    ASSUME NEW path, NEW n \in Nat, NEW s, s \in Seq(ToSet(s)), Len(s) = n,
           \A i \in 1..n : EntryOK(s[i], path),
           \A i, j \in 1..n : s[i].addr = s[j].addr => i = j
    PROVE  Bucket(s, path)
<1>1. DOMAIN s = 1..n
  OBVIOUS
<1>2. IsInjective(AddressesOf(s))
  BY <1>1 DEF IsInjective, AddressesOf
<1>3. \A entry \in ToSet(s) : EntryOK(entry, path)
  BY <1>1 DEF ToSet
<1>4. QED
  BY <1>2, <1>3 DEF Bucket

LEMMA BucketParts ==
    ASSUME NEW path, NEW s, Bucket(s, path)
    PROVE  /\ s \in Seq(ToSet(s)) /\ Len(s) \in Nat /\ DOMAIN s = 1..Len(s)
           /\ \A i \in 1..Len(s) : s[i] \in ToSet(s) /\ EntryOK(s[i], path)
           /\ \A i, j \in 1..Len(s) : s[i].addr = s[j].addr => i = j
BY DEF Bucket, ToSet, IsInjective, AddressesOf

LEMMA NewestFirst ==
    ASSUME NEW V, NEW s \in Seq(V), NEW d \in V
    PROVE  /\ <<d>> \o s \in Seq(V) \ {<< >>}
           /\ Reverse(<<d>> \o s) = Append(Reverse(s), d)
           /\ s # << >> => Reverse(s) # << >>
<1> DEFINE n == Len(s)
           t == <<d>> \o s
<1>1. /\ t \in Seq(V) /\ n \in Nat /\ Len(t) = n + 1 /\ t[1] = d
      /\ \A i \in 1..n : t[i + 1] = s[i]
  OBVIOUS
<1> HIDE DEF t
<1>2. /\ Reverse(t) = [i \in 1..(n + 1) |-> t[(n + 1 - i) + 1]]
      /\ Reverse(s) = [i \in 1..n |-> s[(n - i) + 1]]
  BY <1>1 DEF Reverse
<1>3. /\ \A i \in 1..n : Reverse(t)[i] = s[(n - i) + 1]
      /\ Reverse(t)[n + 1] = d
  <2>1. ASSUME NEW i \in 1..n
        PROVE  Reverse(t)[i] = s[(n - i) + 1]
    <3>0. (n - i) + 1 \in 1..n /\ ((n - i) + 1) + 1 = (n + 1 - i) + 1
      BY <1>1
    <3>1. PICK j \in 1..n : j = (n - i) + 1 /\ j + 1 = (n + 1 - i) + 1
      BY <3>0
    <3>2. Reverse(t)[i] = t[j + 1]
      BY <1>1, <1>2, <3>1
    <3>3. QED
      BY <1>1, <3>1, <3>2
  <2>2. QED
    BY <1>1, <1>2, <2>1
<1>4. Reverse(s) \in Seq(V) /\ Len(Reverse(s)) = n
  BY <1>1, <1>2
<1>5. Append(Reverse(s), d) = [i \in 1..(n + 1) |->
                                  IF i = n + 1 THEN d ELSE s[(n - i) + 1]]
  BY <1>1, <1>2, <1>4
<1>6. Reverse(t) = Append(Reverse(s), d)
  BY <1>1, <1>2, <1>3, <1>5
<1>7. QED
  BY <1>1, <1>4, <1>6 DEF t

LEMMA NewEntry ==
    ASSUME NEW d \in Device, NEW path, addressBytes(d.address) = path
    PROVE  /\ EntryOK(Entry(d.address, <<d>>), path)
           /\ Reverse(<<d>>) = Append(<< >>, d)
<1> DEFINE V == {e \in Device : e.address = d.address}
<1>1. d \in V /\ d.address \in Address
  BY DEF Device
<1>2. <<d>> \in Seq(V) \ {<< >>}
  BY <1>1
<1>3. EntryOK(Entry(d.address, <<d>>), path)
  BY <1>1, <1>2 DEF EntryOK, Entry
<1>4. Reverse(<<d>>) = <<d>>
  BY DEF Reverse
<1>5. QED
  BY <1>3, <1>4

(* A device put in a bucket is found last at its address, and nothing else  *)
(* that is found there changes.                                             *)
LEMMA InsertIntoBucketStep ==
    ASSUME NEW d \in Device, NEW path, addressBytes(d.address) = path,
           NEW s, Bucket(s, path)
    PROVE  LET new == insertIntoBucket(d.address, d, s) IN
           /\ Bucket(new, path) /\ new # << >>
           /\ \A a : findInBucket(a, new) = IF a = d.address
                                            THEN Append(findInBucket(a, s), d)
                                            ELSE findInBucket(a, s)
<1> DEFINE addr == d.address
           new == insertIntoBucket(addr, d, s)
           n == Len(s)
<1>0. /\ s \in Seq(ToSet(s)) /\ n \in Nat /\ DOMAIN s = 1..n
      /\ \A i \in 1..n : s[i] \in ToSet(s) /\ EntryOK(s[i], path)
      /\ \A i, j \in 1..n : s[i].addr = s[j].addr => i = j
  BY BucketParts
<1>1. CASE \A i \in 1..n : s[i].addr # addr
  <2> DEFINE entry == Entry(addr, <<d>>)
             V == ToSet(s) \cup {entry}
  <2>1. /\ EntryOK(entry, path) /\ Reverse(<<d>>) = Append(<< >>, d)
        /\ entry.addr = addr /\ entry.devices = <<d>>
    BY NewEntry DEF Entry
  <2>2. IndexOf(addr, AddressesOf(s)) = 0
    BY <1>1, PlaceOfAddress
  <2> HIDE DEF entry
  <2>3. new = Append(s, entry)
    BY <2>2 DEF insertIntoBucket, entry
  <2> HIDE DEF new
  <2>4. /\ new \in Seq(V) /\ Len(new) = n + 1 /\ new[n + 1] = entry
        /\ \A i \in 1..n : new[i] = s[i]
    BY <1>0, <2>3
  <2>5. Bucket(new, path)
    <3>1. new \in Seq(ToSet(new)) /\ n + 1 \in Nat
      BY <1>0, <2>4, SequenceOfItsElements
    <3>2. \A i \in 1..(n + 1) : EntryOK(new[i], path)
      BY <1>0, <2>1, <2>4
    <3>3. \A i, j \in 1..(n + 1) : new[i].addr = new[j].addr => i = j
      BY <1>0, <1>1, <2>1, <2>4
    <3>4. QED
      BY <2>4, <3>1, <3>2, <3>3, BucketByParts
  <2>6. ASSUME NEW a
        PROVE  findInBucket(a, new) = IF a = addr THEN Append(findInBucket(a, s), d)
                                      ELSE findInBucket(a, s)
    <3>1. CASE a = addr
      <4>1. n + 1 \in 1..Len(new) /\ new[n + 1].addr = a
        BY <1>0, <2>1, <2>4, <3>1
      <4>2. /\ findInBucket(a, new) = Reverse(new[n + 1].devices)
            /\ findInBucket(a, s) = << >>
        BY <1>1, <2>5, <3>1, <4>1, FindEntry
      <4>3. QED
        BY <2>1, <2>4, <3>1, <4>2
    <3>2. CASE a # addr /\ \E i \in 1..n : s[i].addr = a
      BY <1>0, <2>4, <2>5, <3>2, FindEntry
    <3>3. CASE a # addr /\ \A i \in 1..n : s[i].addr # a
      BY <1>0, <2>1, <2>4, <2>5, <3>3, FindEntry
    <3>4. QED
      BY <3>1, <3>2, <3>3
  <2>7. new # << >>
    BY <1>0, <2>4
  <2>8. QED
    BY <2>5, <2>6, <2>7 DEF new
<1>2. CASE \E i \in 1..n : s[i].addr = addr
  <2>0. PICK i \in 1..n : s[i].addr = addr
    BY <1>2
  <2> DEFINE D == {e \in Device : e.address = addr}
             entry == Entry(addr, <<d>> \o s[i].devices)
             V == ToSet(s) \cup {entry}
  <2>1. /\ s[i] = Entry(addr, s[i].devices) /\ addr \in Address
        /\ s[i].devices \in Seq(D) \ {<< >>} /\ d \in D
    BY <1>0, <2>0 DEF EntryOK
  <2>2. /\ <<d>> \o s[i].devices \in Seq(D) \ {<< >>}
        /\ Reverse(<<d>> \o s[i].devices) = Append(Reverse(s[i].devices), d)
    BY <2>1, NewestFirst
  <2>3. /\ EntryOK(entry, path) /\ entry.addr = addr
        /\ entry.devices = <<d>> \o s[i].devices
    BY <2>1, <2>2 DEF EntryOK, Entry
  <2>4. IndexOf(addr, AddressesOf(s)) = i /\ i # 0
    BY <2>0, PlaceOfAddress
  <2>5. [s[i] EXCEPT !.devices = <<d>> \o @] = entry
    <3>1. \A x, y : [Entry(addr, x) EXCEPT !.devices = y] = Entry(addr, y)
      BY DEF Entry
    <3>2. [s[i] EXCEPT !.devices = <<d>> \o s[i].devices] = entry
      BY <2>1, <3>1
    <3>3. QED
      BY <3>2
  <2> HIDE DEF entry, D
  <2>6. new = [s EXCEPT ![i] = entry]
    BY <1>0, <2>4, <2>5 DEF insertIntoBucket
  <2> HIDE DEF new
  <2>7. /\ new \in Seq(V) /\ Len(new) = n /\ new[i] = entry
        /\ \A j \in 1..n : j # i => new[j] = s[j]
    BY <1>0, <2>6
  <2>8. Bucket(new, path)
    <3>1. new \in Seq(ToSet(new))
      BY <2>7, SequenceOfItsElements
    <3>2. \A j \in 1..n : EntryOK(new[j], path)
      BY <1>0, <2>3, <2>7
    <3>3. \A j, k \in 1..n : new[j].addr = new[k].addr => j = k
      BY <1>0, <2>0, <2>3, <2>7
    <3>4. QED
      BY <1>0, <2>7, <3>1, <3>2, <3>3, BucketByParts
  <2>9. ASSUME NEW a
        PROVE  findInBucket(a, new) = IF a = addr THEN Append(findInBucket(a, s), d)
                                      ELSE findInBucket(a, s)
    <3>1. CASE a = addr
      <4>1. /\ findInBucket(a, new) = Reverse(new[i].devices)
            /\ findInBucket(a, s) = Reverse(s[i].devices)
        BY <2>0, <2>3, <2>7, <2>8, <3>1, FindEntry
      <4>2. QED
        BY <2>2, <2>3, <2>7, <3>1, <4>1
    <3>2. CASE a # addr /\ \E j \in 1..n : s[j].addr = a
      BY <1>0, <2>0, <2>7, <2>8, <3>2, FindEntry
    <3>3. CASE a # addr /\ \A j \in 1..n : s[j].addr # a
      BY <1>0, <2>3, <2>7, <2>8, <3>3, FindEntry
    <3>4. QED
      BY <3>1, <3>2, <3>3
  <2>10. new # << >>
    BY <1>0, <2>7
  <2>11. QED
    BY <2>8, <2>9, <2>10 DEF new
<1>3. QED
  BY <1>1, <1>2

(* Deleting an address from a bucket leaves the others what they have.      *)
LEMMA DeleteFromBucketStep ==
    ASSUME NEW addr, NEW path, NEW s, Bucket(s, path)
    PROVE  LET new == deleteFromBucket(addr, s) IN
           /\ Bucket(new, path)
           /\ \A a : findInBucket(a, new) = IF a = addr THEN << >>
                                            ELSE findInBucket(a, s)
<1> DEFINE new == deleteFromBucket(addr, s)
           n == Len(s)
<1>0. /\ s \in Seq(ToSet(s)) /\ n \in Nat /\ DOMAIN s = 1..n
      /\ \A i \in 1..n : EntryOK(s[i], path)
      /\ \A i, j \in 1..n : s[i].addr = s[j].addr => i = j
  BY BucketParts
<1>1. CASE \A i \in 1..n : s[i].addr # addr
  <2>1. new = s
    <3>1. IndexOf(addr, AddressesOf(s)) = 0
      BY <1>1, PlaceOfAddress
    <3>2. QED
      BY <3>1 DEF deleteFromBucket
  <2>2. findInBucket(addr, s) = << >>
    BY <1>1, FindEntry
  <2>3. QED
    BY <2>1, <2>2
<1>2. CASE \E i \in 1..n : s[i].addr = addr
  <2>0. PICK i \in 1..n : s[i].addr = addr
    BY <1>2
  <2>1. IndexOf(addr, AddressesOf(s)) = i /\ i # 0
    BY <2>0, PlaceOfAddress
  <2>2. new = RemoveAt(s, i)
    BY <2>1 DEF deleteFromBucket
  <2> HIDE DEF new
  <2>3. /\ new \in Seq(ToSet(s)) /\ Len(new) = n - 1 /\ n - 1 \in Nat
        /\ \A j \in 1..(n - 1) : new[j] = IF j < i THEN s[j] ELSE s[j + 1]
    <3>1. n - 1 \in Nat
      BY <1>0
    <3>2. /\ new \in Seq(ToSet(s)) /\ Len(new) = n - 1
          /\ \A j \in 1..(n - 1) : new[j] = IF j < i THEN s[j] ELSE s[j + 1]
      BY <1>0, <2>2, RemoveAtParts
    <3>3. QED
      BY <3>1, <3>2
  <2>4. Bucket(new, path)
    <3>1. new \in Seq(ToSet(new))
      BY <2>3, SequenceOfItsElements
    <3>2. \A j \in 1..(n - 1) : EntryOK(new[j], path)
      BY <1>0, <2>3
    <3>3. \A j, k \in 1..(n - 1) : new[j].addr = new[k].addr => j = k
      BY <1>0, <2>3
    <3>4. QED
      BY <2>3, <3>1, <3>2, <3>3, BucketByParts
  <2>5. ASSUME NEW a
        PROVE  findInBucket(a, new) = IF a = addr THEN << >> ELSE findInBucket(a, s)
    <3>1. CASE \A j \in 1..(n - 1) : new[j].addr # a
      <4>1. findInBucket(a, new) = << >>
        BY <2>3, <2>4, <3>1, FindEntry
      <4>2. ASSUME NEW k \in 1..n, k # i
            PROVE  s[k].addr # a
        <5>1. CASE k < i
          BY <1>0, <2>3, <3>1, <5>1
        <5>2. CASE k > i
          <6>1. k - 1 \in 1..(n - 1) /\ ~(k - 1 < i) /\ (k - 1) + 1 = k
            BY <1>0, <5>2
          <6>2. QED
            BY <2>3, <3>1, <6>1
        <5>3. QED
          BY <1>0, <4>2, <5>1, <5>2
      <4>3. a # addr => \A k \in 1..n : s[k].addr # a
        BY <2>0, <4>2
      <4>4. QED
        BY <4>1, <4>3, FindEntry
    <3>2. CASE \E j \in 1..(n - 1) : new[j].addr = a
      <4>1. PICK j \in 1..(n - 1) : new[j].addr = a
        BY <3>2
      <4>2. findInBucket(a, new) = Reverse(new[j].devices)
        BY <2>3, <2>4, <4>1, FindEntry
      <4>3. PICK k \in 1..n : k # i /\ new[j] = s[k]
        <5>1. CASE j < i
          BY <1>0, <2>3, <5>1
        <5>2. CASE ~(j < i)
          <6>1. j + 1 \in 1..n /\ j + 1 # i
            BY <1>0, <5>2
          <6>2. QED
            BY <2>3, <5>2, <6>1
        <5>3. QED
          BY <5>1, <5>2
      <4>4. a # addr /\ findInBucket(a, s) = Reverse(s[k].devices)
        BY <1>0, <2>0, <4>1, <4>3, FindEntry
      <4>5. QED
        BY <4>2, <4>3, <4>4
    <3>3. QED
      BY <3>1, <3>2
  <2>6. QED
    BY <2>4, <2>5 DEF new
<1>3. QED
  BY <1>1, <1>2

(* Where nothing is found there is no entry, and an insert only adds one.   *)
LEMMA DeleteAfterInsertBucket ==
    ASSUME NEW d \in Device, NEW path, addressBytes(d.address) = path,
           NEW s, Bucket(s, path), findInBucket(d.address, s) = << >>
    PROVE  deleteFromBucket(d.address, insertIntoBucket(d.address, d, s)) = s
<1> DEFINE addr == d.address
           new == insertIntoBucket(addr, d, s)
           entry == Entry(addr, <<d>>)
           n == Len(s)
<1>0. /\ s \in Seq(ToSet(s)) /\ n \in Nat /\ DOMAIN s = 1..n
      /\ \A i \in 1..n : EntryOK(s[i], path)
  BY BucketParts
<1>1. ASSUME NEW i \in 1..n
      PROVE  s[i].addr # addr
  <2>1. SUFFICES ASSUME s[i].addr = addr PROVE FALSE
    OBVIOUS
  <2>2. findInBucket(addr, s) = Reverse(s[i].devices)
    BY <2>1, FindEntry
  <2>3. /\ s[i].devices \in Seq({e \in Device : e.address = s[i].addr})
        /\ s[i].devices # << >>
    BY <1>0 DEF EntryOK
  <2>4. d \in {e \in Device : e.address = s[i].addr}
    BY <2>1
  <2>5. Reverse(s[i].devices) # << >>
    BY <2>3, <2>4, NewestFirst
  <2>6. QED
    BY <2>2, <2>5
<1>2. new = Append(s, entry)
  <2>1. IndexOf(addr, AddressesOf(s)) = 0
    BY <1>1, PlaceOfAddress
  <2>2. QED
    BY <2>1 DEF insertIntoBucket
<1>3. Bucket(new, path)
  BY InsertIntoBucketStep
<1>4. entry.addr = addr
  BY DEF Entry
<1> HIDE DEF entry
<1>5. Len(new) = n + 1 /\ new[n + 1].addr = addr
  BY <1>0, <1>2, <1>4
<1>6. IndexOf(addr, AddressesOf(new)) = n + 1 /\ n + 1 # 0
  <2>1. n + 1 \in 1..Len(new) /\ n + 1 # 0
    BY <1>0, <1>5
  <2> HIDE DEF new, n
  <2>2. QED
    BY <1>3, <1>5, <2>1, PlaceOfAddress
<1>7. deleteFromBucket(addr, new) = RemoveAt(new, n + 1)
  BY <1>6 DEF deleteFromBucket
<1>8. QED
  BY <1>0, <1>2, <1>7, RemoveLast

-----------------------------------------------------------------------------
(* The recursions over the depth: what each gives at one depth, from what   *)
(* it gives at the next.                                                    *)

LEMMA SubtreesByDepth ==
    ASSUME NEW bytes, NEW t
    PROVE  LET sub == subtreesOn(bytes, t) IN
           /\ sub[0] = t
           /\ \A k \in 0..3 : sub[k + 1] = findChild(bytes[k + 1], ChildrenOf(sub[k]))
<1> DEFINE step(k, s) == findChild(bytes[k], ChildrenOf(s))
           Sub(f) == f = [k \in 0..Depth |-> IF k = 0 THEN t ELSE step(k, f[k - 1])]
           s1 == step(1, t)
           s2 == step(2, s1)
           s3 == step(3, s2)
           s4 == step(4, s3)
           g == [k \in 0..4 |-> IF k = 0 THEN t ELSE IF k = 1 THEN s1 ELSE
                                IF k = 2 THEN s2 ELSE IF k = 3 THEN s3 ELSE s4]
<1>1. subtreesOn(bytes, t) = CHOOSE f : Sub(f)
  BY DEF subtreesOn
<1> HIDE DEF step
<1>2. Sub(g)
  <2>1. \A k \in 0..4 : g[k] = IF k = 0 THEN t ELSE step(k, g[k - 1])
    OBVIOUS
  <2>2. QED
    BY <2>1 DEF Depth
<1> HIDE DEF Sub
<1>3. Sub(subtreesOn(bytes, t))
  BY <1>1, <1>2
<1>4. QED
  BY <1>3 DEF Sub, step, Depth

LEMMA InsertByDepth ==
    ASSUME NEW addr, NEW bytes, NEW d, NEW t
    PROVE  LET sub == subtreesOn(bytes, t)
               new == insertByBytes(addr, bytes, d, t)
           IN  \A k \in 0..Depth :
                 new[k] = IF sub[k].kind = "leaf" \/ k = Depth
                          THEN HashLeaf(insertIntoBucket(addr, d, BucketOf(sub[k])))
                          ELSE HashNode(IF sub[k].kind = "node" THEN sub[k].level ELSE k,
                                        insertChild(bytes[k + 1], new[k + 1],
                                                    ChildrenOf(sub[k])))
<1> DEFINE sub == subtreesOn(bytes, t)
           end(k) == HashLeaf(insertIntoBucket(addr, d, BucketOf(sub[k])))
           step(k, s) == HashNode(IF sub[k].kind = "node" THEN sub[k].level ELSE k,
                                  insertChild(bytes[k + 1], s, ChildrenOf(sub[k])))
           Ends(k) == sub[k].kind = "leaf" \/ k = Depth
           New(f) == f = [k \in 0..Depth |-> IF Ends(k) THEN end(k)
                                             ELSE step(k, f[k + 1])]
           n4 == end(4)
           n3 == IF Ends(3) THEN end(3) ELSE step(3, n4)
           n2 == IF Ends(2) THEN end(2) ELSE step(2, n3)
           n1 == IF Ends(1) THEN end(1) ELSE step(1, n2)
           n0 == IF Ends(0) THEN end(0) ELSE step(0, n1)
           g == [k \in 0..4 |-> IF k = 0 THEN n0 ELSE IF k = 1 THEN n1 ELSE
                                IF k = 2 THEN n2 ELSE IF k = 3 THEN n3 ELSE n4]
<1>1. insertByBytes(addr, bytes, d, t) = CHOOSE f : New(f)
  BY DEF insertByBytes
<1>0. Ends(4)
  BY DEF Depth
<1> HIDE DEF step, end, Ends
<1>2. New(g)
  <2>1. \A k \in 0..4 : g[k] = IF Ends(k) THEN end(k) ELSE step(k, g[k + 1])
    BY <1>0
  <2>2. QED
    BY <2>1 DEF Depth
<1> HIDE DEF New
<1>3. New(insertByBytes(addr, bytes, d, t))
  BY <1>1, <1>2
<1>4. QED
  BY <1>3 DEF New, step, end, Ends

LEMMA DeleteByDepth ==
    ASSUME NEW addr, NEW bytes, NEW t
    PROVE  LET sub  == subtreesOn(bytes, t)
               rest == deleteByBytes(addr, bytes, t)
           IN  \A k \in 0..Depth :
                 rest[k] = IF sub[k].kind = "leaf"
                           THEN LET bucket == deleteFromBucket(addr, sub[k].bucket) IN
                                IF bucket = << >> THEN emptyTree ELSE HashLeaf(bucket)
                           ELSE IF sub[k].kind = "empty" \/ k = Depth THEN sub[k]
                           ELSE LET children == replaceChild(bytes[k + 1], rest[k + 1],
                                                             sub[k].children)
                                IN  IF children = << >> THEN emptyTree
                                    ELSE HashNode(sub[k].level, children)
<1> DEFINE sub == subtreesOn(bytes, t)
           end(k) == IF sub[k].kind = "leaf"
                     THEN LET bucket == deleteFromBucket(addr, sub[k].bucket) IN
                          IF bucket = << >> THEN emptyTree ELSE HashLeaf(bucket)
                     ELSE sub[k]
           step(k, s) == LET children == replaceChild(bytes[k + 1], s, sub[k].children)
                         IN  IF children = << >> THEN emptyTree
                             ELSE HashNode(sub[k].level, children)
           Ends(k) == sub[k].kind = "leaf" \/ sub[k].kind = "empty" \/ k = Depth
           all(k, f) == IF sub[k].kind = "leaf"
                        THEN LET bucket == deleteFromBucket(addr, sub[k].bucket) IN
                             IF bucket = << >> THEN emptyTree ELSE HashLeaf(bucket)
                        ELSE IF sub[k].kind = "empty" \/ k = Depth THEN sub[k]
                        ELSE LET children == replaceChild(bytes[k + 1], f[k + 1],
                                                          sub[k].children)
                             IN  IF children = << >> THEN emptyTree
                                 ELSE HashNode(sub[k].level, children)
           Rest(f) == f = [k \in 0..Depth |-> all(k, f)]
           n4 == end(4)
           n3 == IF Ends(3) THEN end(3) ELSE step(3, n4)
           n2 == IF Ends(2) THEN end(2) ELSE step(2, n3)
           n1 == IF Ends(1) THEN end(1) ELSE step(1, n2)
           n0 == IF Ends(0) THEN end(0) ELSE step(0, n1)
           g == [k \in 0..4 |-> IF k = 0 THEN n0 ELSE IF k = 1 THEN n1 ELSE
                                IF k = 2 THEN n2 ELSE IF k = 3 THEN n3 ELSE n4]
<1>1. deleteByBytes(addr, bytes, t) = CHOOSE f : Rest(f)
  BY DEF deleteByBytes
<1>0. Ends(4)
  BY DEF Depth
<1>00. \A k, f : all(k, f) = IF Ends(k) THEN end(k) ELSE step(k, f[k + 1])
  OBVIOUS
<1> HIDE DEF step, end, Ends, all
<1>2. Rest(g)
  <2>1. \A k \in 0..4 : g[k] = IF Ends(k) THEN end(k) ELSE step(k, g[k + 1])
    BY <1>0
  <2>2. \A k \in 0..4 : g[k] = all(k, g)
    BY <1>00, <2>1
  <2>3. QED
    BY <2>2 DEF Depth
<1> HIDE DEF Rest
<1>3. Rest(deleteByBytes(addr, bytes, t))
  BY <1>1, <1>2
<1>4. QED
  BY <1>3 DEF Rest, all

-----------------------------------------------------------------------------
(* Paths.                                                                   *)

LEMMA SamePathStep ==
    ASSUME NEW p, NEW q, NEW k \in 0..3
    PROVE  SamePath(k + 1, p, q) <=> SamePath(k, p, q) /\ p[k + 1] = q[k + 1]
<1>1. 1..(k + 1) = (1..k) \cup {k + 1}
  OBVIOUS
<1>2. QED
  BY <1>1 DEF SamePath

(* The four bytes are the whole path.                                       *)
LEMMA WholePath ==
    ASSUME NEW a, NEW b
    PROVE  SamePath(4, addressBytes(a), addressBytes(b))
             <=> addressBytes(a) = addressBytes(b)
<1> DEFINE w(i, x) == addressBytes(x)[i]
<1>1. \A x : addressBytes(x) = <<w(1, x), w(2, x), w(3, x), w(4, x)>>
  BY DEF addressBytes
<1> HIDE DEF w
<1>2. SamePath(4, addressBytes(a), addressBytes(b)) =>
         /\ w(1, a) = w(1, b) /\ w(2, a) = w(2, b)
         /\ w(3, a) = w(3, b) /\ w(4, a) = w(4, b)
  BY DEF SamePath, w
<1>3. addressBytes(a) = addressBytes(b) => SamePath(4, addressBytes(a), addressBytes(b))
  BY DEF SamePath
<1>4. QED
  BY <1>1, <1>2, <1>3

LEMMA SamePathSubtree ==
    ASSUME NEW p, NEW q, NEW t, NEW k \in 0..4, SamePath(k, p, q)
    PROVE  subtreesOn(p, t)[k] = subtreesOn(q, t)[k]
<1> DEFINE Same(i) == SamePath(i, p, q) => subtreesOn(p, t)[i] = subtreesOn(q, t)[i]
<1>1. Same(0)
  BY SubtreesByDepth
<1>2. ASSUME NEW i \in 0..3, Same(i)
      PROVE  Same(i + 1)
  BY <1>2, SamePathStep, SubtreesByDepth
<1> HIDE DEF Same
<1>3. Same(1) /\ Same(2) /\ Same(3) /\ Same(4)
  <2>1. Same(1)
    BY <1>1, <1>2
  <2>2. Same(2)
    BY <2>1, <1>2
  <2>3. Same(3)
    BY <2>2, <1>2
  <2>4. QED
    BY <2>1, <2>2, <2>3, <1>2
<1>4. QED
  BY <1>1, <1>3 DEF Same

(* An operation that leaves new[k] at depth k of one path q changes what    *)
(* another path meets only as far down as it is the same.                   *)
Rewrites(t, q, new) ==
    \A k \in 0..3 : \A x :
        findChild(x, ChildrenOf(new[k])) =
            IF x = q[k + 1] THEN new[k + 1]
            ELSE findChild(x, ChildrenOf(subtreesOn(q, t)[k]))

LEMMA SubtreesAfter ==
    ASSUME NEW t, NEW q, NEW new, Rewrites(t, q, new), NEW p, NEW k \in 0..4
    PROVE  subtreesOn(p, new[0])[k] =
              IF SamePath(k, p, q) THEN new[k] ELSE subtreesOn(p, t)[k]
<1> DEFINE After(i) == subtreesOn(p, new[0])[i] =
                          IF SamePath(i, p, q) THEN new[i] ELSE subtreesOn(p, t)[i]
<1>1. After(0)
  BY SubtreesByDepth DEF SamePath
<1>2. ASSUME NEW i \in 0..3, After(i)
      PROVE  After(i + 1)
  <2>1. /\ subtreesOn(p, new[0])[i + 1] =
              findChild(p[i + 1], ChildrenOf(subtreesOn(p, new[0])[i]))
        /\ subtreesOn(p, t)[i + 1] = findChild(p[i + 1], ChildrenOf(subtreesOn(p, t)[i]))
    BY SubtreesByDepth
  <2>2. CASE SamePath(i, p, q)
    <3>1. subtreesOn(p, new[0])[i] = new[i]
      BY <1>2, <2>2
    <3>2. subtreesOn(p, t)[i] = subtreesOn(q, t)[i]
      BY <2>2, SamePathSubtree
    <3>3. findChild(p[i + 1], ChildrenOf(new[i])) =
             IF p[i + 1] = q[i + 1] THEN new[i + 1]
             ELSE findChild(p[i + 1], ChildrenOf(subtreesOn(q, t)[i]))
      BY DEF Rewrites
    <3>4. QED
      BY <2>1, <2>2, <3>1, <3>2, <3>3, SamePathStep
  <2>3. CASE ~SamePath(i, p, q)
    BY <1>2, <2>1, <2>3, SamePathStep
  <2>4. QED
    BY <2>2, <2>3
<1> HIDE DEF After
<1>3. After(1) /\ After(2) /\ After(3) /\ After(4)
  <2>1. After(1)
    BY <1>1, <1>2
  <2>2. After(2)
    BY <2>1, <1>2
  <2>3. After(3)
    BY <2>2, <1>2
  <2>4. QED
    BY <2>1, <2>2, <2>3, <1>2
<1>4. QED
  BY <1>1, <1>3 DEF After

(* A subtree that is right on one path is right on every path to it.        *)
LEMMA SubtreeOnSamePath ==
    ASSUME NEW a, NEW b, NEW k \in 0..4, NEW t,
           SamePath(k, addressBytes(a), addressBytes(b)),
           SubtreeOK(t, k, addressBytes(b))
    PROVE  SubtreeOK(t, k, addressBytes(a))
<1> DEFINE p == addressBytes(a)
           q == addressBytes(b)
<1>1. CASE t = emptyTree
  BY <1>1 DEF SubtreeOK
<1>2. CASE k < Depth /\ NodeOK(t, k, q)
  <2>1. \A r : SamePath(k, r, q) => SamePath(k, r, p)
    BY DEF SamePath
  <2> HIDE DEF p, q
  <2>2. \A c : BranchOK(c, k, q) => BranchOK(c, k, p)
    BY <2>1 DEF BranchOK
  <2>3. NodeOK(t, k, p)
    BY <1>2, <2>2 DEF NodeOK
  <2>4. QED
    BY <1>2, <2>3 DEF SubtreeOK, p
<1>3. CASE k = Depth /\ LeafOK(t, q)
  <2>1. p = q
    BY <1>3, WholePath DEF Depth
  <2>2. QED
    BY <2>1
<1>4. QED
  BY <1>1, <1>2, <1>3 DEF SubtreeOK

LEMMA TreeAfter ==
    ASSUME NEW t, TreeOK(t), NEW b, NEW new, Rewrites(t, addressBytes(b), new),
           \A k \in 0..4 : SubtreeOK(new[k], k, addressBytes(b))
    PROVE  TreeOK(new[0])
<1> SUFFICES ASSUME NEW a \in Address, NEW k \in 0..4
             PROVE  SubtreeOK(subtreesOn(addressBytes(a), new[0])[k], k, addressBytes(a))
  BY DEF TreeOK, Depth
<1>1. CASE SamePath(k, addressBytes(a), addressBytes(b))
  BY <1>1, SubtreesAfter, SubtreeOnSamePath
<1>2. CASE ~SamePath(k, addressBytes(a), addressBytes(b))
  <2>1. subtreesOn(addressBytes(a), new[0])[k] = subtreesOn(addressBytes(a), t)[k]
    BY <1>2, SubtreesAfter
  <2>2. QED
    BY <2>1 DEF TreeOK, Depth
<1>3. QED
  BY <1>1, <1>2

-----------------------------------------------------------------------------
(* A subtree that is right.                                                 *)

LEMMA Kinds ==
    /\ emptyTree.kind = "empty" /\ ChildrenOf(emptyTree) = << >>
    /\ BucketOf(emptyTree) = << >>
    /\ \A l, c : /\ HashNode(l, c).kind = "node" /\ HashNode(l, c).level = l
                 /\ HashNode(l, c).children = c /\ ChildrenOf(HashNode(l, c)) = c
                 /\ HashNode(l, c) # emptyTree
    /\ \A s : /\ HashLeaf(s).kind = "leaf" /\ HashLeaf(s).bucket = s
              /\ BucketOf(HashLeaf(s)) = s /\ HashLeaf(s) # emptyTree
<1>1. /\ emptyTree.kind = "empty"
      /\ \A l, c : /\ HashNode(l, c).kind = "node" /\ HashNode(l, c).level = l
                   /\ HashNode(l, c).children = c
      /\ \A s : HashLeaf(s).kind = "leaf" /\ HashLeaf(s).bucket = s
  BY DEF emptyTree, HashNode, HashLeaf
<1>2. QED
  BY <1>1 DEF ChildrenOf, BucketOf

LEMMA InnerSubtree ==
    ASSUME NEW t, NEW k \in 0..3, NEW path, SubtreeOK(t, k, path)
    PROVE  /\ Branches(ChildrenOf(t))
           /\ \A b \in ToSet(ChildrenOf(t)) : BranchOK(b, k, path)
           /\ t.kind # "leaf"
           /\ \/ t = emptyTree /\ t.kind = "empty" /\ ChildrenOf(t) = << >>
              \/ /\ t = HashNode(k, ChildrenOf(t)) /\ t.kind = "node" /\ t.level = k
                 /\ t.children = ChildrenOf(t) /\ ChildrenOf(t) # << >>
<1>0. Branches(<< >>) /\ ToSet(<< >>) = {}
  BY DEF Branches, ToSet, BytesOf, IsInjective
<1>1. CASE t = emptyTree
  BY <1>0, <1>1, Kinds
<1>2. CASE NodeOK(t, k, path)
  BY <1>2, Kinds DEF NodeOK, BranchOK, Branches
<1>3. QED
  BY <1>1, <1>2 DEF SubtreeOK, Depth

LEMMA LastSubtree ==
    ASSUME NEW t, NEW path, SubtreeOK(t, 4, path)
    PROVE  /\ Bucket(BucketOf(t), path)
           /\ t.kind # "node"
           /\ \/ t = emptyTree /\ t.kind = "empty" /\ BucketOf(t) = << >>
              \/ /\ t = HashLeaf(BucketOf(t)) /\ t.kind = "leaf"
                 /\ t.bucket = BucketOf(t) /\ BucketOf(t) # << >>
<1>0. Bucket(<< >>, path)
  BY DEF Bucket, ToSet, AddressesOf, IsInjective
<1>1. CASE t = emptyTree
  BY <1>0, <1>1, Kinds
<1>2. CASE LeafOK(t, path)
  BY <1>2, Kinds DEF LeafOK, Bucket
<1>3. QED
  BY <1>1, <1>2 DEF SubtreeOK, Depth

LEMMA NodeIsOK ==
    ASSUME NEW k \in 0..3, NEW path, NEW c, Branches(c), c # << >>,
           \A b \in ToSet(c) : BranchOK(b, k, path)
    PROVE  SubtreeOK(HashNode(k, c), k, path)
BY Kinds DEF SubtreeOK, NodeOK, Branches, Depth

LEMMA LeafIsOK ==
    ASSUME NEW path, NEW s, Bucket(s, path), s # << >>
    PROVE  SubtreeOK(HashLeaf(s), 4, path)
BY Kinds DEF SubtreeOK, LeafOK, Bucket, Depth

LEMMA OnPath ==
    ASSUME NEW t, TreeOK(t), NEW a \in Address, NEW k \in 0..4
    PROVE  SubtreeOK(subtreesOn(addressBytes(a), t)[k], k, addressBytes(a))
BY DEF TreeOK, Depth

(* The only leaf on a path is at its end.                                   *)
LEMMA FindAtTheEnd ==
    ASSUME NEW t, TreeOK(t), NEW a \in Address
    PROVE  findByAddress(a, t) =
              findInBucket(a, BucketOf(subtreesOn(addressBytes(a), t)[4]))
<1> DEFINE sub == subtreesOn(addressBytes(a), t)
           leaves == {k \in 0..Depth : sub[k].kind = "leaf"}
<1>1. findByAddress(a, t) =
         IF leaves = {} THEN << >>
         ELSE findInBucket(a, sub[CHOOSE k \in leaves : TRUE].bucket)
  BY DEF findByAddress, findByBytes
<1>2. \A k \in 0..3 : sub[k].kind # "leaf"
  BY OnPath, InnerSubtree
<1>3. 0..Depth = (0..3) \cup {4}
  BY DEF Depth
<1>4. SubtreeOK(sub[4], 4, addressBytes(a))
  BY OnPath
<1> HIDE DEF sub
<1>5. CASE sub[4].kind = "leaf"
  <2>1. leaves = {4}
    BY <1>2, <1>3, <1>5
  <2>2. (CHOOSE k \in {4} : TRUE) = 4
    OBVIOUS
  <2>3. sub[4].bucket = BucketOf(sub[4])
    BY <1>5 DEF BucketOf
  <2>4. QED
    BY <1>1, <2>1, <2>2, <2>3 DEF sub
<1>6. CASE sub[4].kind # "leaf"
  <2>1. leaves = {}
    BY <1>2, <1>3, <1>6
  <2>2. BucketOf(sub[4]) = << >>
    BY <1>6 DEF BucketOf
  <2>3. findInBucket(a, << >>) = << >>
    <3>1. Bucket(<< >>, addressBytes(a))
      BY DEF Bucket, ToSet, AddressesOf, IsInjective
    <3>2. QED
      BY <3>1, FindEntry
  <2>4. QED
    BY <1>1, <2>1, <2>2, <2>3 DEF sub
<1>7. QED
  BY <1>5, <1>6

-----------------------------------------------------------------------------
(* Inserting a device.                                                      *)

LEMMA InsertOnPath ==
    ASSUME NEW t, TreeOK(t), NEW d \in Device
    PROVE  LET path == addressBytes(d.address)
               sub  == subtreesOn(path, t)
               new  == insertByBytes(d.address, path, d, t)
           IN  /\ new[4] = HashLeaf(insertIntoBucket(d.address, d, BucketOf(sub[4])))
               /\ \A k \in 0..3 :
                     new[k] = HashNode(k, insertChild(path[k + 1], new[k + 1],
                                                      ChildrenOf(sub[k])))
<1> DEFINE path == addressBytes(d.address)
           sub  == subtreesOn(path, t)
           new  == insertByBytes(d.address, path, d, t)
<1>1. d.address \in Address
  BY DEF Device
<1>2. new[4] = HashLeaf(insertIntoBucket(d.address, d, BucketOf(sub[4])))
  BY InsertByDepth DEF Depth
<1>3. ASSUME NEW k \in 0..3
      PROVE  new[k] = HashNode(k, insertChild(path[k + 1], new[k + 1],
                                              ChildrenOf(sub[k])))
  <2>1. /\ sub[k].kind # "leaf"
        /\ sub[k].kind = "node" => sub[k].level = k
    <3>1. SubtreeOK(sub[k], k, path)
      BY <1>1, OnPath
    <3>2. QED
      BY <3>1, InnerSubtree, Kinds
  <2>2. k \in 0..Depth /\ k # Depth
    BY DEF Depth
  <2>3. QED
    BY <2>1, <2>2, InsertByDepth
<1>4. QED
  BY <1>2, <1>3

(* Every subtree that an insert makes on the path of the device is right,   *)
(* and the rest of the tree is not changed.                                 *)
LEMMA InsertStep ==
    ASSUME NEW t, TreeOK(t), NEW d \in Device
    PROVE  LET path == addressBytes(d.address)
               new  == insertByBytes(d.address, path, d, t)
           IN  /\ Rewrites(t, path, new)
               /\ \A k \in 0..4 : SubtreeOK(new[k], k, path)
<1> DEFINE path == addressBytes(d.address)
           sub  == subtreesOn(path, t)
           new  == insertByBytes(d.address, path, d, t)
<1>1. d.address \in Address
  BY DEF Device
<1>2. /\ new[4] = HashLeaf(insertIntoBucket(d.address, d, BucketOf(sub[4])))
      /\ \A k \in 0..3 :
            new[k] = HashNode(k, insertChild(path[k + 1], new[k + 1], ChildrenOf(sub[k])))
  BY InsertOnPath
<1>3. \A k \in 0..4 : SubtreeOK(sub[k], k, path)
  BY <1>1, OnPath
<1> HIDE DEF sub, new
<1>4. Rewrites(t, path, new)
  <2> SUFFICES ASSUME NEW k \in 0..3, NEW x
               PROVE  findChild(x, ChildrenOf(new[k])) =
                         IF x = path[k + 1] THEN new[k + 1]
                         ELSE findChild(x, ChildrenOf(sub[k]))
    BY DEF Rewrites, sub
  <2>1. Branches(ChildrenOf(sub[k]))
    BY <1>3, InnerSubtree
  <2>2. ChildrenOf(new[k]) = insertChild(path[k + 1], new[k + 1], ChildrenOf(sub[k]))
    BY <1>2, Kinds
  <2>3. QED
    BY <2>1, <2>2, InsertChildStep
<1>5. SubtreeOK(new[4], 4, path)
  <2>1. Bucket(BucketOf(sub[4]), path)
    BY <1>3, LastSubtree
  <2> DEFINE bucket == insertIntoBucket(d.address, d, BucketOf(sub[4]))
  <2>2. Bucket(bucket, path) /\ bucket # << >>
    BY <2>1, InsertIntoBucketStep
  <2>3. new[4] = HashLeaf(bucket)
    BY <1>2
  <2> HIDE DEF bucket
  <2>4. QED
    BY <2>2, <2>3, LeafIsOK
<1>6. ASSUME NEW k \in 0..3, new[k + 1] # emptyTree
      PROVE  SubtreeOK(new[k], k, path)
  <2> DEFINE old == ChildrenOf(sub[k])
             children == insertChild(path[k + 1], new[k + 1], old)
  <2>1. /\ Branches(old)
        /\ \A b \in ToSet(old) : BranchOK(b, k, path)
    BY <1>3, InnerSubtree
  <2>2. /\ Branches(children) /\ children # << >>
        /\ \A b \in ToSet(children) :
              b = Branch(path[k + 1], new[k + 1]) \/ b \in ToSet(old)
    BY <2>1, InsertChildStep
  <2>3. BranchOK(Branch(path[k + 1], new[k + 1]), k, path)
    <3>1. SamePath(k, path, path)
      BY DEF SamePath
    <3>2. QED
      BY <1>1, <1>6, <3>1 DEF BranchOK, Branch
  <2>4. new[k] = HashNode(k, children)
    BY <1>2
  <2> HIDE DEF children, old
  <2>5. QED
    BY <2>1, <2>2, <2>3, <2>4, NodeIsOK
<1>7. \A k \in 0..4 : new[k] # emptyTree
  <2>1. \A k \in 0..3 : new[k] # emptyTree
    BY <1>2, Kinds
  <2>2. new[4] # emptyTree
    BY <1>2, Kinds
  <2>3. QED
    BY <2>1, <2>2
<1>8. \A k \in 0..4 : SubtreeOK(new[k], k, path)
  BY <1>5, <1>6, <1>7
<1>9. QED
  BY <1>4, <1>8 DEF new

LEMMA InsertKeepsTree ==
    ASSUME NEW t, TreeOK(t), NEW d \in Device
    PROVE  TreeOK(insertDevice(d, t))
BY InsertStep, TreeAfter DEF insertDevice

LEMMA FindAfterInsert ==
    ASSUME NEW t, TreeOK(t), NEW d \in Device, NEW a \in Address
    PROVE  findByAddress(a, insertDevice(d, t)) =
              IF a = d.address THEN Append(findByAddress(a, t), d)
              ELSE findByAddress(a, t)
<1> DEFINE path == addressBytes(d.address)
           sub  == subtreesOn(path, t)
           new  == insertByBytes(d.address, path, d, t)
           here == addressBytes(a)
<1>1. d.address \in Address /\ TreeOK(new[0]) /\ insertDevice(d, t) = new[0]
  BY InsertKeepsTree DEF Device, insertDevice
<1>2. /\ findByAddress(a, t) = findInBucket(a, BucketOf(subtreesOn(here, t)[4]))
      /\ findByAddress(a, new[0]) =
            findInBucket(a, BucketOf(subtreesOn(here, new[0])[4]))
  BY <1>1, FindAtTheEnd
<1>3. Rewrites(t, path, new)
  BY InsertStep
<1>4. subtreesOn(here, new[0])[4] =
         IF SamePath(4, here, path) THEN new[4] ELSE subtreesOn(here, t)[4]
  BY <1>3, SubtreesAfter
<1>5. CASE ~SamePath(4, here, path)
  <2>1. a # d.address
    BY <1>5, WholePath
  <2>2. QED
    BY <1>1, <1>2, <1>4, <1>5, <2>1
<1>6. CASE SamePath(4, here, path)
  <2>1. here = path
    BY <1>6, WholePath
  <2>2. BucketOf(new[4]) = insertIntoBucket(d.address, d, BucketOf(sub[4]))
    <3>1. new[4] = HashLeaf(insertIntoBucket(d.address, d, BucketOf(sub[4])))
      BY InsertOnPath
    <3> HIDE DEF new, sub
    <3>2. QED
      BY <3>1, Kinds
  <2>3. Bucket(BucketOf(sub[4]), path)
    BY <1>1, OnPath, LastSubtree
  <2>4. findInBucket(a, BucketOf(new[4])) =
           IF a = d.address THEN Append(findInBucket(a, BucketOf(sub[4])), d)
           ELSE findInBucket(a, BucketOf(sub[4]))
    BY <2>2, <2>3, InsertIntoBucketStep
  <2>5. QED
    BY <1>1, <1>2, <1>4, <1>6, <2>1, <2>4
<1>7. QED
  BY <1>5, <1>6

-----------------------------------------------------------------------------
(* Deleting an address.                                                     *)

LEMMA NothingToDelete ==
    /\ \A byte, child : replaceChild(byte, child, << >>) = << >>
    /\ \A a : deleteFromBucket(a, << >>) = << >>
<1>1. Branches(<< >>) /\ Bucket(<< >>, << >>)
  BY DEF Branches, Bucket, ToSet, BytesOf, AddressesOf, IsInjective
<1>2. \A x : IndexOf(x, BytesOf(<< >>)) = 0 /\ IndexOf(x, AddressesOf(<< >>)) = 0
  BY <1>1, PlaceOfByte, PlaceOfAddress
<1>3. QED
  BY <1>2 DEF replaceChild, deleteFromBucket

(* An emptied bucket or list of branches leaves nothing of its tree.        *)
Leaf(bucket) == IF bucket = << >> THEN emptyTree ELSE HashLeaf(bucket)
Node(k, children) == IF children = << >> THEN emptyTree ELSE HashNode(k, children)

LEMMA DeleteOnPath ==
    ASSUME NEW t, TreeOK(t), NEW a \in Address
    PROVE  LET path == addressBytes(a)
               sub  == subtreesOn(path, t)
               rest == deleteByBytes(a, path, t)
           IN  /\ rest[4] = Leaf(deleteFromBucket(a, BucketOf(sub[4])))
               /\ \A k \in 0..3 :
                     rest[k] = Node(k, replaceChild(path[k + 1], rest[k + 1],
                                                    ChildrenOf(sub[k])))
<1> DEFINE path == addressBytes(a)
           sub  == subtreesOn(path, t)
           rest == deleteByBytes(a, path, t)
<1>1. \A k \in 0..4 : SubtreeOK(sub[k], k, path)
  BY OnPath
<1>2. rest[4] = Leaf(deleteFromBucket(a, BucketOf(sub[4])))
  <2>1. \/ sub[4] = emptyTree /\ sub[4].kind = "empty" /\ BucketOf(sub[4]) = << >>
        \/ sub[4].kind = "leaf" /\ sub[4].bucket = BucketOf(sub[4])
    BY <1>1, LastSubtree
  <2>2. rest[4] = IF sub[4].kind = "leaf"
                  THEN LET bucket == deleteFromBucket(a, sub[4].bucket) IN
                       IF bucket = << >> THEN emptyTree ELSE HashLeaf(bucket)
                  ELSE sub[4]
    BY DeleteByDepth DEF Depth
  <2> HIDE DEF sub, rest
  <2>3. QED
    BY <2>1, <2>2, NothingToDelete DEF Leaf
<1>3. ASSUME NEW k \in 0..3
      PROVE  rest[k] = Node(k, replaceChild(path[k + 1], rest[k + 1],
                                            ChildrenOf(sub[k])))
  <2>1. \/ sub[k] = emptyTree /\ sub[k].kind = "empty" /\ ChildrenOf(sub[k]) = << >>
        \/ /\ sub[k].kind = "node" /\ sub[k].level = k
           /\ sub[k].children = ChildrenOf(sub[k])
    BY <1>1, InnerSubtree
  <2>2. k \in 0..Depth /\ k # Depth
    BY DEF Depth
  <2>3. sub[k].kind = "node" =>
           rest[k] = LET children == replaceChild(path[k + 1], rest[k + 1],
                                                  sub[k].children)
                     IN  IF children = << >> THEN emptyTree
                         ELSE HashNode(sub[k].level, children)
    BY <2>2, DeleteByDepth
  <2>4. sub[k].kind = "empty" => rest[k] = sub[k]
    BY <2>2, DeleteByDepth
  <2> HIDE DEF sub, rest
  <2>5. QED
    BY <2>1, <2>3, <2>4, NothingToDelete DEF Node
<1>4. QED
  BY <1>2, <1>3

(* Every subtree that a delete leaves on the path of the address is right,  *)
(* and the rest of the tree is not changed.                                 *)
LEMMA DeleteStep ==
    ASSUME NEW t, TreeOK(t), NEW a \in Address
    PROVE  LET path == addressBytes(a)
               rest == deleteByBytes(a, path, t)
           IN  /\ Rewrites(t, path, rest)
               /\ \A k \in 0..4 : SubtreeOK(rest[k], k, path)
<1> DEFINE path == addressBytes(a)
           sub  == subtreesOn(path, t)
           rest == deleteByBytes(a, path, t)
           bucket == deleteFromBucket(a, BucketOf(sub[4]))
           children(k) == replaceChild(path[k + 1], rest[k + 1], ChildrenOf(sub[k]))
<1>1. rest[4] = Leaf(bucket) /\ \A k \in 0..3 : rest[k] = Node(k, children(k))
  BY DeleteOnPath
<1>2. \A k \in 0..4 : SubtreeOK(sub[k], k, path)
  BY OnPath
<1>3. \A k \in 0..3 : sub[k + 1] = findChild(path[k + 1], ChildrenOf(sub[k]))
  BY SubtreesByDepth
<1> HIDE DEF sub, rest
<1>4. \A k \in 0..3 : ChildrenOf(rest[k]) = children(k)
  BY <1>1, Kinds DEF Node
<1>5. \A k \in 0..4 : sub[k] = emptyTree => rest[k] = emptyTree
  <2>1. sub[4] = emptyTree => rest[4] = emptyTree
    BY <1>1, Kinds, NothingToDelete DEF Leaf
  <2>2. \A k \in 0..3 : sub[k] = emptyTree => rest[k] = emptyTree
    BY <1>1, Kinds, NothingToDelete DEF Node
  <2>3. QED
    BY <2>1, <2>2
<1>6. ASSUME NEW k \in 0..3
      PROVE  /\ Branches(children(k))
             /\ \A b \in ToSet(children(k)) :
                   \/ b \in ToSet(ChildrenOf(sub[k]))
                   \/ b = Branch(path[k + 1], rest[k + 1]) /\ rest[k + 1] # emptyTree
             /\ \A x : findChild(x, children(k)) =
                          IF x = path[k + 1] THEN rest[k + 1]
                          ELSE findChild(x, ChildrenOf(sub[k]))
  <2>1. Branches(ChildrenOf(sub[k]))
    BY <1>2, InnerSubtree
  <2>2. findChild(path[k + 1], ChildrenOf(sub[k])) = emptyTree => rest[k + 1] = emptyTree
    BY <1>3, <1>5
  <2>3. QED
    BY <2>1, <2>2, ReplaceChildStep
<1> HIDE DEF children
<1>7. Rewrites(t, path, rest)
  BY <1>4, <1>6 DEF Rewrites, sub
<1>8. SubtreeOK(rest[4], 4, path)
  <2>1. Bucket(BucketOf(sub[4]), path)
    BY <1>2, LastSubtree
  <2>2. Bucket(bucket, path)
    BY <2>1, DeleteFromBucketStep
  <2> HIDE DEF bucket
  <2>3. CASE bucket = << >>
    BY <1>1, <2>3 DEF Leaf, SubtreeOK
  <2>4. CASE bucket # << >>
    BY <1>1, <2>2, <2>4, LeafIsOK DEF Leaf
  <2>5. QED
    BY <2>3, <2>4
<1>9. ASSUME NEW k \in 0..3
      PROVE  SubtreeOK(rest[k], k, path)
  <2>1. CASE children(k) = << >>
    BY <1>1, <2>1 DEF Node, SubtreeOK
  <2>2. CASE children(k) # << >>
    <3>1. \A b \in ToSet(ChildrenOf(sub[k])) : BranchOK(b, k, path)
      BY <1>2, InnerSubtree
    <3>2. rest[k + 1] # emptyTree => BranchOK(Branch(path[k + 1], rest[k + 1]), k, path)
      <4>1. SamePath(k, path, path)
        BY DEF SamePath
      <4>2. QED
        BY <4>1 DEF BranchOK, Branch
    <3>3. rest[k] = HashNode(k, children(k))
      BY <1>1, <2>2 DEF Node
    <3>4. QED
      BY <1>6, <2>2, <3>1, <3>2, <3>3, NodeIsOK
  <2>3. QED
    BY <2>1, <2>2
<1>10. \A k \in 0..4 : SubtreeOK(rest[k], k, path)
  BY <1>8, <1>9
<1>11. QED
  BY <1>7, <1>10 DEF rest

LEMMA DeleteKeepsTree ==
    ASSUME NEW t, TreeOK(t), NEW a \in Address
    PROVE  TreeOK(deleteByAddress(a, t))
BY DeleteStep, TreeAfter DEF deleteByAddress

LEMMA FindAfterDelete ==
    ASSUME NEW t, TreeOK(t), NEW d \in Address, NEW a \in Address
    PROVE  findByAddress(a, deleteByAddress(d, t)) =
              IF a = d THEN << >> ELSE findByAddress(a, t)
<1> DEFINE path == addressBytes(d)
           sub  == subtreesOn(path, t)
           rest == deleteByBytes(d, path, t)
           here == addressBytes(a)
<1>1. TreeOK(rest[0]) /\ deleteByAddress(d, t) = rest[0]
  BY DeleteKeepsTree DEF deleteByAddress
<1>2. /\ findByAddress(a, t) = findInBucket(a, BucketOf(subtreesOn(here, t)[4]))
      /\ findByAddress(a, rest[0]) =
            findInBucket(a, BucketOf(subtreesOn(here, rest[0])[4]))
  BY <1>1, FindAtTheEnd
<1>3. Rewrites(t, path, rest)
  BY DeleteStep
<1>4. subtreesOn(here, rest[0])[4] =
         IF SamePath(4, here, path) THEN rest[4] ELSE subtreesOn(here, t)[4]
  BY <1>3, SubtreesAfter
<1>5. CASE ~SamePath(4, here, path)
  <2>1. a # d
    BY <1>5, WholePath
  <2>2. QED
    BY <1>1, <1>2, <1>4, <1>5, <2>1
<1>6. CASE SamePath(4, here, path)
  <2>1. here = path
    BY <1>6, WholePath
  <2>2. BucketOf(rest[4]) = deleteFromBucket(d, BucketOf(sub[4]))
    <3>1. rest[4] = Leaf(deleteFromBucket(d, BucketOf(sub[4])))
      BY DeleteOnPath
    <3> HIDE DEF rest, sub
    <3>2. QED
      BY <3>1, Kinds DEF Leaf
  <2>3. Bucket(BucketOf(sub[4]), path)
    BY OnPath, LastSubtree
  <2>4. findInBucket(a, BucketOf(rest[4])) =
           IF a = d THEN << >> ELSE findInBucket(a, BucketOf(sub[4]))
    <3> DEFINE s == BucketOf(sub[4])
               new == deleteFromBucket(d, s)
    <3>1. \A x : findInBucket(x, new) = IF x = d THEN << >> ELSE findInBucket(x, s)
      <4> HIDE DEF s, path
      <4>1. Bucket(s, path)
        BY <2>3 DEF s
      <4>2. QED
        BY <4>1, DeleteFromBucketStep
    <3>2. QED
      BY <2>2, <3>1
  <2>5. QED
    BY <1>1, <1>2, <1>4, <1>6, <2>1, <2>4
<1>7. QED
  BY <1>5, <1>6

-----------------------------------------------------------------------------
(* Deleting what was just inserted.                                         *)

LEMMA DeleteUndoes ==
    ASSUME NEW t, TreeOK(t), NEW d \in Device, findByAddress(d.address, t) = << >>
    PROVE  deleteByAddress(d.address, insertDevice(d, t)) = t
<1> DEFINE a    == d.address
           path == addressBytes(a)
           sub  == subtreesOn(path, t)
           new  == insertByBytes(a, path, d, t)
           rest == deleteByBytes(a, path, new[0])
           Undone(k) == rest[k] = sub[k]
<1>1. /\ a \in Address /\ TreeOK(new[0]) /\ insertDevice(d, t) = new[0]
      /\ deleteByAddress(a, new[0]) = rest[0]
  BY InsertKeepsTree DEF Device, insertDevice, deleteByAddress
<1>2. \A k \in 0..4 : SubtreeOK(sub[k], k, path)
  BY <1>1, OnPath
<1>3. sub[0] = t /\ \A k \in 0..3 : sub[k + 1] = findChild(path[k + 1], ChildrenOf(sub[k]))
  BY SubtreesByDepth
<1>4. /\ BucketOf(new[4]) = insertIntoBucket(a, d, BucketOf(sub[4]))
      /\ \A k \in 0..3 :
            ChildrenOf(new[k]) = insertChild(path[k + 1], new[k + 1], ChildrenOf(sub[k]))
  <2>1. /\ new[4] = HashLeaf(insertIntoBucket(a, d, BucketOf(sub[4])))
        /\ \A k \in 0..3 :
              new[k] = HashNode(k, insertChild(path[k + 1], new[k + 1],
                                               ChildrenOf(sub[k])))
    BY InsertOnPath
  <2> HIDE DEF new, sub
  <2>2. QED
    BY <2>1, Kinds
<1>5. \A k \in 0..4 : subtreesOn(path, new[0])[k] = new[k]
  <2>1. \A k \in 0..4 : SamePath(k, path, path)
    BY DEF SamePath
  <2>2. Rewrites(t, path, new)
    BY InsertStep
  <2> HIDE DEF new, path
  <2>3. QED
    BY <2>1, <2>2, SubtreesAfter
<1>6. /\ rest[4] = Leaf(deleteFromBucket(a, BucketOf(new[4])))
      /\ \A k \in 0..3 :
            rest[k] = Node(k, replaceChild(path[k + 1], rest[k + 1], ChildrenOf(new[k])))
  <2>1. /\ rest[4] = Leaf(deleteFromBucket(a, BucketOf(subtreesOn(path, new[0])[4])))
        /\ \A k \in 0..3 :
              rest[k] = Node(k, replaceChild(path[k + 1], rest[k + 1],
                                             ChildrenOf(subtreesOn(path, new[0])[k])))
    BY <1>1, DeleteOnPath
  <2> HIDE DEF new, rest, path
  <2>2. QED
    BY <1>5, <2>1
<1>7. findInBucket(a, BucketOf(sub[4])) = << >>
  BY <1>1, FindAtTheEnd
<1> HIDE DEF sub, new, rest
<1>8. Undone(4)
  <2>1. Bucket(BucketOf(sub[4]), path) /\ sub[4] = Leaf(BucketOf(sub[4]))
    BY <1>2, LastSubtree DEF Leaf
  <2>2. deleteFromBucket(a, BucketOf(new[4])) = BucketOf(sub[4])
    BY <1>4, <1>7, <2>1, DeleteAfterInsertBucket
  <2>3. QED
    BY <1>6, <2>1, <2>2
<1>9. ASSUME NEW k \in 0..3, Undone(k + 1)
      PROVE  Undone(k)
  <2>1. /\ Branches(ChildrenOf(sub[k])) /\ sub[k] = Node(k, ChildrenOf(sub[k]))
        /\ \A b \in ToSet(ChildrenOf(sub[k])) : b.child # emptyTree
    BY <1>2, InnerSubtree DEF Node, BranchOK
  <2>2. rest[k + 1] = findChild(path[k + 1], ChildrenOf(sub[k]))
    BY <1>3, <1>9
  <2>3. replaceChild(path[k + 1], rest[k + 1], ChildrenOf(new[k])) = ChildrenOf(sub[k])
    BY <1>4, <2>1, <2>2, ReplaceAfterInsert
  <2>4. QED
    BY <1>6, <2>1, <2>3
<1> HIDE DEF Undone
<1>10. Undone(0)
  <2>1. Undone(3)
    BY <1>8, <1>9
  <2>2. Undone(2)
    BY <2>1, <1>9
  <2>3. Undone(1)
    BY <2>2, <1>9
  <2>4. QED
    BY <2>3, <1>9
<1>11. QED
  BY <1>1, <1>3, <1>10 DEF Undone

-----------------------------------------------------------------------------
(* Lists of devices.                                                        *)

(* What holds at 0 and is kept from each number to the next holds up to n.  *)
LEMMA UpTo ==
    ASSUME NEW n \in Nat, NEW S, 0 \in S,
           \A i \in 0..(n - 1) : i \in S => i + 1 \in S
    PROVE  \A i \in 0..n : i \in S
<1> DEFINE T == {i \in 0..n : i \notin S}
           less == OpToRel(<, Nat)
<1>1. SUFFICES ASSUME T # {} PROVE FALSE
  OBVIOUS
<1>2. IsWellFoundedOn(less, Nat)
  BY NatLessThanWellFounded
<1>3. \A i, j \in Nat : i < j => <<i, j>> \in less
  BY DEF OpToRel
<1>0. T \subseteq Nat
  OBVIOUS
<1> HIDE DEF less, T
<1>4. PICK i \in T : \A j \in T : ~(<<j, i>> \in less)
  BY <1>0, <1>1, <1>2, WFMin
<1>5. i \in 0..n /\ i \notin S /\ i # 0
  BY <1>4 DEF T
<1>6. i - 1 \in 0..(n - 1) /\ (i - 1) + 1 = i
  BY <1>5
<1>7. i - 1 \notin S
  BY <1>5, <1>6
<1>8. i - 1 \in T /\ i - 1 < i /\ i - 1 \in Nat /\ i \in Nat
  BY <1>5, <1>6, <1>7 DEF T
<1>9. QED
  BY <1>3, <1>4, <1>8

(* fromList goes through the trees of the beginnings of its list.           *)
LEMMA TreesOfList ==
    ASSUME NEW devices \in Seq(Device)
    PROVE  \E trees : /\ fromList(devices) = trees[Len(devices)]
                      /\ trees[0] = emptyTree
                      /\ \A i \in 1..Len(devices) :
                            trees[i] = insertDevice(devices[i], trees[i - 1])
<1> DEFINE all == Len(devices)
           Value(i, f) == IF i = 0 THEN emptyTree ELSE insertDevice(devices[i], f[i - 1])
           Built(n, f) == f = [i \in 0..n |-> Value(i, f)]
           S == {n \in 0..all : \E f : Built(n, f)}
<1>1. fromList(devices) = (CHOOSE f : Built(all, f))[all] /\ all \in Nat
  BY DEF fromList
<1>2. 0 \in S
  <2>1. Built(0, [i \in 0..0 |-> emptyTree])
    OBVIOUS
  <2> HIDE DEF Built
  <2>2. QED
    BY <1>1, <2>1
<1>3. ASSUME NEW n \in 0..(all - 1), n \in S
      PROVE  n + 1 \in S
  <2>1. PICK f : Built(n, f)
    BY <1>3
  <2> DEFINE last == insertDevice(devices[n + 1], f[n])
             g == [i \in 0..(n + 1) |-> IF i = n + 1 THEN last ELSE f[i]]
  <2>2. \A i \in 0..n : f[i] = Value(i, f)
    BY <2>1
  <2>3. ASSUME NEW i \in 0..(n + 1)
        PROVE  g[i] = Value(i, g)
    <3>1. CASE i = n + 1
      BY <1>1, <3>1
    <3>2. CASE i = 0
      BY <1>1, <2>2, <3>2
    <3>3. CASE i \in 1..n
      <4>1. i - 1 \in 0..n /\ g[i - 1] = f[i - 1] /\ g[i] = f[i]
        BY <1>1, <3>3
      <4>2. QED
        BY <2>2, <3>3, <4>1
    <3>4. QED
      BY <1>1, <3>1, <3>2, <3>3
  <2>4. Built(n + 1, g)
    <3> HIDE DEF Value, last
    <3>1. QED
      BY <2>3
  <2>5. n + 1 \in 0..all
    BY <1>1
  <2> HIDE DEF Built, g
  <2>6. QED
    BY <2>4, <2>5
<1>4. \E f : Built(all, f)
  <2> HIDE DEF S
  <2>1. \A i \in 0..all : i \in S
    BY <1>1, <1>2, <1>3, UpTo
  <2>2. all \in S
    BY <1>1, <2>1
  <2>3. QED
    BY <2>2 DEF S
<1> HIDE DEF Built
<1>5. PICK f : Built(all, f) /\ fromList(devices) = f[all]
  BY <1>1, <1>4
<1>6. \A i \in 0..all : f[i] = Value(i, f)
  BY <1>5 DEF Built
<1>7. f[0] = emptyTree
  BY <1>1, <1>6
<1>8. \A i \in 1..all : f[i] = insertDevice(devices[i], f[i - 1])
  BY <1>1, <1>6
<1>9. QED
  BY <1>5, <1>7, <1>8

LEMMA IndicesOfList ==
    ASSUME NEW devices \in Seq(Device)
    PROVE  \E indices : /\ Abstract!IndexOfList(devices) = indices[Len(devices)]
                        /\ indices[0] = [a \in Address |-> << >>]
                        /\ \A i \in 1..Len(devices) :
                              indices[i] = Abstract!With(devices[i], indices[i - 1])
<1> DEFINE all == Len(devices)
           Value(i, f) == IF i = 0 THEN [a \in Address |-> << >>]
                          ELSE Abstract!With(devices[i], f[i - 1])
           Built(n, f) == f = [i \in 0..n |-> Value(i, f)]
           S == {n \in 0..all : \E f : Built(n, f)}
<1>1. Abstract!IndexOfList(devices) = (CHOOSE f : Built(all, f))[all] /\ all \in Nat
  BY DEF Abstract!IndexOfList
<1>2. 0 \in S
  <2>1. Built(0, [i \in 0..0 |-> [a \in Address |-> << >>]])
    OBVIOUS
  <2> HIDE DEF Built
  <2>2. QED
    BY <1>1, <2>1
<1>3. ASSUME NEW n \in 0..(all - 1), n \in S
      PROVE  n + 1 \in S
  <2>1. PICK f : Built(n, f)
    BY <1>3
  <2> DEFINE last == Abstract!With(devices[n + 1], f[n])
             g == [i \in 0..(n + 1) |-> IF i = n + 1 THEN last ELSE f[i]]
  <2>2. \A i \in 0..n : f[i] = Value(i, f)
    BY <2>1
  <2>3. ASSUME NEW i \in 0..(n + 1)
        PROVE  g[i] = Value(i, g)
    <3>1. CASE i = n + 1
      BY <1>1, <3>1
    <3>2. CASE i = 0
      BY <1>1, <2>2, <3>2
    <3>3. CASE i \in 1..n
      <4>1. i - 1 \in 0..n /\ g[i - 1] = f[i - 1] /\ g[i] = f[i]
        BY <1>1, <3>3
      <4>2. QED
        BY <2>2, <3>3, <4>1
    <3>4. QED
      BY <1>1, <3>1, <3>2, <3>3
  <2>4. Built(n + 1, g)
    <3> HIDE DEF Value, last
    <3>1. QED
      BY <2>3
  <2>5. n + 1 \in 0..all
    BY <1>1
  <2> HIDE DEF Built, g
  <2>6. QED
    BY <2>4, <2>5
<1>4. \E f : Built(all, f)
  <2> HIDE DEF S
  <2>1. \A i \in 0..all : i \in S
    BY <1>1, <1>2, <1>3, UpTo
  <2>2. all \in S
    BY <1>1, <2>1
  <2>3. QED
    BY <2>2 DEF S
<1> HIDE DEF Built
<1>5. PICK f : Built(all, f) /\ Abstract!IndexOfList(devices) = f[all]
  BY <1>1, <1>4
<1>6. \A i \in 0..all : f[i] = Value(i, f)
  BY <1>5 DEF Built
<1>7. f[0] = [a \in Address |-> << >>]
  BY <1>1, <1>6
<1>8. \A i \in 1..all : f[i] = Abstract!With(devices[i], f[i - 1])
  BY <1>1, <1>6
<1>9. QED
  BY <1>5, <1>7, <1>8

LEMMA EmptyIsRight ==
    /\ TreeOK(emptyTree)
    /\ \A a \in Address : findByAddress(a, emptyTree) = << >>
<1>0. Branches(<< >>) /\ \A path : Bucket(<< >>, path)
  BY DEF Branches, Bucket, ToSet, BytesOf, AddressesOf, IsInjective
<1>1. \A x : findChild(x, << >>) = emptyTree /\ findInBucket(x, << >>) = << >>
  BY <1>0, FindBranch, FindEntry
<1>2. ASSUME NEW path, NEW k \in 0..4
      PROVE  subtreesOn(path, emptyTree)[k] = emptyTree
  <2> DEFINE sub == subtreesOn(path, emptyTree)
  <2>1. /\ sub[0] = emptyTree
        /\ \A i \in 0..3 : sub[i + 1] = findChild(path[i + 1], ChildrenOf(sub[i]))
    BY SubtreesByDepth
  <2> HIDE DEF sub
  <2>2. \A i \in 0..3 : sub[i] = emptyTree => sub[i + 1] = emptyTree
    BY <1>1, <2>1, Kinds
  <2>3. sub[1] = emptyTree /\ sub[2] = emptyTree /\ sub[3] = emptyTree
    <3>1. sub[0 + 1] = emptyTree
      BY <2>1, <2>2
    <3>2. sub[1 + 1] = emptyTree
      BY <2>2, <3>1
    <3>3. sub[2 + 1] = emptyTree
      BY <2>2, <3>2
    <3>4. QED
      BY <3>1, <3>2, <3>3
  <2>4. sub[3 + 1] = emptyTree
    BY <2>2, <2>3
  <2>5. QED
    BY <2>1, <2>3, <2>4 DEF sub
<1>3. TreeOK(emptyTree)
  BY <1>2 DEF TreeOK, SubtreeOK, Depth
<1>4. QED
  BY <1>1, <1>2, <1>3, FindAtTheEnd, Kinds

(* The trees and the indices of the beginnings of a list agree.             *)
LEMMA ListIsRight ==
    ASSUME NEW devices \in Seq(Device)
    PROVE  /\ TreeOK(fromList(devices))
           /\ Abstract!IndexOfList(devices) =
                 [a \in Address |-> findByAddress(a, fromList(devices))]
<1>1. PICK trees : /\ fromList(devices) = trees[Len(devices)]
                   /\ trees[0] = emptyTree
                   /\ \A i \in 1..Len(devices) :
                         trees[i] = insertDevice(devices[i], trees[i - 1])
  BY TreesOfList
<1>2. PICK indices : /\ Abstract!IndexOfList(devices) = indices[Len(devices)]
                     /\ indices[0] = [a \in Address |-> << >>]
                     /\ \A i \in 1..Len(devices) :
                           indices[i] = Abstract!With(devices[i], indices[i - 1])
  BY IndicesOfList
<1> DEFINE all == Len(devices)
           Agree(i) == /\ TreeOK(trees[i])
                       /\ indices[i] = [a \in Address |-> findByAddress(a, trees[i])]
           S == {i \in 0..all : Agree(i)}
<1>3. all \in Nat /\ \A i \in 1..all : devices[i] \in Device
  OBVIOUS
<1>4. 0 \in S
  BY <1>1, <1>2, <1>3, EmptyIsRight
<1>5. ASSUME NEW i \in 0..(all - 1), i \in S
      PROVE  i + 1 \in S
  <2> DEFINE d == devices[i + 1]
             t == trees[i]
  <2>1. i + 1 \in 1..all /\ i + 1 \in 0..all /\ (i + 1) - 1 = i
    BY <1>3
  <2>2. TreeOK(t) /\ indices[i] = [a \in Address |-> findByAddress(a, t)]
    BY <1>5
  <2>3. d \in Device /\ d.address \in Address
    BY <1>3, <2>1 DEF Device
  <2>4. trees[i + 1] = insertDevice(d, t) /\ indices[i + 1] = Abstract!With(d, indices[i])
    BY <1>1, <1>2, <2>1
  <2> HIDE DEF d, t
  <2>5. TreeOK(insertDevice(d, t))
    BY <2>2, <2>3, InsertKeepsTree
  <2>6. \A a \in Address : findByAddress(a, insertDevice(d, t)) =
           IF a = d.address THEN Append(findByAddress(a, t), d) ELSE findByAddress(a, t)
    BY <2>2, <2>3, FindAfterInsert
  <2>7. Abstract!With(d, indices[i]) =
           [a \in Address |-> findByAddress(a, insertDevice(d, t))]
    BY <2>2, <2>3, <2>6 DEF Abstract!With
  <2>8. QED
    BY <2>1, <2>4, <2>5, <2>7
<1> HIDE DEF Agree
<1>6. all \in S
  <2> HIDE DEF S
  <2>1. \A i \in 0..all : i \in S
    BY <1>3, <1>4, <1>5, UpTo
  <2>2. QED
    BY <1>3, <2>1
<1>7. QED
  BY <1>1, <1>2, <1>6 DEF Agree

-----------------------------------------------------------------------------
(* The theorems.                                                            *)

(* Whatever a program in the monad inserts and deletes, and whatever list   *)
(* it starts from, every branch leads to a leaf with a device at depth 4,   *)
(* no byte has two branches and every address lies on its own path: the     *)
(* clauses of insertByBytes, findByBytes and deleteByBytes that the code    *)
(* calls impossible are never reached.                                      *)
THEOREM TreeIsRight == Spec => []TypeOK
<1>1. Init => TypeOK
  <2>1. ASSUME NEW devices \in Files, tree = fromList(devices)
        PROVE  TypeOK
    BY <2>1, FilesAssumption, ListIsRight DEF TypeOK
  <2>2. QED
    BY <2>1, EmptyIsRight DEF Init, TypeOK
<1>2. TypeOK /\ [Next]_tree => TypeOK'
  <2> SUFFICES ASSUME TypeOK, [Next]_tree PROVE TypeOK'
    OBVIOUS
  <2>1. ASSUME NEW d \in Device, addDeviceM(d)
        PROVE  TypeOK'
    BY <2>1, InsertKeepsTree DEF addDeviceM, TypeOK
  <2>2. ASSUME NEW a \in Address, deleteByAddressM(a)
        PROVE  TypeOK'
    BY <2>2, DeleteKeepsTree DEF deleteByAddressM, TypeOK
  <2>3. CASE UNCHANGED tree
    BY <2>3 DEF TypeOK
  <2>4. QED
    BY <2>1, <2>2, <2>3 DEF Next
<1>3. QED
  BY <1>1, <1>2, PTL DEF Spec

(* A delete of an address that was not in the tree before its device was    *)
(* inserted restores the very tree: the branches that the insert made are   *)
(* gone, and the others stand where they stood.                             *)
THEOREM DeleteRestoresTree == Spec => []DeleteUndoesInsert
<1>1. TypeOK => DeleteUndoesInsert
  BY DeleteUndoes DEF TypeOK, DeleteUndoesInsert
<1>2. QED
  BY <1>1, TreeIsRight, PTL

(* Beside the abstract index the tree goes through its own steps.           *)
LEMMA IndexedTree == IndexedSpec => Spec
<1>1. IndexedInit => Init
  BY DEF IndexedInit, Init
<1>2. [IndexedNext]_<<tree, index>> => [Next]_tree
  BY DEF IndexedNext, Next
<1>3. QED
  BY <1>1, <1>2, PTL DEF IndexedSpec, Spec

IndexIsMeaning == index = [a \in Address |-> findByAddress(a, tree)]

(* What find returns is at every moment what the abstract index holds: the  *)
(* tree implements it, for any addresses, also such as share their bytes    *)
(* with others or lie outside 32 bits.                                      *)
THEOREM FindIsIndex == IndexedSpec => []FindGivesIndex
<1>1. IndexedInit => IndexIsMeaning
  <2>1. CASE tree = emptyTree /\ index = Abstract!IndexOfList(<< >>)
    <3>1. << >> \in Seq(Device) /\ Len(<< >>) = 0
      OBVIOUS
    <3>2. /\ fromList(<< >>) = emptyTree
          /\ Abstract!IndexOfList(<< >>) =
                [a \in Address |-> findByAddress(a, fromList(<< >>))]
      BY <3>1, TreesOfList, ListIsRight
    <3>3. QED
      BY <2>1, <3>2 DEF IndexIsMeaning
  <2>2. ASSUME NEW devices \in Files, tree = fromList(devices),
               index = Abstract!IndexOfList(devices)
        PROVE  IndexIsMeaning
    BY <2>2, FilesAssumption, ListIsRight DEF IndexIsMeaning
  <2>3. QED
    BY <2>1, <2>2 DEF IndexedInit
<1>2. TypeOK /\ IndexIsMeaning /\ [IndexedNext]_<<tree, index>> => IndexIsMeaning'
  <2> SUFFICES ASSUME TypeOK, IndexIsMeaning, [IndexedNext]_<<tree, index>>
               PROVE  IndexIsMeaning'
    OBVIOUS
  <2>0. TreeOK(tree)
    BY DEF TypeOK
  <2>1. ASSUME NEW d \in Device, addDeviceM(d), Abstract!Add(d)
        PROVE  IndexIsMeaning'
    <3>1. d.address \in Address
      BY DEF Device
    <3>2. tree' = insertDevice(d, tree) /\ index' = Abstract!With(d, index)
      BY <2>1 DEF addDeviceM, Abstract!Add
    <3>3. \A a \in Address : findByAddress(a, insertDevice(d, tree)) =
             IF a = d.address THEN Append(findByAddress(a, tree), d)
             ELSE findByAddress(a, tree)
      BY <2>0, FindAfterInsert
    <3>4. index' = [a \in Address |-> findByAddress(a, insertDevice(d, tree))]
      BY <3>1, <3>2, <3>3 DEF IndexIsMeaning, Abstract!With
    <3>5. QED
      BY <3>2, <3>4 DEF IndexIsMeaning
  <2>2. ASSUME NEW b \in Address, deleteByAddressM(b), Abstract!Delete(b)
        PROVE  IndexIsMeaning'
    <3>1. tree' = deleteByAddress(b, tree) /\ index' = [index EXCEPT ![b] = << >>]
      BY <2>2 DEF deleteByAddressM, Abstract!Delete
    <3>2. \A a \in Address : findByAddress(a, deleteByAddress(b, tree)) =
             IF a = b THEN << >> ELSE findByAddress(a, tree)
      BY <2>0, FindAfterDelete
    <3>3. index' = [a \in Address |-> findByAddress(a, deleteByAddress(b, tree))]
      BY <3>1, <3>2 DEF IndexIsMeaning
    <3>4. QED
      BY <3>1, <3>3 DEF IndexIsMeaning
  <2>3. CASE UNCHANGED <<tree, index>>
    BY <2>3 DEF IndexIsMeaning
  <2>4. QED
    BY <2>1, <2>2, <2>3 DEF IndexedNext
<1>3. IndexIsMeaning => FindGivesIndex
  BY DEF IndexIsMeaning, FindGivesIndex
<1>4. IndexedSpec => []TypeOK
  BY IndexedTree, TreeIsRight, PTL
<1>5. QED
  BY <1>1, <1>2, <1>3, <1>4, PTL DEF IndexedSpec

-----------------------------------------------------------------------------
(* The list of a tree.                                                      *)

LEMMA NoneTogether ==
    ASSUME NEW list \in Seq(Device), NEW a
    PROVE  StandTogether(<< >>, list, a)
             <=> \A j \in 1..Len(list) : list[j].address # a
<1>1. DOMAIN list = 1..Len(list) /\ Len(list) \in Nat /\ DOMAIN << >> = {}
      /\ Len(<< >>) = 0
  OBVIOUS
<1>2. \A n \in 0..Len(list) : (n + 1)..(n + 0) = {}
  OBVIOUS
<1>3. 0 \in 0..Len(list)
  BY <1>1
<1>4. QED
  BY <1>1, <1>2, <1>3 DEF StandTogether

(* The empty list has no device of any address.                             *)
LEMMA NoneInEmpty == << >> \in Seq(Device) /\ \A a : StandTogether(<< >>, << >>, a)
<1>1. << >> \in Seq(Device)
  OBVIOUS
<1>2. PICK e \in Seq(Device) : e = << >>
  BY <1>1
<1>3. 1..Len(e) = {}
  BY <1>2
<1>4. \A a : StandTogether(<< >>, e, a)
  BY <1>3, NoneTogether
<1>5. QED
  BY <1>1, <1>2, <1>4

LEMMA TogetherInConcat ==
    ASSUME NEW s \in Seq(Device), NEW r \in Seq(Device), NEW found \in Seq(Device), NEW a
    PROVE  /\ StandTogether(<< >>, s, a) /\ StandTogether(found, r, a)
                => StandTogether(found, s \o r, a)
           /\ StandTogether(found, s, a) /\ StandTogether(<< >>, r, a)
                => StandTogether(found, s \o r, a)
<1> DEFINE m == Len(s)
           k == Len(r)
           f == Len(found)
           t == s \o r
<1>1. /\ m \in Nat /\ k \in Nat /\ f \in Nat
      /\ DOMAIN s = 1..m /\ DOMAIN r = 1..k /\ DOMAIN found = 1..f
      /\ DOMAIN t = 1..(m + k) /\ Len(t) = m + k
      /\ \A j \in 1..m : t[j] = s[j]
      /\ \A j \in (m + 1)..(m + k) : t[j] = r[j - m]
  OBVIOUS
<1> HIDE DEF m, k, f, t
<1>2. ASSUME StandTogether(<< >>, s, a), StandTogether(found, r, a)
      PROVE  StandTogether(found, t, a)
  <2>1. PICK n \in 0..k :
           /\ \A i \in 1..f : n + i \in 1..k /\ r[n + i] = found[i]
           /\ \A j \in 1..k : r[j].address = a <=> j \in (n + 1)..(n + f)
    BY <1>1, <1>2 DEF StandTogether, k, f
  <2>2. \A j \in 1..m : s[j].address # a
    BY <1>2, NoneTogether DEF m
  <2>3. m + n \in 0..(m + k)
    BY <1>1
  <2>4. ASSUME NEW i \in 1..f
        PROVE  (m + n) + i \in 1..(m + k) /\ t[(m + n) + i] = found[i]
    <3>1. n + i \in 1..k /\ r[n + i] = found[i]
      BY <2>1
    <3>2. (m + n) + i \in (m + 1)..(m + k) /\ ((m + n) + i) - m = n + i
      BY <1>1, <3>1
    <3>3. t[(m + n) + i] = r[n + i]
      BY <1>1, <3>2
    <3>4. QED
      BY <1>1, <3>1, <3>2, <3>3
  <2>5. ASSUME NEW j \in 1..(m + k)
        PROVE  t[j].address = a <=> j \in ((m + n) + 1)..((m + n) + f)
    <3>1. CASE j <= m
      BY <1>1, <2>2, <3>1
    <3>2. CASE j > m
      <4>1. j - m \in 1..k /\ j \in (m + 1)..(m + k)
        BY <1>1, <3>2
      <4>2. t[j] = r[j - m]
        BY <1>1, <4>1
      <4>3. r[j - m].address = a <=> j - m \in (n + 1)..(n + f)
        BY <2>1, <4>1
      <4>4. j - m \in (n + 1)..(n + f) <=> j \in ((m + n) + 1)..((m + n) + f)
        BY <1>1
      <4>5. QED
        BY <4>2, <4>3, <4>4
    <3>3. QED
      BY <1>1, <3>1, <3>2
  <2>6. QED
    BY <1>1, <2>3, <2>4, <2>5 DEF StandTogether, f
<1>3. ASSUME StandTogether(found, s, a), StandTogether(<< >>, r, a)
      PROVE  StandTogether(found, t, a)
  <2>1. PICK n \in 0..m :
           /\ \A i \in 1..f : n + i \in 1..m /\ s[n + i] = found[i]
           /\ \A j \in 1..m : s[j].address = a <=> j \in (n + 1)..(n + f)
    BY <1>1, <1>3 DEF StandTogether, m, f
  <2>2. \A j \in 1..k : r[j].address # a
    BY <1>3, NoneTogether DEF k
  <2>3. n \in 0..(m + k)
    BY <1>1
  <2>4. \A i \in 1..f : n + i \in 1..(m + k) /\ t[n + i] = found[i]
    BY <1>1, <2>1
  <2>5. ASSUME NEW j \in 1..(m + k)
        PROVE  t[j].address = a <=> j \in (n + 1)..(n + f)
    <3>1. CASE j <= m
      <4>1. j \in 1..m /\ t[j] = s[j]
        BY <1>1, <3>1
      <4>2. QED
        BY <2>1, <4>1
    <3>2. CASE j > m
      <4>1. j - m \in 1..k /\ j \in (m + 1)..(m + k)
        BY <1>1, <3>2
      <4>2. t[j] = r[j - m]
        BY <1>1, <4>1
      <4>3. n + f <= m
        <5>1. CASE f = 0
          BY <1>1, <5>1
        <5>2. CASE f # 0
          <6>1. f \in 1..f
            BY <1>1, <5>2
          <6>2. QED
            BY <1>1, <2>1, <6>1
        <5>3. QED
          BY <5>1, <5>2
      <4>4. j \notin (n + 1)..(n + f)
        BY <1>1, <3>2, <4>3
      <4>5. QED
        BY <2>2, <4>1, <4>2, <4>4
    <3>3. QED
      BY <1>1, <3>1, <3>2
  <2>6. QED
    BY <1>1, <2>3, <2>4, <2>5 DEF StandTogether, f
<1>4. QED
  BY <1>2, <1>3 DEF t

(* FlattenSeq joins the lists one after the other.                          *)
LEMMA JoinedLists ==
    ASSUME NEW V, NEW seqs \in Seq(V), seqs # << >>
    PROVE  \E joined : /\ FlattenSeq(seqs) = joined[Len(seqs)]
                       /\ joined[1] = seqs[1]
                       /\ \A i \in 2..Len(seqs) : joined[i] = joined[i - 1] \o seqs[i]
<1> DEFINE all == Len(seqs)
           Value(i, f) == IF i = 1 THEN seqs[i] ELSE f[i - 1] \o seqs[i]
           Built(n, f) == f = [i \in 1..n |-> Value(i, f)]
           S == {n \in 0..all : \E f : Built(n, f)}
<1>1. FlattenSeq(seqs) = (CHOOSE f : Built(all, f))[all] /\ all \in Nat \ {0}
  BY DEF FlattenSeq
<1>2. 0 \in S
  <2>1. Built(0, [i \in 1..0 |-> Value(i, << >>)])
    OBVIOUS
  <2> HIDE DEF Built
  <2>2. QED
    BY <1>1, <2>1
<1>3. ASSUME NEW n \in 0..(all - 1), n \in S
      PROVE  n + 1 \in S
  <2>1. PICK f : Built(n, f)
    BY <1>3
  <2> DEFINE last == Value(n + 1, f)
             g == [i \in 1..(n + 1) |-> IF i = n + 1 THEN last ELSE f[i]]
  <2>2. \A i \in 1..n : f[i] = Value(i, f)
    BY <2>1
  <2>3. ASSUME NEW i \in 1..(n + 1)
        PROVE  g[i] = Value(i, g)
    <3>1. CASE i = n + 1
      <4>1. i # 1 => g[i - 1] = f[i - 1]
        BY <1>1, <3>1
      <4>2. g[i] = Value(i, f)
        BY <1>1, <3>1
      <4>3. QED
        BY <4>1, <4>2
    <3>2. CASE i \in 1..n
      <4>1. (i # 1 => g[i - 1] = f[i - 1]) /\ g[i] = f[i]
        BY <1>1, <3>2
      <4>2. QED
        BY <2>2, <3>2, <4>1
    <3>3. QED
      BY <1>1, <3>1, <3>2
  <2>4. Built(n + 1, g)
    <3> HIDE DEF Value, last
    <3>1. QED
      BY <2>3
  <2>5. n + 1 \in 0..all
    BY <1>1
  <2> HIDE DEF Built, g
  <2>6. QED
    BY <2>4, <2>5
<1>4. \E f : Built(all, f)
  <2> HIDE DEF S
  <2>1. \A i \in 0..all : i \in S
    BY <1>1, <1>2, <1>3, UpTo
  <2>2. all \in S
    BY <1>1, <2>1
  <2>3. QED
    BY <2>2 DEF S
<1> HIDE DEF Built
<1>5. PICK f : Built(all, f) /\ FlattenSeq(seqs) = f[all]
  BY <1>1, <1>4
<1>6. \A i \in 1..all : f[i] = Value(i, f)
  BY <1>5 DEF Built
<1>7. f[1] = seqs[1]
  BY <1>1, <1>6
<1>8. ASSUME NEW i \in 2..all
      PROVE  f[i] = f[i - 1] \o seqs[i]
  <2>1. i \in 1..all /\ i # 1
    BY <1>1
  <2>2. f[i] = Value(i, f)
    BY <1>6, <2>1
  <2>3. QED
    BY <2>1, <2>2
<1>9. QED
  BY <1>5, <1>7, <1>8

(* When only the m-th of some lists has devices of an address, they stand   *)
(* together in all of them joined; none has when m is 0.                    *)
LEMMA TogetherInJoined ==
    ASSUME NEW seqs \in Seq(Seq(Device)), NEW a, NEW found \in Seq(Device),
           NEW m \in 0..Len(seqs),
           m = 0 => found = << >>,
           m # 0 => StandTogether(found, seqs[m], a),
           \A i \in 1..Len(seqs) : i # m => StandTogether(<< >>, seqs[i], a)
    PROVE  FlattenSeq(seqs) \in Seq(Device) /\ StandTogether(found, FlattenSeq(seqs), a)
<1> DEFINE all == Len(seqs)
<1>1. all \in Nat /\ \A i \in 1..all : seqs[i] \in Seq(Device)
  OBVIOUS
<1>2. CASE seqs = << >>
  <2>1. FlattenSeq(seqs) = << >> /\ << >> \in Seq(Device) /\ Len(<< >>) = 0
    BY <1>2 DEF FlattenSeq
  <2>2. found = << >>
    BY <1>2
  <2>3. StandTogether(<< >>, << >>, a)
    BY NoneInEmpty
  <2>4. QED
    BY <2>1, <2>2, <2>3
<1>3. CASE seqs # << >>
  <2>1. PICK joined : /\ FlattenSeq(seqs) = joined[all]
                      /\ joined[1] = seqs[1]
                      /\ \A i \in 2..all : joined[i] = joined[i - 1] \o seqs[i]
    BY <1>3, JoinedLists
  <2> DEFINE upTo(i) == IF m # 0 /\ m <= i THEN found ELSE << >>
             Right(i) == joined[i] \in Seq(Device) /\ StandTogether(upTo(i), joined[i], a)
             S == {i \in 0..all : i = 0 \/ Right(i)}
  <2>2. 0 \in S
    BY <1>1
  <2>3. ASSUME NEW i \in 0..(all - 1), i \in S
        PROVE  i + 1 \in S
    <3>1. i + 1 \in 0..all /\ i + 1 \in 1..all /\ (i + 1) - 1 = i /\ i \in Nat
      BY <1>1
    <3>2. CASE i = 0
      <4>1. joined[i + 1] = seqs[i + 1] /\ seqs[i + 1] \in Seq(Device)
        BY <1>1, <2>1, <3>1, <3>2
      <4>2. StandTogether(upTo(i + 1), seqs[i + 1], a)
        BY <3>1, <3>2
      <4>3. QED
        BY <3>1, <4>1, <4>2
    <3>3. CASE i # 0
      <4>1. joined[i + 1] = joined[i] \o seqs[i + 1] /\ seqs[i + 1] \in Seq(Device)
        <5>1. i + 1 \in 2..all
          BY <3>1, <3>3
        <5>2. QED
          BY <1>1, <2>1, <3>1, <5>1
      <4>2. joined[i] \in Seq(Device) /\ StandTogether(upTo(i), joined[i], a)
        BY <2>3, <3>3
      <4>3. joined[i + 1] \in Seq(Device)
        BY <4>1, <4>2
      <4>4. StandTogether(upTo(i + 1), joined[i + 1], a)
        <5>1. CASE m = i + 1
          <6>1. upTo(i) = << >> /\ upTo(i + 1) = found
            BY <3>1, <5>1
          <6>2. StandTogether(found, seqs[i + 1], a)
            BY <3>1, <5>1
          <6>3. QED
            BY <4>1, <4>2, <6>1, <6>2, TogetherInConcat
        <5>2. CASE m # i + 1
          <6>1. upTo(i + 1) = upTo(i) /\ upTo(i) \in Seq(Device)
            BY <3>1, <5>2
          <6>2. StandTogether(<< >>, seqs[i + 1], a)
            BY <3>1, <5>2
          <6> HIDE DEF upTo
          <6>3. QED
            BY <4>1, <4>2, <6>1, <6>2, TogetherInConcat
        <5>3. QED
          BY <5>1, <5>2
      <4>5. QED
        BY <3>1, <4>3, <4>4
    <3>4. QED
      BY <3>2, <3>3
  <2> HIDE DEF Right
  <2>4. all \in S
    <3> HIDE DEF S
    <3>1. \A i \in 0..all : i \in S
      BY <1>1, <2>2, <2>3, UpTo
    <3>2. QED
      BY <1>1, <3>1
  <2>5. Right(all)
    BY <1>1, <1>3, <2>4
  <2>6. upTo(all) = found
    BY <1>1
  <2>7. QED
    BY <2>1, <2>5, <2>6 DEF Right
<1>4. QED
  BY <1>2, <1>3

(* The list of the devices of an entry has only devices of its address.     *)
LEMMA ListOfEntry ==
    ASSUME NEW path, NEW entry, EntryOK(entry, path), NEW a
    PROVE  LET list == devicesFromPair(entry) IN
           /\ list \in Seq(Device)
           /\ entry.addr = a => StandTogether(list, list, a)
           /\ entry.addr # a => StandTogether(<< >>, list, a)
<1> DEFINE list == devicesFromPair(entry)
           old == entry.devices
           n == Len(old)
<1>1. old \in Seq({d \in Device : d.address = entry.addr})
  BY DEF EntryOK
<1>2. n \in Nat /\ \A i \in 1..n : old[i] \in Device /\ old[i].address = entry.addr
  BY <1>1
<1> HIDE DEF old, n
<1>3. list = [i \in 1..n |-> old[(n - i) + 1]]
  BY DEF devicesFromPair, Reverse, old, n
<1>4. \A i \in 1..n : (n - i) + 1 \in 1..n
  BY <1>2
<1>5. list \in Seq(Device) /\ Len(list) = n
      /\ \A i \in 1..n : list[i].address = entry.addr
  BY <1>2, <1>3, <1>4
<1> HIDE DEF list
<1>6. ASSUME entry.addr = a
      PROVE  StandTogether(list, list, a)
  <2>1. 0 \in 0..Len(list) /\ DOMAIN list = 1..n
    BY <1>2, <1>5
  <2>2. \A i \in 1..n : 0 + i = i
    BY <1>2
  <2>3. (0 + 1)..(0 + n) = 1..n
    BY <1>2
  <2>4. QED
    BY <1>5, <1>6, <2>1, <2>2, <2>3 DEF StandTogether
<1>7. entry.addr # a => StandTogether(<< >>, list, a)
  BY <1>5, NoneTogether
<1>8. QED
  BY <1>5, <1>6, <1>7 DEF list

(* The list of a leaf.                                                      *)
LEMMA ListOfBucket ==
    ASSUME NEW path, NEW s, Bucket(s, path), NEW a
    PROVE  LET list == FlattenSeq([i \in DOMAIN s |-> devicesFromPair(s[i])]) IN
           /\ list \in Seq(Device)
           /\ findInBucket(a, s) \in Seq(Device)
           /\ StandTogether(findInBucket(a, s), list, a)
<1> DEFINE parts == [i \in DOMAIN s |-> devicesFromPair(s[i])]
<1>1. /\ Len(s) \in Nat /\ DOMAIN s = 1..Len(s)
      /\ \A i \in 1..Len(s) : EntryOK(s[i], path)
      /\ \A i, j \in 1..Len(s) : s[i].addr = s[j].addr => i = j
  BY BucketParts
<1>2. ASSUME NEW i \in 1..Len(s)
      PROVE  /\ devicesFromPair(s[i]) \in Seq(Device)
             /\ s[i].addr = a => StandTogether(devicesFromPair(s[i]), devicesFromPair(s[i]), a)
             /\ s[i].addr # a => StandTogether(<< >>, devicesFromPair(s[i]), a)
  BY <1>1, ListOfEntry
<1>3. /\ parts \in Seq(Seq(Device)) /\ Len(parts) = Len(s)
      /\ \A i \in 1..Len(s) : parts[i] = devicesFromPair(s[i])
  BY <1>1, <1>2
<1> HIDE DEF parts
<1>4. ASSUME NEW m \in 1..Len(s), s[m].addr = a
      PROVE  /\ FlattenSeq(parts) \in Seq(Device)
             /\ findInBucket(a, s) \in Seq(Device)
             /\ StandTogether(findInBucket(a, s), FlattenSeq(parts), a)
  <2>1. findInBucket(a, s) = devicesFromPair(s[m])
    BY <1>4, FindEntry DEF devicesFromPair
  <2>2. \A i \in 1..Len(s) : i # m => s[i].addr # a
    BY <1>1, <1>4
  <2>3. m \in 0..Len(parts) /\ m # 0
    BY <1>1, <1>3
  <2>4. devicesFromPair(s[m]) \in Seq(Device) /\ StandTogether(devicesFromPair(s[m]), parts[m], a)
    BY <1>2, <1>3, <1>4
  <2>5. \A i \in 1..Len(parts) : i # m => StandTogether(<< >>, parts[i], a)
    BY <1>2, <1>3, <2>2
  <2>6. QED
    BY <1>3, <2>1, <2>3, <2>4, <2>5, TogetherInJoined
<1>5. ASSUME \A i \in 1..Len(s) : s[i].addr # a
      PROVE  /\ FlattenSeq(parts) \in Seq(Device)
             /\ findInBucket(a, s) \in Seq(Device)
             /\ StandTogether(findInBucket(a, s), FlattenSeq(parts), a)
  <2>1. findInBucket(a, s) = << >>
    BY <1>5, FindEntry
  <2>2. << >> \in Seq(Device)
    OBVIOUS
  <2>3. 0 \in 0..Len(parts)
    BY <1>1, <1>3
  <2>4. \A i \in 1..Len(parts) : StandTogether(<< >>, parts[i], a)
    BY <1>2, <1>3, <1>5
  <2>5. QED
    BY <1>3, <2>1, <2>2, <2>3, <2>4, TogetherInJoined
<1>6. QED
  BY <1>4, <1>5 DEF parts

(* What a find gives is a list of devices; below an empty subtree it gives  *)
(* nothing.                                                                 *)
LEMMA FindGivesDevices ==
    ASSUME NEW t, TreeOK(t), NEW a \in Address
    PROVE  /\ findByAddress(a, t) \in Seq(Device)
           /\ \A k \in 0..4 : subtreesOn(addressBytes(a), t)[k] = emptyTree
                                 => findByAddress(a, t) = << >>
<1> DEFINE path == addressBytes(a)
           sub == subtreesOn(path, t)
<1>1. findByAddress(a, t) = findInBucket(a, BucketOf(sub[4]))
  BY FindAtTheEnd
<1>2. Bucket(BucketOf(sub[4]), path)
  <2>1. SubtreeOK(sub[4], 4, path)
    BY OnPath
  <2> HIDE DEF sub, path
  <2>2. QED
    BY <2>1, LastSubtree
<1>3. findByAddress(a, t) \in Seq(Device)
  <2> HIDE DEF sub, path
  <2>1. QED
    BY <1>1, <1>2, ListOfBucket
<1>4. \A k \in 0..3 : sub[k + 1] = findChild(path[k + 1], ChildrenOf(sub[k]))
  BY SubtreesByDepth
<1>5. findChild(path[1], << >>) = emptyTree /\ findChild(path[2], << >>) = emptyTree
      /\ findChild(path[3], << >>) = emptyTree /\ findChild(path[4], << >>) = emptyTree
  <2>1. Branches(<< >>)
    BY DEF Branches, BytesOf, ToSet, IsInjective
  <2>2. QED
    BY <2>1, FindBranch
<1>6. ASSUME sub[4] = emptyTree
      PROVE  findByAddress(a, t) = << >>
  <2>1. BucketOf(sub[4]) = << >>
    BY <1>6, Kinds
  <2>2. findInBucket(a, << >>) = << >>
    BY <1>2, <2>1, FindEntry
  <2>3. QED
    BY <1>1, <2>1, <2>2
<1>7. /\ sub[1] = findChild(path[1], ChildrenOf(sub[0]))
      /\ sub[2] = findChild(path[2], ChildrenOf(sub[1]))
      /\ sub[3] = findChild(path[3], ChildrenOf(sub[2]))
      /\ sub[4] = findChild(path[4], ChildrenOf(sub[3]))
  <2> HIDE DEF sub, path
  <2>1. QED
    BY <1>4
<1> HIDE DEF sub, path
<1>8. ChildrenOf(emptyTree) = << >>
  BY Kinds
<1>9. ASSUME NEW k \in 0..4, sub[k] = emptyTree
      PROVE  sub[4] = emptyTree
  <2>1. k = 0 \/ k = 1 \/ k = 2 \/ k = 3 \/ k = 4
    OBVIOUS
  <2>2. QED
    BY <1>5, <1>7, <1>8, <1>9, <2>1
<1>10. QED
  BY <1>3, <1>6, <1>9 DEF sub, path

(* A list of the devices below depth k of the path of b, of all of them.    *)
ListOK(t, b, k, list) ==
    /\ list \in Seq(Device)
    /\ \A a \in Address :
          StandTogether(IF SamePath(k, addressBytes(a), addressBytes(b))
                        THEN findByAddress(a, t) ELSE << >>, list, a)

(* The list of the leaf at the end of the path.                             *)
LEMMA ListOfLast ==
    ASSUME NEW t, TreeOK(t), NEW b \in Address, NEW list,
           LET s == subtreesOn(addressBytes(b), t)[4] IN
           /\ s.kind = "empty" => list = << >>
           /\ s.kind = "leaf" =>
                 list = FlattenSeq([i \in DOMAIN s.bucket |-> devicesFromPair(s.bucket[i])])
    PROVE  ListOK(t, b, 4, list)
<1> DEFINE s == subtreesOn(addressBytes(b), t)[4]
           bucket == BucketOf(s)
           path == addressBytes(b)
<1>1. SubtreeOK(s, 4, path)
  BY OnPath
<1>2. /\ s.kind = "empty" => list = << >>
      /\ s.kind = "leaf" =>
            list = FlattenSeq([i \in DOMAIN s.bucket |-> devicesFromPair(s.bucket[i])])
  OBVIOUS
<1>3. \A a \in Address : SamePath(4, addressBytes(a), path) =>
         findByAddress(a, t) = findInBucket(a, bucket)
  BY WholePath, FindAtTheEnd
<1>4. \A a \in Address : findInBucket(a, bucket) # << >> => addressBytes(a) = path
  <2> SUFFICES ASSUME NEW a \in Address, findInBucket(a, bucket) # << >>
               PROVE  addressBytes(a) = path
    OBVIOUS
  <2> HIDE DEF s, path
  <2>1. Bucket(bucket, path)
    BY <1>1, LastSubtree
  <2> HIDE DEF bucket
  <2>2. PICK i \in 1..Len(bucket) : bucket[i].addr = a
    BY <2>1, FindEntry
  <2>3. QED
    BY <2>1, <2>2, BucketParts DEF EntryOK
<1> HIDE DEF s, path
<1>5. Bucket(bucket, path)
  BY <1>1, LastSubtree
<1>6. list = FlattenSeq([i \in DOMAIN bucket |-> devicesFromPair(bucket[i])])
  <2>1. CASE s.kind = "empty"
    <3>1. bucket = << >> /\ list = << >>
      BY <1>1, <1>2, <2>1, LastSubtree, Kinds
    <3> DEFINE lists == [i \in DOMAIN bucket |-> devicesFromPair(bucket[i])]
    <3>2. lists = << >>
      BY <3>1
    <3> HIDE DEF lists
    <3>3. FlattenSeq(lists) = << >>
      BY <3>2 DEF FlattenSeq
    <3>4. QED
      BY <3>1, <3>3 DEF lists
  <2>2. CASE s.kind = "leaf"
    BY <1>1, <1>2, <2>2, LastSubtree, Kinds
  <2>3. QED
    BY <1>1, <2>1, <2>2, LastSubtree
<1> HIDE DEF bucket
<1>7. list \in Seq(Device)
  BY <1>5, <1>6, ListOfBucket
<1>8. ASSUME NEW a \in Address
      PROVE  StandTogether(IF SamePath(4, addressBytes(a), path)
                           THEN findByAddress(a, t) ELSE << >>, list, a)
  <2>1. StandTogether(findInBucket(a, bucket), list, a)
    BY <1>5, <1>6, ListOfBucket
  <2>2. SamePath(4, addressBytes(a), path) <=> addressBytes(a) = path
    BY WholePath DEF path
  <2>3. (IF SamePath(4, addressBytes(a), path) THEN findByAddress(a, t) ELSE << >>)
           = findInBucket(a, bucket)
    BY <1>3, <1>4, <2>2
  <2>4. QED
    BY <2>1, <2>3
<1>9. QED
  BY <1>7, <1>8 DEF ListOK, path

(* When the lists of a node's branches are right, so is its own.            *)
LEMMA ListOfInner ==
    ASSUME NEW t, TreeOK(t), NEW b \in Address, NEW k \in 0..3, NEW list, NEW lists,
           LET s == subtreesOn(addressBytes(b), t)[k] IN
           /\ s.kind = "empty" => list = << >>
           /\ s.kind = "node" =>
                 /\ lists = [i \in DOMAIN s.children |-> lists[i]]
                 /\ list = FlattenSeq(lists)
                 /\ \A i \in DOMAIN s.children, c \in Address :
                       s.children[i].child = subtreesOn(addressBytes(c), t)[k + 1]
                          => ListOK(t, c, k + 1, lists[i])
    PROVE  ListOK(t, b, k, list)
<1> DEFINE sub(a) == subtreesOn(addressBytes(a), t)
           s == sub(b)[k]
           path(a) == addressBytes(a)
           found(a) == IF SamePath(k, path(a), path(b)) THEN findByAddress(a, t) ELSE << >>
           children == ChildrenOf(s)
<1>1. SubtreeOK(s, k, path(b))
  BY OnPath
<1>2. \A a \in Address : SamePath(k, path(a), path(b)) =>
         sub(a)[k + 1] = findChild(path(a)[k + 1], children)
  <2>1. k \in 0..4
    OBVIOUS
  <2>2. \A a \in Address : SamePath(k, path(a), path(b)) => sub(a)[k] = s
    BY <2>1, SamePathSubtree
  <2>3. \A a : sub(a)[k + 1] = findChild(path(a)[k + 1], ChildrenOf(sub(a)[k]))
    BY SubtreesByDepth
  <2> HIDE DEF sub, path, s
  <2>4. QED
    BY <2>2, <2>3
<1>3. \A a \in Address : /\ findByAddress(a, t) \in Seq(Device)
                         /\ sub(a)[k + 1] = emptyTree => findByAddress(a, t) = << >>
  <2>1. k + 1 \in 0..4
    OBVIOUS
  <2>2. QED
    BY <2>1, FindGivesDevices
<1>4. /\ s.kind = "empty" => list = << >>
      /\ s.kind = "node" =>
            /\ lists = [i \in DOMAIN s.children |-> lists[i]]
            /\ list = FlattenSeq(lists)
            /\ \A i \in DOMAIN s.children, c \in Address :
                  s.children[i].child = sub(c)[k + 1] => ListOK(t, c, k + 1, lists[i])
  OBVIOUS
<1>5. \A a \in Address : SamePath(k + 1, path(a), path(b)) <=>
         SamePath(k, path(a), path(b)) /\ path(a)[k + 1] = path(b)[k + 1]
  BY SamePathStep
<1> HIDE DEF sub, s, path
<1>6. /\ Branches(children)
      /\ \A d \in ToSet(children) : BranchOK(d, k, path(b))
      /\ \/ s.kind = "empty" /\ children = << >>
         \/ s.kind = "node" /\ s.children = children
  BY <1>1, InnerSubtree
<1>7. /\ Len(children) \in Nat /\ DOMAIN children = 1..Len(children)
      /\ \A i \in 1..Len(children) : children[i] \in ToSet(children)
      /\ \A i, j \in 1..Len(children) : children[i].byte = children[j].byte => i = j
  <2> HIDE DEF children
  <2>1. children \in Seq(ToSet(children)) /\ IsInjective(BytesOf(children))
    BY <1>6 DEF Branches
  <2>2. QED
    BY <2>1 DEF BytesOf, IsInjective, ToSet
<1> HIDE DEF children
<1>8. CASE s.kind = "empty"
  <2>1. list = << >> /\ children = << >>
    BY <1>4, <1>6, <1>8
  <2>2. ASSUME NEW a \in Address
        PROVE  found(a) = << >>
    <3>1. findChild(path(a)[k + 1], << >>) = emptyTree
      BY <1>6, <2>1, FindBranch
    <3>2. QED
      BY <1>2, <1>3, <2>1, <3>1
  <2>3. QED
    BY <2>1, <2>2, NoneInEmpty DEF ListOK, path
<1>9. CASE s.kind = "node"
  <2>0. s.children = children /\ DOMAIN lists = 1..Len(children) /\ list = FlattenSeq(lists)
    BY <1>4, <1>6, <1>7, <1>9
  <2>1. ASSUME NEW i \in 1..Len(children)
        PROVE  \E c \in Address : /\ SamePath(k, path(c), path(b))
                                  /\ path(c)[k + 1] = children[i].byte
                                  /\ ListOK(t, c, k + 1, lists[i])
    <3>1. BranchOK(children[i], k, path(b))
      BY <1>6, <1>7
    <3>2. PICK c \in Address : /\ SamePath(k, path(c), path(b))
                               /\ path(c)[k + 1] = children[i].byte
      BY <3>1 DEF BranchOK, path
    <3>3. findChild(path(c)[k + 1], children) = children[i].child
      BY <1>6, <3>2, FindBranch
    <3>4. sub(c)[k + 1] = children[i].child
      BY <1>2, <3>2, <3>3
    <3>5. QED
      BY <1>4, <1>7, <1>9, <2>0, <3>2, <3>4
  <2>2. ASSUME NEW i \in 1..Len(children), NEW a \in Address
        PROVE  /\ lists[i] \in Seq(Device)
               /\ SamePath(k, path(a), path(b)) /\ path(a)[k + 1] = children[i].byte
                     => StandTogether(findByAddress(a, t), lists[i], a)
               /\ ~(SamePath(k, path(a), path(b)) /\ path(a)[k + 1] = children[i].byte)
                     => StandTogether(<< >>, lists[i], a)
    <3>1. PICK c \in Address : /\ SamePath(k, path(c), path(b))
                               /\ path(c)[k + 1] = children[i].byte
                               /\ ListOK(t, c, k + 1, lists[i])
      BY <2>1
    <3>2. /\ lists[i] \in Seq(Device)
          /\ StandTogether(IF SamePath(k + 1, path(a), path(c))
                           THEN findByAddress(a, t) ELSE << >>, lists[i], a)
      BY <3>1 DEF ListOK, path
    <3>3. SamePath(k + 1, path(a), path(c)) <=>
             SamePath(k, path(a), path(c)) /\ path(a)[k + 1] = path(c)[k + 1]
      BY SamePathStep
    <3>4. SamePath(k, path(a), path(c)) <=> SamePath(k, path(a), path(b))
      BY <3>1 DEF SamePath
    <3>5. QED
      BY <3>1, <3>2, <3>3, <3>4
  <2>3. lists \in Seq(Seq(Device)) /\ Len(lists) = Len(children)
    <3>1. lists = [i \in 1..Len(children) |-> lists[i]]
      BY <1>4, <1>7, <1>9, <2>0
    <3>2. \A i \in 1..Len(children) : lists[i] \in Seq(Device)
      BY <2>2
    <3>3. QED
      BY <1>7, <3>1, <3>2
  <2>4. ASSUME NEW a \in Address
        PROVE  FlattenSeq(lists) \in Seq(Device) /\ StandTogether(found(a), FlattenSeq(lists), a)
    <3>1. found(a) \in Seq(Device)
      <4>1. << >> \in Seq(Device)
        OBVIOUS
      <4>2. QED
        BY <1>3, <4>1
    <3>2. CASE \E m \in 1..Len(children) :
                  SamePath(k, path(a), path(b)) /\ path(a)[k + 1] = children[m].byte
      <4>1. PICK m \in 1..Len(children) :
                  SamePath(k, path(a), path(b)) /\ path(a)[k + 1] = children[m].byte
        BY <3>2
      <4>2. m \in 0..Len(lists) /\ m # 0
        BY <1>7, <2>3
      <4>3. StandTogether(found(a), lists[m], a)
        BY <2>2, <4>1
      <4>4. \A i \in 1..Len(children) : i # m => path(a)[k + 1] # children[i].byte
        BY <1>7, <4>1
      <4>5. \A i \in 1..Len(lists) : i # m => StandTogether(<< >>, lists[i], a)
        BY <2>2, <2>3, <4>4
      <4> HIDE DEF found
      <4>6. QED
        BY <2>3, <3>1, <4>2, <4>3, <4>5, TogetherInJoined
    <3>3. CASE ~ \E m \in 1..Len(children) :
                  SamePath(k, path(a), path(b)) /\ path(a)[k + 1] = children[m].byte
      <4>1. found(a) = << >>
        <5>1. CASE SamePath(k, path(a), path(b))
          <6>1. \A m \in 1..Len(children) : children[m].byte # path(a)[k + 1]
            BY <3>3, <5>1
          <6>2. findChild(path(a)[k + 1], children) = emptyTree
            BY <1>6, <6>1, FindBranch
          <6>3. QED
            BY <1>2, <1>3, <5>1, <6>2
        <5>2. QED
          BY <5>1
      <4>2. 0 \in 0..Len(lists)
        BY <1>7, <2>3
      <4>3. \A i \in 1..Len(lists) : StandTogether(<< >>, lists[i], a)
        BY <2>2, <2>3, <3>3
      <4> HIDE DEF found
      <4>4. QED
        BY <2>3, <3>1, <4>1, <4>2, <4>3, TogetherInJoined
    <3>4. QED
      BY <3>2, <3>3
  <2>5. FlattenSeq(lists) \in Seq(Device)
    BY <2>4
  <2>6. QED
    BY <2>0, <2>4, <2>5 DEF ListOK, path
<1>10. QED
  BY <1>6, <1>8, <1>9

(* The list of a tree, level by level: the lists of the subtrees at depth 4 *)
(* are right, and with them those at depth 3, 2, 1 and 0.                   *)
LEMMA ListOfTree ==
    ASSUME NEW t, TreeOK(t), Address # {}
    PROVE  /\ toList(t) \in Seq(Device)
           /\ \A a \in Address : StandTogether(findByAddress(a, t), toList(t), a)
<1> DEFINE listWith(listOfChild(_), s) ==
               CASE s.kind = "empty" -> << >>
                 [] s.kind = "leaf"  -> FlattenSeq([i \in DOMAIN s.bucket |->
                                                       devicesFromPair(s.bucket[i])])
                 [] s.kind = "node"  -> FlattenSeq([i \in DOMAIN s.children |->
                                                       listOfChild(s.children[i].child)])
           nothing(s) == << >>
           list4(s) == listWith(nothing, s)
           list3(s) == listWith(list4, s)
           list2(s) == listWith(list3, s)
           list1(s) == listWith(list2, s)
           list0(s) == listWith(list1, s)
           sub(a) == subtreesOn(addressBytes(a), t)
<1>1. toList(t) = list0(t)
  BY DEF toList
<1>2. \A s : /\ s.kind = "empty" => list4(s) = << >>
             /\ s.kind = "leaf" => list4(s) = FlattenSeq([i \in DOMAIN s.bucket |->
                                                   devicesFromPair(s.bucket[i])])
  OBVIOUS
<1>3. \A s : /\ s.kind = "empty" => list3(s) = << >>
             /\ s.kind = "node" => list3(s) = FlattenSeq([i \in DOMAIN s.children |->
                                                   list4(s.children[i].child)])
  <2> HIDE DEF list4
  <2>1. QED
    OBVIOUS
<1>4. \A s : /\ s.kind = "empty" => list2(s) = << >>
             /\ s.kind = "node" => list2(s) = FlattenSeq([i \in DOMAIN s.children |->
                                                   list3(s.children[i].child)])
  <2> HIDE DEF list3
  <2>1. QED
    OBVIOUS
<1>5. \A s : /\ s.kind = "empty" => list1(s) = << >>
             /\ s.kind = "node" => list1(s) = FlattenSeq([i \in DOMAIN s.children |->
                                                   list2(s.children[i].child)])
  <2> HIDE DEF list2
  <2>1. QED
    OBVIOUS
<1>6. \A s : /\ s.kind = "empty" => list0(s) = << >>
             /\ s.kind = "node" => list0(s) = FlattenSeq([i \in DOMAIN s.children |->
                                                   list1(s.children[i].child)])
  <2> HIDE DEF list1
  <2>1. QED
    OBVIOUS
<1> HIDE DEF list0, list1, list2, list3, list4
<1>7. \A c \in Address : ListOK(t, c, 4, list4(sub(c)[4]))
  BY <1>2, ListOfLast
<1>8. ASSUME NEW b \in Address
      PROVE  ListOK(t, b, 3, list3(sub(b)[3]))
  <2> DEFINE lists == [i \in DOMAIN sub(b)[3].children |-> list4(sub(b)[3].children[i].child)]
  <2>1. lists = [i \in DOMAIN sub(b)[3].children |-> lists[i]]
    OBVIOUS
  <2>2. \A i \in DOMAIN sub(b)[3].children, c \in Address :
           sub(b)[3].children[i].child = sub(c)[4] => ListOK(t, c, 4, lists[i])
    BY <1>7
  <2>3. /\ sub(b)[3].kind = "empty" => list3(sub(b)[3]) = << >>
        /\ sub(b)[3].kind = "node" => list3(sub(b)[3]) = FlattenSeq(lists)
    BY <1>3
  <2>4. 3 \in 0..3 /\ 3 + 1 = 4
    OBVIOUS
  <2> HIDE DEF lists
  <2>5. QED
    BY <2>1, <2>2, <2>3, <2>4, ListOfInner
<1>9. ASSUME NEW b \in Address
      PROVE  ListOK(t, b, 2, list2(sub(b)[2]))
  <2> DEFINE lists == [i \in DOMAIN sub(b)[2].children |-> list3(sub(b)[2].children[i].child)]
  <2>1. lists = [i \in DOMAIN sub(b)[2].children |-> lists[i]]
    OBVIOUS
  <2>2. \A i \in DOMAIN sub(b)[2].children, c \in Address :
           sub(b)[2].children[i].child = sub(c)[3] => ListOK(t, c, 3, lists[i])
    BY <1>8
  <2>3. /\ sub(b)[2].kind = "empty" => list2(sub(b)[2]) = << >>
        /\ sub(b)[2].kind = "node" => list2(sub(b)[2]) = FlattenSeq(lists)
    BY <1>4
  <2>4. 2 \in 0..3 /\ 2 + 1 = 3
    OBVIOUS
  <2> HIDE DEF lists
  <2>5. QED
    BY <2>1, <2>2, <2>3, <2>4, ListOfInner
<1>10. ASSUME NEW b \in Address
       PROVE  ListOK(t, b, 1, list1(sub(b)[1]))
  <2> DEFINE lists == [i \in DOMAIN sub(b)[1].children |-> list2(sub(b)[1].children[i].child)]
  <2>1. lists = [i \in DOMAIN sub(b)[1].children |-> lists[i]]
    OBVIOUS
  <2>2. \A i \in DOMAIN sub(b)[1].children, c \in Address :
           sub(b)[1].children[i].child = sub(c)[2] => ListOK(t, c, 2, lists[i])
    BY <1>9
  <2>3. /\ sub(b)[1].kind = "empty" => list1(sub(b)[1]) = << >>
        /\ sub(b)[1].kind = "node" => list1(sub(b)[1]) = FlattenSeq(lists)
    BY <1>5
  <2>4. 1 \in 0..3 /\ 1 + 1 = 2
    OBVIOUS
  <2> HIDE DEF lists
  <2>5. QED
    BY <2>1, <2>2, <2>3, <2>4, ListOfInner
<1>11. ASSUME NEW b \in Address
       PROVE  ListOK(t, b, 0, list0(sub(b)[0]))
  <2> DEFINE lists == [i \in DOMAIN sub(b)[0].children |-> list1(sub(b)[0].children[i].child)]
  <2>1. lists = [i \in DOMAIN sub(b)[0].children |-> lists[i]]
    OBVIOUS
  <2>2. \A i \in DOMAIN sub(b)[0].children, c \in Address :
           sub(b)[0].children[i].child = sub(c)[1] => ListOK(t, c, 1, lists[i])
    BY <1>10
  <2>3. /\ sub(b)[0].kind = "empty" => list0(sub(b)[0]) = << >>
        /\ sub(b)[0].kind = "node" => list0(sub(b)[0]) = FlattenSeq(lists)
    BY <1>6
  <2>4. 0 \in 0..3 /\ 0 + 1 = 1
    OBVIOUS
  <2> HIDE DEF lists
  <2>5. QED
    BY <2>1, <2>2, <2>3, <2>4, ListOfInner
<1>12. \A b : sub(b)[0] = t
  BY SubtreesByDepth
<1>13. \A a, b : SamePath(0, addressBytes(a), addressBytes(b))
  BY DEF SamePath
<1> HIDE DEF sub
<1>14. PICK b \in Address : TRUE
  OBVIOUS
<1>15. ListOK(t, b, 0, list0(t))
  BY <1>11, <1>12
<1>16. QED
  BY <1>1, <1>13, <1>15 DEF ListOK

(* Without addresses there are no devices, and the tree stays Empty.        *)
EmptyWithoutAddresses == Address = {} => tree = emptyTree

LEMMA NothingWithoutAddresses == Spec => []EmptyWithoutAddresses
<1>1. Init => EmptyWithoutAddresses
  <2>1. ASSUME NEW devices \in Files, tree = fromList(devices), Address = {}
        PROVE  tree = emptyTree
    <3>1. devices \in Seq(Device) /\ Device = {}
      BY <2>1, FilesAssumption DEF Device
    <3>2. Len(devices) = 0
      BY <3>1
    <3>3. QED
      BY <2>1, <3>1, <3>2, TreesOfList
  <2>2. QED
    BY <2>1 DEF Init, EmptyWithoutAddresses
<1>2. EmptyWithoutAddresses /\ [Next]_tree => EmptyWithoutAddresses'
  <2> SUFFICES ASSUME EmptyWithoutAddresses, [Next]_tree, Address = {}
               PROVE  tree' = emptyTree
    BY DEF EmptyWithoutAddresses
  <2>1. Device = {}
    BY DEF Device
  <2>2. QED
    BY <2>1 DEF Next, EmptyWithoutAddresses
<1>3. QED
  BY <1>1, <1>2, PTL DEF Spec

(* The list of the tree has the devices of every address next to each       *)
(* other, in the order find gives them, and no other device.                *)
THEOREM ListIsFind == Spec => []ListAgreesWithFind
<1>1. TypeOK /\ EmptyWithoutAddresses => ListAgreesWithFind
  <2> SUFFICES ASSUME TypeOK, EmptyWithoutAddresses
               PROVE  ListAgreesWithFind
    OBVIOUS
  <2>1. CASE Address # {}
    BY <2>1, ListOfTree DEF TypeOK, ListAgreesWithFind
  <2>2. CASE Address = {}
    <3>1. toList(emptyTree) = << >>
      BY Kinds DEF toList
    <3>2. << >> \in Seq(Device)
      OBVIOUS
    <3>3. QED
      BY <2>2, <3>1, <3>2 DEF EmptyWithoutAddresses, ListAgreesWithFind
  <2>3. QED
    BY <2>1, <2>2
<1>2. QED
  BY <1>1, TreeIsRight, NothingWithoutAddresses, PTL
=============================================================================
