---------------------------- MODULE DeviceProofs ----------------------------
(* Theorems about Devices for any names, addresses and texts.               *)
EXTENDS Devices, SequenceTheorems, WellFoundedInduction, TLAPS

(* A set of numbers has a smallest one.                                     *)
LEMMA MinOfSet ==
    ASSUME NEW S, S \subseteq Nat, S # {}
    PROVE  Min(S) \in S /\ \A n \in S : Min(S) <= n
<1> DEFINE less == OpToRel(<, Nat)
<1>1. IsWellFoundedOn(less, Nat)
  BY NatLessThanWellFounded
<1>2. \A m, n \in Nat : m < n => <<m, n>> \in less
  BY DEF OpToRel
<1> HIDE DEF less
<1>3. PICK m \in S : \A n \in S : ~(<<n, m>> \in less)
  BY <1>1, WFMin
<1>4. ASSUME NEW n \in S
      PROVE  m <= n
  <2>1. m \in Nat /\ n \in Nat
    OBVIOUS
  <2>2. ~(n < m)
    BY <1>2, <1>3, <2>1
  <2>3. QED
    BY <2>1, <2>2
<1>5. QED
  BY <1>4 DEF Min

(* find gives the first device with the address.                            *)
LEMMA FindIsFirst ==
    ASSUME devices \in Seq(Object), NEW a
    PROVE  /\ find(a) = 0 => \A i \in DOMAIN devices : devices[i].address # a
           /\ find(a) # 0 => /\ find(a) \in DOMAIN devices
                             /\ devices[find(a)].address = a
                             /\ \A i \in DOMAIN devices :
                                   devices[i].address = a => find(a) <= i
<1> DEFINE I == {i \in 1..Len(devices) : devices[i].address = a}
<1>1. find(a) = IF I # {} THEN Min(I) ELSE 0
  BY DEF find, SelectInSeq
<1>2. I \subseteq Nat /\ DOMAIN devices = 1..Len(devices)
  OBVIOUS
<1>3. I # {} => Min(I) \in I /\ \A n \in I : Min(I) <= n
  BY <1>2, MinOfSet
<1>4. QED
  BY <1>1, <1>2, <1>3

-----------------------------------------------------------------------------
(* The objects the operations make.                                         *)

(* A faulty device has a priority.                                          *)
Serviced(d) == isFaulty(d) => d.priority # "None"

LEMMA ConstructType ==
    ASSUME NEW class \in Class, NEW n \in Name, NEW a \in Address, NEW p \in Priority
    PROVE  Construct(class, n, a, p) \in Object /\ Serviced(Construct(class, n, a, p))
BY DEF Construct, HealthyDevice, ReserveDevice, FaultyDeviceEx, Raised, Class, Object,
       Priority, Serviced, isFaulty

LEMMA BreakDownType ==
    ASSUME NEW d \in Object
    PROVE  /\ breakDown(d) \in Object
           /\ Serviced(d) => Serviced(breakDown(d))
           /\ isFaulty(breakDown(d))
           /\ d.priority # "None" => breakDown(d).priority = d.priority
BY DEF breakDown, FaultyDeviceEx, Raised, Class, Object, Priority, Serviced, isFaulty

LEMMA RepairType ==
    ASSUME NEW d \in Object \cup FaultyDevice
    PROVE  /\ repair(d) \in Object
           /\ Serviced(repair(d))
           /\ repair(d).class = "HealthyDevice"
           /\ repair(d).priority = d.priority
BY DEF repair, HealthyDevice, Class, Object, FaultyDevice, Serviced, isFaulty

-----------------------------------------------------------------------------
(* The invariant: types, priorities of faulty devices, and the order of a   *)
(* collection, and of faults, not changed since they were sorted.           *)

DevicesInv ==
    /\ TypeOK
    /\ FaultyDeviceKeepsPriority
    /\ planned => IsOrdered(devices)
    /\ sortedBy \in {"less", "greater"} => IsSortedBy(sortedBy, faults)

LEMMA AddKeepsInv ==
    ASSUME DevicesInv, NEW d \in Object, ~cleared => Serviced(d),
           devices' = Append(devices, d), planned' = FALSE,
           UNCHANGED <<faults, sortedBy, cleared>>
    PROVE  DevicesInv'
<1>1. devices \in Seq(Object)
  BY DEF DevicesInv, TypeOK
<1>2. /\ devices' \in Seq(Object)
      /\ DOMAIN devices' = DOMAIN devices \cup {Len(devices) + 1}
      /\ \A i \in DOMAIN devices : devices'[i] = devices[i]
      /\ devices'[Len(devices) + 1] = d
  BY <1>1
<1>3. TypeOK'
  BY <1>2 DEF DevicesInv, TypeOK
<1>4. FaultyDeviceKeepsPriority'
  BY <1>2 DEF DevicesInv, FaultyDeviceKeepsPriority, Serviced, isFaulty
<1>5. IsSortedBy(sortedBy, faults)' <=> IsSortedBy(sortedBy, faults)
  BY DEF IsSortedBy, isLess
<1>6. QED
  BY <1>3, <1>4, <1>5 DEF DevicesInv

LEMMA SameDevicesKeepInv ==
    ASSUME DevicesInv, faults' \in Seq(FaultyDevice),
           sortedBy' \in {"nothing", "less", "greater"},
           sortedBy' # "nothing" => IsSortedBy(sortedBy', faults'),
           UNCHANGED <<devices, planned, cleared>>
    PROVE  DevicesInv'
<1>1. TypeOK'
  BY DEF DevicesInv, TypeOK
<1>2. FaultyDeviceKeepsPriority'
  BY DEF DevicesInv, FaultyDeviceKeepsPriority, isFaulty
<1>3. planned' => IsOrdered(devices')
  BY DEF DevicesInv
<1>4. IsOrdered(devices)' <=> IsOrdered(devices')
  BY DEF IsOrdered, comesBefore
<1>5. IsSortedBy(sortedBy, faults)' <=> IsSortedBy(sortedBy', faults')
  BY DEF IsSortedBy, isLess
<1>6. QED
  BY <1>1, <1>2, <1>3, <1>4, <1>5 DEF DevicesInv

LEMMA SetPriorityKeepsInv ==
    ASSUME DevicesInv, NEW a \in Address, NEW p \in Priority, setPriority(a, p)
    PROVE  DevicesInv'
<1>1. devices \in Seq(Object) /\ cleared \in BOOLEAN
  BY DEF DevicesInv, TypeOK
<1>2. PICK k \in DOMAIN devices : k = find(a)
  BY <1>1, FindIsFirst DEF setPriority
<1> DEFINE d == [devices[k] EXCEPT !.priority = p]
<1>3. devices[k] \in Object
  BY <1>1, <1>2
<1>4. d \in Object
  BY <1>3 DEF Object
<1>5. devices' = [devices EXCEPT ![k] = d]
  BY <1>2 DEF setPriority
<1>6. ~cleared' => ~cleared /\ ~(p = "None" /\ isFaulty(devices[k]))
  BY <1>2 DEF setPriority
<1>7. d.priority = p /\ (isFaulty(d) <=> isFaulty(devices[k]))
  BY <1>3 DEF isFaulty, Object
<1> HIDE DEF d
<1>8. /\ devices' \in Seq(Object)
      /\ DOMAIN devices' = DOMAIN devices
      /\ \A i \in DOMAIN devices : devices'[i] = IF i = k THEN d ELSE devices[i]
  BY <1>1, <1>4, <1>5
<1>9. FaultyDeviceKeepsPriority'
  BY <1>6, <1>7, <1>8 DEF DevicesInv, FaultyDeviceKeepsPriority, isFaulty
<1>10. cleared' \in BOOLEAN /\ planned' = FALSE /\ UNCHANGED <<faults, sortedBy>>
  BY <1>1 DEF setPriority
<1>11. IsSortedBy(sortedBy, faults)' <=> IsSortedBy(sortedBy, faults)
  BY <1>10 DEF IsSortedBy, isLess
<1>12. QED
  BY <1>8, <1>9, <1>10, <1>11 DEF DevicesInv, TypeOK

LEMMA SortKeepsInv ==
    ASSUME DevicesInv, sort_by_priority_desc
    PROVE  DevicesInv'
<1>1. devices \in Seq(Object)
  BY DEF DevicesInv, TypeOK
<1>2. PICK place \in [DOMAIN devices -> DOMAIN devices] :
        /\ devices' = [i \in DOMAIN devices |-> devices[place[i]]]
        /\ IsOrdered(devices')
  BY DEF sort_by_priority_desc
<1>3. DOMAIN devices = 1..Len(devices) /\ Len(devices) \in Nat
  BY <1>1
<1>4. \A i \in 1..Len(devices) : devices[place[i]] \in Object
  BY <1>1, <1>2, <1>3
<1>5. devices' \in Seq(Object) /\ DOMAIN devices' = DOMAIN devices
  BY <1>2, <1>3, <1>4
<1>6. planned' = TRUE /\ UNCHANGED <<faults, sortedBy, cleared>>
  BY DEF sort_by_priority_desc
<1>7. FaultyDeviceKeepsPriority'
  BY <1>2, <1>5, <1>6 DEF DevicesInv, FaultyDeviceKeepsPriority, isFaulty
<1>8. IsSortedBy(sortedBy, faults)' <=> IsSortedBy(sortedBy, faults)
  BY <1>6 DEF IsSortedBy, isLess
<1>9. QED
  BY <1>2, <1>5, <1>6, <1>7, <1>8 DEF DevicesInv, TypeOK

LEMMA SortFaultsKeepsInv ==
    ASSUME DevicesInv, NEW order \in {"less", "greater"}, sortFaults(order)
    PROVE  DevicesInv'
<1>1. faults \in Seq(FaultyDevice) /\ Len(faults) \in Nat /\ DOMAIN faults = 1..Len(faults)
  BY DEF DevicesInv, TypeOK
<1>2. PICK place \in [DOMAIN faults -> DOMAIN faults] :
        /\ faults' = [i \in DOMAIN faults |-> faults[place[i]]]
        /\ IsSortedBy(order, faults')
  BY DEF sortFaults
<1>3. \A i \in 1..Len(faults) : faults[place[i]] \in FaultyDevice
  BY <1>1, <1>2
<1>4. faults' \in Seq(FaultyDevice)
  BY <1>1, <1>2, <1>3
<1>5. sortedBy' = order /\ UNCHANGED <<devices, planned, cleared>>
  BY DEF sortFaults
<1>6. QED
  BY <1>2, <1>4, <1>5, SameDevicesKeepInv

LEMMA StepKeepsInv ==
    ASSUME DevicesInv, [Next]_vars
    PROVE  DevicesInv'
<1>1. /\ devices \in Seq(Object) /\ faults \in Seq(FaultyDevice)
      /\ sortedBy \in {"nothing", "less", "greater"}
  BY DEF DevicesInv, TypeOK
<1>2. ASSUME NEW a, find(a) # 0
      PROVE  devices[find(a)] \in Object /\ (~cleared => Serviced(devices[find(a)]))
  <2>1. find(a) \in DOMAIN devices
    BY <1>1, <1>2, FindIsFirst
  <2>2. QED
    BY <1>1, <2>1 DEF DevicesInv, FaultyDeviceKeepsPriority, Serviced
<1>3. CASE \E text \in Texts, class \in Class, n \in Name, p \in Priority :
             emplace(class, n, text, p)
  <2>1. PICK text \in Texts, class \in Class, n \in Name, p \in Priority :
          emplace(class, n, text, p)
    BY <1>3
  <2>2. ipv4_to_u32(text) \in Address
    BY <2>1, AddressAssumption DEF emplace
  <2>3. QED
    BY <1>1, <2>1, <2>2, ConstructType, AddKeepsInv DEF emplace, add
<1>4. CASE \E a \in Address, faultIsEmpty \in BOOLEAN : addBrokenDown(a, faultIsEmpty)
  <2>1. PICK a \in Address : find(a) # 0 /\ add(breakDown(devices[find(a)]))
    BY <1>4 DEF addBrokenDown
  <2> DEFINE d == devices[find(a)]
  <2>2. breakDown(d) \in Object /\ (~cleared => Serviced(breakDown(d)))
    BY <1>2, <2>1, BreakDownType
  <2>3. QED
    BY <1>1, <2>1, <2>2, AddKeepsInv DEF add
<1>5. CASE \E a \in Address : addRepaired(a) \/ addClone(a)
  <2>1. PICK a \in Address : addRepaired(a) \/ addClone(a)
    BY <1>5
  <2>2. find(a) # 0
    BY <2>1 DEF addRepaired, addClone
  <2>3. PICK d \in {devices[find(a)], repair(devices[find(a)])} : add(d)
    BY <2>1 DEF addRepaired, addClone
  <2>4. d \in Object /\ (~cleared => Serviced(d))
    BY <1>2, <2>2, <2>3, RepairType
  <2>5. QED
    BY <1>1, <2>3, <2>4, AddKeepsInv DEF add
<1>6. CASE \E i \in DOMAIN faults : addRepairedFault(i)
  <2>1. PICK i \in DOMAIN faults : add(repair(faults[i]))
    BY <1>6 DEF addRepairedFault
  <2>2. faults[i] \in FaultyDevice
    BY <1>1, <2>1
  <2>3. repair(faults[i]) \in Object /\ Serviced(repair(faults[i]))
    BY <2>2, RepairType
  <2>4. QED
    BY <2>1, <2>3, AddKeepsInv DEF add
<1>7. CASE \E a \in Address, p \in Priority : setPriority(a, p)
  BY <1>7, SetPriorityKeepsInv
<1>8. CASE sort_by_priority_desc
  BY <1>8, SortKeepsInv
<1>9. CASE \E text \in Texts, n \in Name, p \in Priority : newFaultyDevice(n, text, p)
  <2>1. PICK text \in Texts, n \in Name, p \in Priority : newFaultyDevice(n, text, p)
    BY <1>9
  <2> DEFINE f == [name |-> n, address |-> ipv4_to_u32(text), priority |-> p]
  <2>2. f \in FaultyDevice
    BY <2>1, AddressAssumption DEF newFaultyDevice, FaultyDevice
  <2>3. faults' = Append(faults, f) /\ sortedBy' = "nothing"
        /\ UNCHANGED <<devices, planned, cleared>>
    BY <2>1 DEF newFaultyDevice
  <2> HIDE DEF f
  <2>4. faults' \in Seq(FaultyDevice)
    BY <1>1, <2>2, <2>3
  <2>5. QED
    BY <2>3, <2>4, SameDevicesKeepInv
<1>10. CASE \E i \in DOMAIN faults, p \in Priority : setFaultPriority(i, p)
  <2>1. PICK i \in DOMAIN faults, p \in Priority : setFaultPriority(i, p)
    BY <1>10
  <2> DEFINE f == [faults[i] EXCEPT !.priority = p]
  <2>2. f \in FaultyDevice
    <3>1. faults[i] \in FaultyDevice
      BY <1>1
    <3>2. QED
      BY <3>1 DEF FaultyDevice
  <2>3. faults' = [faults EXCEPT ![i] = f] /\ sortedBy' = "nothing"
        /\ UNCHANGED <<devices, planned, cleared>>
    BY <2>1 DEF setFaultPriority
  <2> HIDE DEF f
  <2>4. faults' \in Seq(FaultyDevice)
    BY <1>1, <2>2, <2>3
  <2>5. QED
    BY <2>3, <2>4, SameDevicesKeepInv
<1>11. CASE \/ \E text \in Texts : emplaceThrows(text)
            \/ \E a \in Address : breakDownFails(a)
            \/ UNCHANGED vars
  <2>1. UNCHANGED <<devices, faults, planned, sortedBy, cleared>>
    BY <1>11 DEF emplaceThrows, breakDownFails, vars
  <2>2. sortedBy' # "nothing" => IsSortedBy(sortedBy', faults')
    BY <1>1, <2>1 DEF DevicesInv
  <2>3. QED
    BY <1>1, <2>1, <2>2, SameDevicesKeepInv
<1>12. CASE \E order \in {"less", "greater"} : sortFaults(order)
  BY <1>12, SortFaultsKeepsInv
<1>13. QED
  BY <1>3, <1>4, <1>5, <1>6, <1>7, <1>8, <1>9, <1>10, <1>11, <1>12 DEF Next

LEMMA DevicesInvInductive == Spec => []DevicesInv
<1>1. Init => DevicesInv
  <2>1. ASSUME Init
        PROVE  /\ devices \in Seq(Object) /\ DOMAIN devices = {}
               /\ faults \in Seq(FaultyDevice)
    BY <2>1 DEF Init
  <2>2. QED
    BY <2>1 DEF Init, DevicesInv, TypeOK, FaultyDeviceKeepsPriority
<1>2. QED
  BY <1>1, StepKeepsInv, PTL DEF Spec

(* The collection holds objects of its classes.                             *)
THEOREM DevicesTypeCorrect == Spec => []TypeOK
BY DevicesInvInductive, PTL DEF DevicesInv

(* A faulty device has a service priority unless setPriority took it away:  *)
(* both ways to break a device down raise it, and a copy keeps it.          *)
THEOREM FaultyKeepsPriority == Spec => []FaultyDeviceKeepsPriority
BY DevicesInvInductive, PTL DEF DevicesInv

-----------------------------------------------------------------------------
(* What the operations and orders say of any objects.                       *)

LEMMA Comparable ==
    ASSUME NEW d \in Object \cup FaultyDevice
    PROVE  /\ d.name \in Nat /\ d.address \in Nat
           /\ d.priority \in Priority /\ priority_order(d.priority) \in 1..3
BY NameAssumption, AddressAssumption DEF Object, FaultyDevice, Priority, priority_order

LEMMA OrderOfPriorities ==
    ASSUME NEW p \in Priority, NEW q \in Priority
    PROVE  /\ priority_order(p) = priority_order(q) <=> p = q
           /\ priority_order(p) > priority_order(q) <=> IsMoreImportant(p, q)
BY DEF Priority, priority_order, IsMoreImportant

(* The comparator of sort_by_priority_desc is the strict order std::sort    *)
(* asks for, and total on what the plan shows.                              *)
THEOREM ComparatorStrictWeak == Spec => []ComparatorIsStrictWeak
<1>1. ASSUME TypeOK
      PROVE  ComparatorIsStrictWeak
  <2> SUFFICES ASSUME NEW i \in DOMAIN devices, NEW j \in DOMAIN devices,
                      NEW k \in DOMAIN devices,
                      NEW a, NEW b, NEW c,
                      a = devices[i], b = devices[j], c = devices[k]
               PROVE  /\ ~(comesBefore(a, b) /\ comesBefore(b, a))
                      /\ comesBefore(a, b) /\ comesBefore(b, c) => comesBefore(a, c)
                      /\ ~comesBefore(a, b) /\ ~comesBefore(b, a) =>
                            <<a.priority, a.name, a.address>> =
                            <<b.priority, b.name, b.address>>
    BY DEF ComparatorIsStrictWeak
  <2>1. a \in Object /\ b \in Object /\ c \in Object
    BY <1>1 DEF TypeOK
  <2>2. /\ a.name \in Nat /\ b.name \in Nat /\ c.name \in Nat
        /\ a.address \in Nat /\ b.address \in Nat /\ c.address \in Nat
        /\ a.priority \in Priority /\ b.priority \in Priority
        /\ priority_order(a.priority) \in 1..3
        /\ priority_order(b.priority) \in 1..3
        /\ priority_order(c.priority) \in 1..3
    BY <2>1, Comparable
  <2>3. priority_order(a.priority) = priority_order(b.priority) <=>
          a.priority = b.priority
    BY <2>2, OrderOfPriorities
  <2>4. QED
    BY <2>2, <2>3 DEF comesBefore
<1>2. QED
  BY <1>1, DevicesTypeCorrect, PTL

(* After a sort the plan goes by falling importance, and find gives the     *)
(* most important object of an address.                                     *)
THEOREM PlanByImportance == Spec => []PlanIsByImportance
<1>1. ASSUME DevicesInv, planned
      PROVE  PlanIsByImportance
  <2>1. devices \in Seq(Object) /\ IsOrdered(devices)
    BY <1>1 DEF DevicesInv, TypeOK
  <2>2. DOMAIN devices \subseteq Nat
    BY <2>1
  <2>3. ASSUME NEW i \in DOMAIN devices, NEW j \in DOMAIN devices,
               IsMoreImportant(devices[i].priority, devices[j].priority)
        PROVE  i < j
    <3>1. /\ devices[i].priority \in Priority /\ devices[j].priority \in Priority
      BY <2>1, Comparable
    <3>2. /\ priority_order(devices[i].priority) # priority_order(devices[j].priority)
          /\ priority_order(devices[i].priority) > priority_order(devices[j].priority)
      BY <2>3, <3>1, OrderOfPriorities DEF IsMoreImportant
    <3>3. comesBefore(devices[i], devices[j])
      BY <3>2 DEF comesBefore
    <3>4. ~(j < i)
      BY <2>1, <3>3 DEF IsOrdered
    <3>5. i # j
      BY <3>2
    <3>6. QED
      BY <2>2, <3>4, <3>5
  <2>4. ASSUME NEW i \in DOMAIN devices,
               IsMoreImportant(devices[i].priority,
                               devices[find(devices[i].address)].priority)
        PROVE  FALSE
    <3>1. /\ find(devices[i].address) \in DOMAIN devices
          /\ find(devices[i].address) <= i
      BY <2>1, FindIsFirst
    <3>2. i < find(devices[i].address)
      BY <2>3, <2>4, <3>1
    <3>3. QED
      BY <2>2, <3>1, <3>2
  <2>5. QED
    BY <2>3, <2>4 DEF PlanIsByImportance
<1>2. DevicesInv => PlanIsByImportance
  BY <1>1 DEF PlanIsByImportance
<1>3. QED
  BY <1>2, DevicesInvInductive, PTL

LEMMA SameRow ==
    ASSUME NEW r \in Device, NEW s \in Device,
           r.priority = s.priority, r.is_faulty = s.is_faulty,
           r.is_reserve = s.is_reserve
    PROVE  r = s
BY DEF Device

LEMMA FaultyRowFields ==
    ASSUME NEW r \in Device
    PROVE  /\ FaultyRow(r) \in Device /\ FaultyRow(r).priority = r.priority
           /\ FaultyRow(r).is_faulty = TRUE /\ FaultyRow(r).is_reserve = r.is_reserve
<1>1. FaultyRow(r) = [r EXCEPT !.is_faulty = TRUE]
  BY NoRowAssumption DEF FaultyRow
<1>2. QED
  BY <1>1 DEF Device

LEMMA HealthyRowFields ==
    ASSUME NEW r \in Device
    PROVE  /\ HealthyRow(r) \in Device /\ HealthyRow(r).priority = r.priority
           /\ HealthyRow(r).is_faulty = FALSE /\ HealthyRow(r).is_reserve = r.is_reserve
<1>1. HealthyRow(r) = [r EXCEPT !.is_faulty = FALSE]
  BY NoRowAssumption DEF HealthyRow
<1>2. QED
  BY <1>1 DEF Device

LEMMA StoredRowFields ==
    ASSUME NEW d \in Object
    PROVE  /\ StoredRow(d) \in Device /\ StoredRow(d).priority = d.priority
           /\ isFaulty(d) => StoredRow(d).is_faulty = TRUE
           /\ ~isFaulty(d) => StoredRow(d).is_faulty = FALSE
           /\ d.class # "ReserveDevice" => StoredRow(d).is_reserve = FALSE
BY DEF StoredRow, Device, Object, isFaulty

(* Storing what breakDown or repair gives is what Engine's SQL does to the  *)
(* stored row, reserve devices and devices without a priority excepted.     *)
THEOREM LifeCyclesAgree == Spec => []StoredLifeCycleAgrees
<1>1. ASSUME TypeOK
      PROVE  StoredLifeCycleAgrees
  <2> SUFFICES ASSUME NEW i \in DOMAIN devices, NEW d, d = devices[i],
                      d.class # "ReserveDevice"
               PROVE  /\ d.priority # "None" =>
                           StoredRow(breakDown(d)) = FaultyRow(StoredRow(d))
                      /\ StoredRow(repair(d)) = HealthyRow(StoredRow(d))
    BY DEF StoredLifeCycleAgrees
  <2>1. d \in Object
    BY <1>1 DEF TypeOK
  <2>2. ASSUME d.priority # "None"
        PROVE  StoredRow(breakDown(d)) = FaultyRow(StoredRow(d))
    <3>1. /\ breakDown(d) \in Object /\ breakDown(d).priority = d.priority
          /\ isFaulty(breakDown(d)) /\ breakDown(d).class # "ReserveDevice"
      BY <2>1, <2>2, BreakDownType DEF isFaulty
    <3>2. /\ StoredRow(breakDown(d)) \in Device
          /\ StoredRow(breakDown(d)).priority = d.priority
          /\ StoredRow(breakDown(d)).is_faulty = TRUE
          /\ StoredRow(breakDown(d)).is_reserve = FALSE
      BY <3>1, StoredRowFields
    <3>3. StoredRow(d) \in Device /\ StoredRow(d).priority = d.priority
          /\ StoredRow(d).is_reserve = FALSE
      BY <2>1, StoredRowFields
    <3>4. QED
      <4>1. /\ FaultyRow(StoredRow(d)) \in Device
            /\ FaultyRow(StoredRow(d)).priority = d.priority
            /\ FaultyRow(StoredRow(d)).is_faulty = TRUE
            /\ FaultyRow(StoredRow(d)).is_reserve = FALSE
        BY <3>3, FaultyRowFields
      <4>2. QED
        BY <3>2, <4>1, SameRow
  <2>3. StoredRow(repair(d)) = HealthyRow(StoredRow(d))
    <3>1. /\ repair(d) \in Object /\ repair(d).priority = d.priority
          /\ ~isFaulty(repair(d)) /\ repair(d).class # "ReserveDevice"
      BY <2>1, RepairType DEF isFaulty
    <3>2. /\ StoredRow(repair(d)) \in Device
          /\ StoredRow(repair(d)).priority = d.priority
          /\ StoredRow(repair(d)).is_faulty = FALSE
          /\ StoredRow(repair(d)).is_reserve = FALSE
      BY <3>1, StoredRowFields
    <3>3. StoredRow(d) \in Device /\ StoredRow(d).priority = d.priority
          /\ StoredRow(d).is_reserve = FALSE
      BY <2>1, StoredRowFields
    <3>4. QED
      <4>1. /\ HealthyRow(StoredRow(d)) \in Device
            /\ HealthyRow(StoredRow(d)).priority = d.priority
            /\ HealthyRow(StoredRow(d)).is_faulty = FALSE
            /\ HealthyRow(StoredRow(d)).is_reserve = FALSE
        BY <3>3, HealthyRowFields
      <4>2. QED
        BY <3>2, <4>1, SameRow
  <2>4. QED
    BY <2>2, <2>3
<1>2. QED
  BY <1>1, DevicesTypeCorrect, PTL

(* FaultyDevice's own rank keeps the three priorities apart.                *)
LEMMA RankOfPriorities ==
    ASSUME NEW p \in Priority, NEW q \in Priority
    PROVE  /\ rank(p) \in 1..3 /\ rank(q) \in 1..3
           /\ rank(p) = rank(q) <=> p = q
           /\ IsMoreImportant(p, q) => rank(p) > rank(q)
BY DEF Priority, rank, IsMoreImportant

(* Faults sorted by std::greater go by falling importance; sorted in either *)
(* direction, those that are == stand together, though <=> looks at more    *)
(* than == does.                                                            *)
THEOREM SortedFaultsGroup == Spec => []SortedFaultsGroupByPriority
<1>1. ASSUME DevicesInv
      PROVE  SortedFaultsGroupByPriority
  <2>1. /\ faults \in Seq(FaultyDevice) /\ DOMAIN faults \subseteq Nat
        /\ sortedBy \in {"nothing", "less", "greater"}
    BY <1>1 DEF DevicesInv, TypeOK
  <2> DEFINE rankAt(i) == rank(faults[i].priority)
  <2>2. ASSUME NEW i \in DOMAIN faults, NEW j \in DOMAIN faults
        PROVE  /\ rankAt(i) \in 1..3 /\ rankAt(j) \in 1..3
               /\ rankAt(i) = rankAt(j) <=> faults[i].priority = faults[j].priority
               /\ IsMoreImportant(faults[i].priority, faults[j].priority) =>
                     rankAt(i) > rankAt(j)
               /\ rankAt(i) < rankAt(j) => isLess(faults[i], faults[j])
    <3>1. faults[i].priority \in Priority /\ faults[j].priority \in Priority
      <4>1. faults[i] \in FaultyDevice /\ faults[j] \in FaultyDevice
        BY <2>1
      <4>2. QED
        BY <4>1 DEF FaultyDevice
    <3>2. /\ rankAt(i) \in 1..3 /\ rankAt(j) \in 1..3
          /\ rankAt(i) = rankAt(j) <=> faults[i].priority = faults[j].priority
          /\ IsMoreImportant(faults[i].priority, faults[j].priority) =>
                rankAt(i) > rankAt(j)
      BY <3>1, RankOfPriorities
    <3>3. rankAt(i) < rankAt(j) => isLess(faults[i], faults[j])
      BY <3>2 DEF isLess
    <3>4. QED
      BY <3>2, <3>3
  <2> HIDE DEF rankAt
  <2>3. ASSUME sortedBy = "greater",
               NEW i \in DOMAIN faults, NEW j \in DOMAIN faults, i < j
        PROVE  rankAt(i) >= rankAt(j)
    <3>1. ~isLess(faults[i], faults[j])
      BY <1>1, <2>3 DEF DevicesInv, IsSortedBy
    <3>2. QED
      BY <2>2, <3>1
  <2>4. ASSUME sortedBy = "less",
               NEW i \in DOMAIN faults, NEW j \in DOMAIN faults, i < j
        PROVE  rankAt(i) <= rankAt(j)
    <3>1. ~isLess(faults[j], faults[i])
      BY <1>1, <2>4 DEF DevicesInv, IsSortedBy
    <3>2. QED
      BY <2>2, <3>1
  <2>5. ASSUME sortedBy = "greater",
               NEW i \in DOMAIN faults, NEW j \in DOMAIN faults,
               IsMoreImportant(faults[i].priority, faults[j].priority)
        PROVE  i < j
    <3>1. rankAt(i) > rankAt(j) /\ rankAt(i) \in 1..3 /\ rankAt(j) \in 1..3
      BY <2>2, <2>5
    <3>2. ~(j < i) /\ i # j
      BY <2>3, <2>5, <3>1
    <3>3. QED
      BY <2>1, <3>2
  <2>6. ASSUME sortedBy # "nothing",
               NEW i \in DOMAIN faults, NEW j \in DOMAIN faults, NEW k \in DOMAIN faults,
               i < j, j < k, isEqual(faults[i], faults[k])
        PROVE  faults[j].priority = faults[i].priority
    <3>1. rankAt(i) = rankAt(k)
      BY <2>2, <2>6 DEF isEqual
    <3>2. rankAt(i) \in 1..3 /\ rankAt(j) \in 1..3 /\ rankAt(k) \in 1..3
      BY <2>2
    <3>3. rankAt(j) = rankAt(i)
      <4>1. CASE sortedBy = "greater"
        BY <2>3, <2>6, <3>1, <3>2, <4>1
      <4>2. CASE sortedBy = "less"
        BY <2>4, <2>6, <3>1, <3>2, <4>2
      <4>3. QED
        BY <2>1, <2>6, <4>1, <4>2
    <3>4. QED
      BY <2>2, <3>3
  <2>7. QED
    BY <2>5, <2>6 DEF SortedFaultsGroupByPriority
<1>2. DevicesInv => SortedFaultsGroupByPriority
  BY <1>1
<1>3. QED
  BY <1>2, DevicesInvInductive, PTL

-----------------------------------------------------------------------------
(* Addresses as texts.                                                      *)

(* What stoul reads from up to three digits.                                *)
LEMMA ShortValue ==
    ASSUME NEW part \in Seq(0..9), Len(part) \in 1..3
    PROVE  /\ Len(part) = 1 => Value(part) = part[1]
           /\ Len(part) = 2 => Value(part) = 10 * part[1] + part[2]
           /\ Len(part) = 3 => Value(part) = 100 * part[1] + 10 * part[2] + part[3]
<1> DEFINE Reads(f) == f = [i \in 0..Len(part) |->
                              IF i = 0 THEN 0 ELSE 10 * f[i - 1] + part[i]]
           one   == part[1]
           two   == 10 * one + part[2]
           three == 10 * two + part[3]
           g == [i \in 0..Len(part) |-> IF i = 0 THEN 0 ELSE IF i = 1 THEN one
                                        ELSE IF i = 2 THEN two ELSE three]
<1>1. Value(part) = (CHOOSE f : Reads(f))[Len(part)]
  BY DEF Value
<1>2. \A i \in 1..Len(part) : part[i] \in 0..9
  OBVIOUS
<1>3. \A i \in 0..Len(part) :
         g[i] = IF i = 0 THEN 0 ELSE 10 * g[i - 1] + part[i]
  BY <1>2
<1>4. Reads(g)
  BY <1>3
<1> HIDE DEF Reads
<1>5. PICK f : Reads(f) /\ Value(part) = f[Len(part)]
  BY <1>1, <1>4
<1>6. \A i \in 0..Len(part) :
         f[i] = IF i = 0 THEN 0 ELSE 10 * f[i - 1] + part[i]
  BY <1>5 DEF Reads
<1>7. /\ f[1] = part[1] /\ part[1] \in 0..9
      /\ Len(part) >= 2 => f[2] = 10 * f[1] + part[2] /\ part[2] \in 0..9
      /\ Len(part) = 3 => f[3] = 10 * f[2] + part[3] /\ part[3] \in 0..9
  <2>1. f[0] = 0 /\ f[1] = 10 * f[0] + part[1] /\ part[1] \in 0..9
    BY <1>2, <1>6
  <2>2. Len(part) >= 2 => f[2] = 10 * f[1] + part[2] /\ part[2] \in 0..9
    BY <1>2, <1>6
  <2>3. Len(part) = 3 => f[3] = 10 * f[2] + part[3] /\ part[3] \in 0..9
    BY <1>2, <1>6
  <2>4. QED
    BY <2>1, <2>2, <2>3
<1>8. CASE Len(part) = 1
  BY <1>5, <1>7, <1>8
<1>9. CASE Len(part) = 2
  BY <1>5, <1>7, <1>9
<1>10. CASE Len(part) = 3
  <2>1. PICK a \in 0..9, b \in 0..9, c \in 0..9 :
             a = part[1] /\ b = part[2] /\ c = part[3]
    BY <1>7, <1>10
  <2>2. f[3] = 10 * (10 * a + b) + c
    BY <1>7, <1>10, <2>1
  <2>3. f[3] = 100 * a + 10 * b + c
    BY <2>2
  <2>4. QED
    BY <1>5, <1>10, <2>1, <2>3
<1>11. QED
  BY <1>8, <1>9, <1>10

LEMMA ShortNumbers ==
    ASSUME NEW a \in 0..9, NEW b \in 0..9
    PROVE  /\ IsNumber(<<a>>) /\ Value(<<a>>) = a
           /\ IsNumber(<<a, b>>) /\ Value(<<a, b>>) = 10 * a + b
<1>1. IsNumber(<<a>>) /\ IsNumber(<<a, b>>)
  BY DEF IsNumber
<1>2. PICK one \in Seq(0..9), two \in Seq(0..9) : one = <<a>> /\ two = <<a, b>>
  <2>1. <<a>> \in Seq(0..9) /\ <<a, b>> \in Seq(0..9)
    OBVIOUS
  <2>2. QED
    BY <2>1
<1>3. /\ Len(one) = 1 /\ one[1] = a
      /\ Len(two) = 2 /\ two[1] = a /\ two[2] = b
  BY <1>2
<1>4. Value(one) = a /\ Value(two) = 10 * a + b
  BY <1>3, ShortValue
<1>5. QED
  BY <1>1, <1>2, <1>4

LEMMA ThreeDigits ==
    ASSUME NEW a \in 0..9, NEW b \in 0..9, NEW c \in 0..9
    PROVE  IsNumber(<<a, b, c>>) /\ Value(<<a, b, c>>) = 100 * a + 10 * b + c
<1>1. IsNumber(<<a, b, c>>)
  BY DEF IsNumber
<1>2. PICK part \in Seq(0..9) : part = <<a, b, c>>
  <2>1. <<a, b, c>> \in Seq(0..9)
    OBVIOUS
  <2>2. QED
    BY <2>1
<1>3. Len(part) = 3 /\ part[1] = a /\ part[2] = b /\ part[3] = c
  BY <1>2
<1>4. Value(part) = 100 * a + 10 * b + c
  BY <1>3, ShortValue
<1>5. QED
  BY <1>1, <1>2, <1>4

(* What operator<< writes of an octet is read back as that octet.           *)
LEMMA NumeralIsRead ==
    ASSUME NEW n \in Octet
    PROVE  IsNumber(Numeral(n)) /\ Value(Numeral(n)) = n
<1> n \in 0..255
  BY DEF Octet
<1>1. CASE n < 10
  <2>1. Numeral(n) = <<n>> /\ n \in 0..9
    BY <1>1 DEF Numeral
  <2>2. QED
    BY <2>1, ShortNumbers
<1>2. CASE n >= 10 /\ n < 100
  <2>1. PICK a \in 0..9, b \in 0..9 :
             a = n \div 10 /\ b = n % 10 /\ 10 * a + b = n
    BY <1>2
  <2>2. Numeral(n) = <<a, b>>
    BY <1>2, <2>1 DEF Numeral
  <2>3. IsNumber(<<a, b>>) /\ Value(<<a, b>>) = 10 * a + b
    BY ShortNumbers
  <2>4. QED
    BY <2>1, <2>2, <2>3
<1>3. CASE n >= 100
  <2>1. PICK a \in 0..9, b \in 0..9, c \in 0..9 :
             /\ a = n \div 100 /\ b = (n \div 10) % 10 /\ c = n % 10
             /\ 100 * a + 10 * b + c = n
    BY <1>3
  <2>2. Numeral(n) = <<a, b, c>>
    BY <1>3, <2>1 DEF Numeral
  <2>3. IsNumber(<<a, b, c>>) /\ Value(<<a, b, c>>) = 100 * a + 10 * b + c
    BY ThreeDigits
  <2>4. Value(<<a, b, c>>) = n
    BY <2>1, <2>3
  <2>5. QED
    BY <2>2, <2>3, <2>4
<1>4. QED
  BY <1>1, <1>2, <1>3

(* A 32-bit value is composed of its octets.                                *)
LEMMA OctetsCompose ==
    ASSUME NEW v \in Nat, v \div (256 * 256 * 256) \in Octet
    PROVE  /\ \A i \in 1..4 : OctetOf(v, i) \in Octet
           /\ Compose(OctetOf(v, 1), OctetOf(v, 2), OctetOf(v, 3), OctetOf(v, 4)) = v
<1> DEFINE x == v \div 256
           y == x \div 256
           z == y \div 256
<1>1. /\ x \in Nat /\ v % 256 \in 0..255 /\ v = x * 256 + (v % 256)
      /\ y \in Nat /\ x % 256 \in 0..255 /\ x = y * 256 + (x % 256)
      /\ z \in Nat /\ y % 256 \in 0..255 /\ y = z * 256 + (y % 256)
  OBVIOUS
<1>2. v \div (256 * 256) = y /\ v \div (256 * 256 * 256) = z
  OBVIOUS
<1>3. z \in 0..255 /\ z % 256 = z
  BY <1>2 DEF Octet
<1> HIDE DEF x, y, z
<1>4. /\ OctetOf(v, 1) = z /\ OctetOf(v, 2) = y % 256
      /\ OctetOf(v, 3) = x % 256 /\ OctetOf(v, 4) = v % 256
  BY <1>2, <1>3 DEF OctetOf, x
<1>5. Compose(z, y % 256, x % 256, v % 256) = v
  BY <1>1 DEF Compose
<1>6. QED
  BY <1>1, <1>3, <1>4, <1>5 DEF Octet

(* u32_to_ipv4 writes what ipv4_to_u32 takes and reads as the same address. *)
LEMMA ShownAddressIsRead ==
    ASSUME NEW v \in Nat, v \div (256 * 256 * 256) \in Octet
    PROVE  /\ ipv4_error(u32_to_ipv4(v)) = "none"
           /\ ipv4_to_u32(u32_to_ipv4(v)) = v
<1> DEFINE text == u32_to_ipv4(v)
<1>1. /\ Len(text) = 4 /\ DOMAIN text = 1..4
      /\ \A i \in 1..4 : text[i] = Numeral(OctetOf(v, i))
  BY DEF u32_to_ipv4
<1>2. \A i \in 1..4 : /\ IsNumber(text[i])
                      /\ Value(text[i]) = OctetOf(v, i)
                      /\ OctetOf(v, i) \in Octet
  BY <1>1, OctetsCompose, NumeralIsRead
<1> HIDE DEF text
<1>3. \A i \in 1..4 : parse_octet_error(text[i]) = "none"
  BY <1>2, ULongAssumption DEF parse_octet_error, Octet
<1>4. SelectInSeq(text, LAMBDA p : parse_octet_error(p) # "none") = 0
  BY <1>1, <1>3 DEF SelectInSeq
<1>5. ipv4_error(text) = "none"
  BY <1>1, <1>2, <1>4 DEF ipv4_error
<1>6. ipv4_to_u32(text) = v
  BY <1>2, OctetsCompose DEF ipv4_to_u32
<1>7. QED
  BY <1>5, <1>6 DEF text

(* The address shown for a device of the collection is accepted when it is  *)
(* typed again and finds the device, or an earlier one with its address:    *)
(* u32_to_ipv4 and ipv4_to_u32 are inverse on every 32-bit value.           *)
THEOREM ShownAddressFinds == Spec => []ShownAddressFindsDevice
<1>1. ASSUME TypeOK
      PROVE  ShownAddressFindsDevice
  <2> SUFFICES ASSUME NEW i \in DOMAIN devices, NEW a, a = devices[i].address
               PROVE  /\ ipv4_error(u32_to_ipv4(a)) = "none"
                      /\ find(ipv4_to_u32(u32_to_ipv4(a))) \in 1..i
    BY DEF ShownAddressFindsDevice
  <2>1. devices \in Seq(Object) /\ devices[i] \in Object /\ a \in Address
    <3>1. devices \in Seq(Object) /\ devices[i] \in Object
      BY <1>1 DEF TypeOK
    <3>2. QED
      BY <3>1 DEF Object
  <2>2. /\ ipv4_error(u32_to_ipv4(a)) = "none"
        /\ ipv4_to_u32(u32_to_ipv4(a)) = a
    BY <2>1, AddressAssumption, ShownAddressIsRead
  <2>3. find(a) \in 1..i
    BY <2>1, FindIsFirst
  <2>4. QED
    BY <2>2, <2>3
<1>2. QED
  BY <1>1, DevicesTypeCorrect, PTL
=============================================================================
