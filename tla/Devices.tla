------------------------------ MODULE Devices ------------------------------
(***************************************************************************)
(* The device objects of the C++ library (Device.h and its classes), the    *)
(* legacy FaultyDevice beside them, and DeviceCollection, which owns        *)
(* devices and sorts them into the service plan.  Names are numbers: only   *)
(* their order is used.  Fault texts and uptimes are left out; of a fault   *)
(* text whether it is empty is kept.                                        *)
(***************************************************************************)
EXTENDS EsmData, Ipv4

CONSTANTS
    Name,                    \* names of devices
    Texts,                   \* addresses as they are typed
    MaxDevices               \* bound: devices there are, a fault included

(* The texts ipv4_to_u32 does not throw on.                                 *)
Accepted == {text \in Texts : ipv4_error(text) = "none"}

ASSUME NameAssumption == Name \subseteq Nat
(* An address is a std::uint32_t; those of the texts are among them.        *)
ASSUME AddressAssumption ==
    /\ Address \subseteq Nat /\ \A a \in Address : a \div (256 * 256 * 256) \in Octet
    /\ \A text \in Accepted : ipv4_to_u32(text) \in Address

VARIABLES
    devices,                 \* DeviceCollection::devices_
    faults,                  \* a vector of FaultyDevice beside it
    planned,                 \* history: nothing changed since the last sort
    sortedBy,                \* history: how the faults stand sorted
    cleared                  \* history: a faulty device lost its priority

vars == <<devices, faults, planned, sortedBy, cleared>>

Class == {"HealthyDevice", "ReserveDevice", "FaultyDeviceEx"}
Object == [class : Class, name : Name, address : Address, priority : Priority]
FaultyDevice == [name : Name, address : Address, priority : Priority]

-----------------------------------------------------------------------------
(* The classes.                                                             *)

HealthyDevice(n, a, p) ==
    [class |-> "HealthyDevice", name |-> n, address |-> a, priority |-> p]
ReserveDevice(n, a, p) ==
    [class |-> "ReserveDevice", name |-> n, address |-> a, priority |-> p]

(* A bug: a cast from a number the enumeration does not have.               *)
RaisedTooHigh(p) == IF p = "None" THEN "Unknown" ELSE p

Raised(p) == IF p = "None" THEN "Low" ELSE p

(* A bug: the constructor takes any priority.                               *)
FaultyDeviceExUnraised(n, a, p) ==
    [class |-> "FaultyDeviceEx", name |-> n, address |-> a, priority |-> p]

(* The constructor gives a faulty device a priority.                        *)
FaultyDeviceEx(n, a, p) ==
    [class |-> "FaultyDeviceEx", name |-> n, address |-> a, priority |-> Raised(p)]

Construct(class, n, a, p) ==
    CASE class = "HealthyDevice"  -> HealthyDevice(n, a, p)
      [] class = "ReserveDevice"  -> ReserveDevice(n, a, p)
      [] class = "FaultyDeviceEx" -> FaultyDeviceEx(n, a, p)

isFaulty(d) == d.class = "FaultyDeviceEx"

(* A healthy or reserve device becomes a faulty one, a faulty one is copied *)
(* as it is, without the constructor.                                       *)
breakDown(d) ==
    IF isFaulty(d) THEN d ELSE FaultyDeviceEx(d.name, d.address, Raised(d.priority))

(* The empty fault text is an error for the classes that use it.            *)
breakDownThrows(d, faultIsEmpty) == faultIsEmpty /\ ~isFaulty(d)

(* A bug: a repaired device needs no service.                               *)
repairForgetsPriority(d) == HealthyDevice(d.name, d.address, "None")

(* Whatever was repaired is in service afterwards, in reserve no more.      *)
repair(d) == HealthyDevice(d.name, d.address, d.priority)

(* DeviceRepository::upsert of an object.                                   *)
StoredRow(d) == [priority   |-> d.priority,
                 is_faulty  |-> isFaulty(d),
                 is_reserve |-> d.class = "ReserveDevice"]

-----------------------------------------------------------------------------
(* The order of the plan and the order of FaultyDevice.                     *)

priority_order(p) == CASE p = "High" -> 3 [] p = "Low" -> 2 [] p = "None" -> 1

(* A bug: >= where the comparator of std::sort has to be strict.            *)
comesBeforeOrEqual(a, b) ==
    IF a.priority # b.priority
    THEN priority_order(a.priority) >= priority_order(b.priority)
    ELSE IF a.name # b.name THEN a.name < b.name
    ELSE a.address <= b.address

(* A bug: the order of the enumeration, least important first.              *)
comesBeforeAscending(a, b) ==
    IF a.priority # b.priority
    THEN priority_order(a.priority) < priority_order(b.priority)
    ELSE IF a.name # b.name THEN a.name < b.name
    ELSE a.address < b.address

(* The comparator of sort_by_priority_desc.                                 *)
comesBefore(a, b) ==
    IF priority_order(a.priority) # priority_order(b.priority)
    THEN priority_order(a.priority) > priority_order(b.priority)
    ELSE IF a.name # b.name THEN a.name < b.name
    ELSE a.address < b.address

(* A bug: Low is not in the switch and gets what follows it.                *)
rankWithoutLow(p) == CASE p = "High" -> 3 [] p = "None" -> 1 [] p = "Low" -> 0

(* FaultyDevice has a rank of its own.                                      *)
rank(p) == CASE p = "High" -> 3 [] p = "Low" -> 2 [] p = "None" -> 1

(* FaultyDevice::operator<=>, less, and operator==.                         *)
isLess(f, g) ==
    IF rank(f.priority) # rank(g.priority)
    THEN rank(f.priority) < rank(g.priority)
    ELSE IF f.name # g.name THEN f.name < g.name
    ELSE f.address < g.address

(* A bug: equality by name.                                                 *)
isEqualByName(f, g) == f.name = g.name

isEqual(f, g) == f.priority = g.priority

-----------------------------------------------------------------------------
(* The collection.                                                          *)

(* DeviceCollection::find, as a place in the vector; 0 is nullptr.          *)
find(a) == SelectInSeq(devices, LAMBDA d : d.address = a)

Init ==
    /\ devices = << >>
    /\ faults = << >>
    /\ planned = FALSE
    /\ sortedBy = "nothing"
    /\ cleared = FALSE

add(d) ==
    /\ Len(devices) + Len(faults) < MaxDevices
    /\ devices' = Append(devices, d)
    /\ planned' = FALSE
    /\ UNCHANGED <<faults, sortedBy, cleared>>

(* emplace<T>(name, ipv4_to_u32(text), priority).                           *)
emplace(class, n, text, p) ==
    text \in Accepted /\ add(Construct(class, n, ipv4_to_u32(text), p))

(* There is no device when the text is refused.                             *)
emplaceThrows(text) == text \notin Accepted /\ UNCHANGED vars

(* Through the pointer find gives, whatever the class.                      *)
setPriority(a, p) ==
    /\ find(a) # 0
    /\ devices' = [devices EXCEPT ![find(a)].priority = p]
    /\ planned' = FALSE
    /\ cleared' = (cleared \/ (p = "None" /\ isFaulty(devices[find(a)])))
    /\ UNCHANGED <<faults, sortedBy>>

(* breakDown and repair give a new object; the collection has no way to     *)
(* take the old one out.                                                    *)
addBrokenDown(a, faultIsEmpty) ==
    /\ find(a) # 0
    /\ ~breakDownThrows(devices[find(a)], faultIsEmpty)
    /\ add(breakDown(devices[find(a)]))

breakDownFails(a) ==
    /\ find(a) # 0
    /\ breakDownThrows(devices[find(a)], TRUE)
    /\ UNCHANGED vars

addRepaired(a) == find(a) # 0 /\ add(repair(devices[find(a)]))

addClone(a) == find(a) # 0 /\ add(devices[find(a)])

IsOrdered(ds) ==
    \A i, j \in DOMAIN ds : i < j => ~comesBefore(ds[j], ds[i])

(* std::sort: any permutation its comparator finds nothing wrong with.      *)
sort_by_priority_desc ==
    /\ \E place \in [DOMAIN devices -> DOMAIN devices] :
         /\ IsInjective(place)
         /\ devices' = [i \in DOMAIN devices |-> devices[place[i]]]
         /\ IsOrdered(devices')
    /\ planned' = TRUE
    /\ UNCHANGED <<faults, sortedBy, cleared>>

-----------------------------------------------------------------------------
(* Faults outside the collection: created, changed, sorted, repaired into   *)
(* it.  The constructor takes any priority, and repair leaves the fault.    *)

newFaultyDevice(n, text, p) ==
    /\ Len(devices) + Len(faults) < MaxDevices
    /\ text \in Accepted
    /\ faults' = Append(faults,
                  [name |-> n, address |-> ipv4_to_u32(text), priority |-> p])
    /\ sortedBy' = "nothing"
    /\ UNCHANGED <<devices, planned, cleared>>

setFaultPriority(i, p) ==
    /\ faults' = [faults EXCEPT ![i].priority = p]
    /\ sortedBy' = "nothing"
    /\ UNCHANGED <<devices, planned, cleared>>

(* By operator< as std::sort takes it, or by std::greater as in the tests.  *)
IsSortedBy(order, fs) ==
    \A i, j \in DOMAIN fs : i < j => IF order = "less" THEN ~isLess(fs[j], fs[i])
                                     ELSE ~isLess(fs[i], fs[j])

sortFaults(order) ==
    /\ \E place \in [DOMAIN faults -> DOMAIN faults] :
         /\ IsInjective(place)
         /\ faults' = [i \in DOMAIN faults |-> faults[place[i]]]
         /\ IsSortedBy(order, faults')
    /\ sortedBy' = order
    /\ UNCHANGED <<devices, planned, cleared>>

addRepairedFault(i) == add(repair(faults[i]))

Next ==
    \/ \E text \in Texts, class \in Class, n \in Name, p \in Priority :
          emplace(class, n, text, p)
    \/ \E text \in Texts : emplaceThrows(text)
    \/ \E a \in Address, p \in Priority : setPriority(a, p)
    \/ \E a \in Address, faultIsEmpty \in BOOLEAN : addBrokenDown(a, faultIsEmpty)
    \/ \E a \in Address : breakDownFails(a) \/ addRepaired(a) \/ addClone(a)
    \/ sort_by_priority_desc
    \/ \E text \in Texts, n \in Name, p \in Priority : newFaultyDevice(n, text, p)
    \/ \E i \in DOMAIN faults, p \in Priority : setFaultPriority(i, p)
    \/ \E order \in {"less", "greater"} : sortFaults(order)
    \/ \E i \in DOMAIN faults : addRepairedFault(i)

Spec == Init /\ [][Next]_vars

-----------------------------------------------------------------------------
(* Properties.                                                              *)

TypeOK ==
    /\ devices \in Seq(Object)
    /\ faults \in Seq(FaultyDevice)
    /\ planned \in BOOLEAN /\ cleared \in BOOLEAN
    /\ sortedBy \in {"nothing", "less", "greater"}

(* "Приоритет обслуживания может отсутствовать только у исправных           *)
(* устройств", README.md:3: whatever is constructed, copied, broken down    *)
(* and repaired in any order, a faulty device has a priority, as long as    *)
(* nobody takes it away by setPriority, which no class refuses.             *)
FaultyDeviceKeepsPriority ==
    ~cleared => \A i \in DOMAIN devices :
                    isFaulty(devices[i]) => devices[i].priority # "None"

(* What std::sort asks of its comparator; otherwise its behaviour is        *)
(* undefined.  Devices it does not tell apart are the same for the plan.    *)
ComparatorIsStrictWeak ==
    \A i, j, k \in DOMAIN devices :
        LET a == devices[i]  b == devices[j]  c == devices[k] IN
        /\ ~(comesBefore(a, b) /\ comesBefore(b, a))
        /\ comesBefore(a, b) /\ comesBefore(b, c) => comesBefore(a, c)
        /\ ~comesBefore(a, b) /\ ~comesBefore(b, a) =>
              <<a.priority, a.name, a.address>> = <<b.priority, b.name, b.address>>

(* "Порядок важности High > Low > None", ServicePriority.h:15.              *)
IsMoreImportant(p, q) == <<p, q>> \in {<<"High", "Low">>, <<"High", "None">>,
                                       <<"Low", "None">>}

(* The plan is ordered by falling importance (README.md:9) and, although a  *)
(* collection keeps the old object of a device that broke down or was       *)
(* repaired, find gives its most important one after a sort.                *)
PlanIsByImportance ==
    planned =>
        /\ \A i, j \in DOMAIN devices :
              IsMoreImportant(devices[i].priority, devices[j].priority) => i < j
        /\ \A i \in DOMAIN devices :
              LET first == devices[find(devices[i].address)] IN
              ~IsMoreImportant(devices[i].priority, first.priority)

(* Two implementations of the life cycle agree: storing the object that     *)
(* breakDown or repair gives writes the row that Engine::breakdown or       *)
(* finish_repair writes for the stored one.  They differ for devices in     *)
(* reserve, and breakdown for those without a priority.                     *)
StoredLifeCycleAgrees ==
    \A i \in DOMAIN devices : LET d == devices[i] IN
        d.class # "ReserveDevice" =>
            /\ d.priority # "None" => StoredRow(breakDown(d)) = FaultyRow(StoredRow(d))
            /\ StoredRow(repair(d)) = HealthyRow(StoredRow(d))

(* The address shown for a device, typed again, is accepted and finds it,   *)
(* however it was first typed.                                              *)
ShownAddressFindsDevice ==
    \A i \in DOMAIN devices :
        LET shown == u32_to_ipv4(devices[i].address) IN
        /\ ipv4_error(shown) = "none"
        /\ find(ipv4_to_u32(shown)) \in 1..i

(* A vector of faults sorted by std::greater goes by falling importance, as *)
(* the tests expect (main.cpp:97).  Although == looks at the priority only  *)
(* and <=> at name and address too, so that two faults can be equal and     *)
(* ordered at once, a sort by <=> in either direction leaves faults that    *)
(* are == together: no fault of another priority stands between them.       *)
SortedFaultsGroupByPriority ==
    /\ sortedBy = "greater" =>
          \A i, j \in DOMAIN faults :
              IsMoreImportant(faults[i].priority, faults[j].priority) => i < j
    /\ sortedBy # "nothing" =>
          \A i, j, k \in DOMAIN faults :
              i < j /\ j < k /\ isEqual(faults[i], faults[k]) =>
                  faults[j].priority = faults[i].priority

(* "Сортирует по убыванию приоритета, затем по имени, затем по адресу",     *)
(* FaultyDevice.h:88 of operator<=>: std::sort by it puts the more          *)
(* important fault first, and of equally important ones the lesser name.    *)
FaultsSortAsCommented ==
    sortedBy = "less" =>
        \A i, j \in DOMAIN faults : i < j =>
            \/ IsMoreImportant(faults[i].priority, faults[j].priority)
            \/ /\ faults[i].priority = faults[j].priority
               /\ \/ faults[i].name < faults[j].name
                  \/ /\ faults[i].name = faults[j].name
                     /\ faults[i].address <= faults[j].address
=============================================================================
