---------------------------- MODULE ConfigProofs ----------------------------
(***************************************************************************)
(* Proofs about Config for every set of documents, with any number of      *)
(* devices and whatever values in them, every set of legal names and every *)
(* spelling of endpoints as paths.                                         *)
(***************************************************************************)
EXTENDS Config, FiniteSetTheorems, WellFoundedInduction, TLAPS

-----------------------------------------------------------------------------
(* What the parsers return.                                                *)

LineOK(line) ==
  \/ line.kind = "rtu"
  \/ line = [kind |-> "tcp", host |-> line.host, port |-> line.port]

MasterOK(d) ==
  /\ LineOK(d.line)
  /\ DelayOK(d.delay) /\ d.delay.min < d.delay.max

MeterOK(m) ==
  /\ m.ebz \in BOOLEAN /\ m.primary \in BOOLEAN
  /\ m.ebz = FALSE => MasterOK(m.body)
  /\ m.location \in Locations \union {"none"}
  /\ m.primary = TRUE => m.location \in Locations
  /\ m.body.name = m.name

\* parseRtu(), parseTcpClient() and parseTcpServer() return a line.
LEMMA RtuLine ==
  ASSUME NEW node
  PROVE  LineOK(parseRtu(node))
  BY DEF parseRtu, LineOK

LEMMA TcpLine ==
  ASSUME NEW node
  PROVE  LineOK(parseTcpClient(node)) /\ LineOK(parseTcpServer(node))
  BY DEF parseTcpClient, parseTcpServer, LineOK

\* A value read with a default has the type of the default.
LEMMA Typed ==
  ASSUME NEW node, NEW key, NEW T, NEW default \in T
  PROVE  As(node, key, T, default) \in T
  BY DEF As

\* parseReconnectDelay() returns a range of positive delays.
LEMMA Delay ==
  ASSUME NEW node, ValidReconnectDelay(node)
  PROVE  /\ DelayOK(parseReconnectDelay(node))
         /\ parseReconnectDelay(node).min < parseReconnectDelay(node).max
  <1> DEFINE lo == As(node, "min", Int, 5)
             hi == As(node, "max", Int, 320)
             ex == As(node, "exponential", BOOLEAN, TRUE)
  <1>1. lo \in Int /\ hi \in Int
    BY Typed
  <1>2. ex \in BOOLEAN
    BY Typed, Zenon
  <1>3. parseReconnectDelay(node) = [min |-> lo, max |-> hi, exponential |-> ex]
    BY Zenon DEF parseReconnectDelay
  <1> HIDE DEF lo, hi, ex
  <1>4. lo > 0 /\ hi > 0 /\ lo < hi
    BY <1>3 DEF ValidReconnectDelay
  <1>5. QED
    BY <1>1, <1>2, <1>3, <1>4 DEF DelayOK

\* The parsers of the sections return what MasterOK() and MeterOK() say.
LEMMA Master ==
  ASSUME NEW node, ValidModbusMaster(node)
  PROVE  /\ MasterOK(parseModbusMaster(node))
         /\ parseModbusMaster(node).name = node.name
  <1> DEFINE timeout == Sub(node, "response_timeout")
             sec == As(timeout, "sec", Int, 5)
             usec == As(timeout, "usec", Int, 0)
             unit == As(node, "unit_id", Int, 1)
             delay == parseReconnectDelay(Sub(node, "reconnect_delay"))
             line == IF Has(node, "tcp") THEN parseTcpClient(node.tcp)
                     ELSE parseRtu(node.rtu)
             interval == As(node, "update_interval", Int, 4)
             d == parseModbusMaster(node)
  <1>1. LineOK(line)
    <2>1. CASE Has(node, "tcp")
      BY <2>1, TcpLine
    <2>2. CASE ~Has(node, "tcp")
      BY <2>2, RtuLine
    <2>3. QED
      BY <2>1, <2>2
  <1>2. DelayOK(delay) /\ delay.min < delay.max
    BY Delay DEF ValidModbusMaster
  <1>3. d = [name |-> node.name, line |-> line, slaveId |-> unit,
             updateInterval |-> interval, sec |-> sec, usec |-> usec,
             delay |-> delay]
    BY Zenon DEF parseModbusMaster
  <1> HIDE DEF sec, usec, unit, delay, line, interval, d
  <1>4. MasterOK(d) /\ d.name = node.name
    BY <1>1, <1>2, <1>3 DEF MasterOK
  <1>5. QED
    BY <1>4 DEF d

LEMMA Meter ==
  ASSUME NEW node, ValidMeter(node)
  PROVE  MeterOK(parseMeter(node)) /\ parseMeter(node).name = node.name
  <1> DEFINE ebz == Type(node) = "ebz"
             easy == [name |-> node.name, line |-> parseRtu(node.rtu),
                      grid |-> parseGrid(Sub(node, "grid"))]
             modbus == parseModbusMaster(node)
             body == IF ebz THEN easy ELSE modbus
             slave == IF Has(node, "slave")
                      THEN <<parseMeterSlave(node.slave)>> ELSE <<>>
             location == IF Has(node, "location") THEN node.location
                         ELSE "none"
             primary == As(node, "primary", BOOLEAN, FALSE)
             m == parseMeter(node)
  <1>1. m = [name |-> node.name, ebz |-> ebz, body |-> body, slave |-> slave,
             location |-> location, primary |-> primary]
    BY Zenon DEF parseMeter
  <1>2. ~ebz => MasterOK(body)
    BY Master DEF ValidMeter
  <1>3. body.name = node.name
    <2>1. easy.name = node.name /\ modbus.name = node.name
      BY DEF parseModbusMaster
    <2>2. QED
      BY <2>1
  <1>4. /\ location \in Locations \union {"none"}
        /\ Has(node, "location") => location \in Locations
    BY DEF ValidMeter
  <1>5. primary \in BOOLEAN
    BY Typed, Zenon
  <1>6. primary => Has(node, "location")
    BY Zenon DEF ValidMeter
  <1>7. ebz \in BOOLEAN
    OBVIOUS
  <1> HIDE DEF ebz, body, slave, location, primary, m
  <1>8. /\ m.name = node.name /\ m.ebz = ebz /\ m.body = body
         /\ m.slave = slave /\ m.location = location /\ m.primary = primary
    BY <1>1
  <1>9. MeterOK(m) /\ m.name = node.name
    BY <1>2, <1>3, <1>4, <1>5, <1>6, <1>7, <1>8 DEF MeterOK
  <1>10. QED
    BY <1>9 DEF m

-----------------------------------------------------------------------------
(* The sections.                                                           *)

IsList(s) == Len(s) \in Nat /\ DOMAIN s = 1..Len(s)

\* A parser returns one entry per node, under the name the node has.
SameNames(section, nodes) ==
  /\ DOMAIN section = DOMAIN nodes
  /\ \A i \in DOMAIN nodes : section[i].name = nodes[i].name

AppConfig ==
  cfg = [inverters |-> cfg.inverters, meters |-> cfg.meters,
         buses |-> cfg.buses, deviceRegistry |-> cfg.deviceRegistry]

Validated == {"derive", "loaded"}

\* What the parsers accepted, the sections hold, until the configuration is
\* complete or rejected.
SectionsInv ==
  /\ AppConfig
  /\ IsList(cfg.inverters) /\ IsList(cfg.meters)
  /\ \A i \in DOMAIN cfg.inverters : MasterOK(cfg.inverters[i])
  /\ \A i \in DOMAIN cfg.meters : MeterOK(cfg.meters[i])
  /\ \A i, j \in DOMAIN cfg.meters :
       cfg.meters[i].primary = TRUE /\ cfg.meters[j].primary = TRUE => i = j
  /\ stage \in {"meters", "sections", "validate"} \union Validated =>
       SameNames(cfg.inverters, Inverters)
  /\ stage \in {"sections", "validate"} \union Validated =>
       SameNames(cfg.meters, Meters)
  /\ stage \in Validated => validateConfig(cfg)

\* A section parsed entry by entry is a list.
LEMMA List ==
  ASSUME NEW node, IsSequence(node), NEW s,
         s = [i \in DOMAIN node |-> s[i]]
  PROVE  IsList(s)
  <1>1. Len(node) \in Nat /\ DOMAIN node = 1..Len(node)
    BY DEF IsSequence
  <1>2. QED
    BY <1>1 DEF IsList

LEMMA SectionsInit == Init => SectionsInv
  <1> SUFFICES ASSUME Init PROVE SectionsInv
    OBVIOUS
  <1>1. AppConfig /\ cfg.inverters = <<>> /\ cfg.meters = <<>>
    BY DEF Init, AppConfig
  <1>2. IsList(<<>>) /\ DOMAIN <<>> = {}
    BY DEF IsList
  <1>3. QED
    BY <1>1, <1>2 DEF Init, SectionsInv, Validated

\* A section whose parser throws is not stored.
LEMMA ParseInverters ==
  ASSUME SectionsInv, parseInverters
  PROVE  SectionsInv'
  <1>1. doc' = doc /\ stage = "inverters"
    BY DEF parseInverters, Step
  <1>2. CASE ~ValidInverters
    <2>1. stage' = "rejected" /\ cfg' = cfg
      BY <1>2 DEF parseInverters, Step
    <2>2. QED
      BY <2>1 DEF SectionsInv, AppConfig, Validated
  <1>3. CASE ValidInverters
    <2> DEFINE new == [i \in DOMAIN Inverters |->
                         parseModbusMaster(Inverters[i])]
    <2>1. stage' = "meters" /\ cfg' = [cfg EXCEPT !.inverters = new]
      BY <1>3 DEF parseInverters, Step
    <2>2. /\ IsList(new) /\ DOMAIN new = DOMAIN Inverters
          /\ \A i \in DOMAIN new : /\ MasterOK(new[i])
                                   /\ new[i].name = Inverters[i].name
      <3>1. IsList(new)
        BY <1>3, List DEF ValidInverters
      <3>2. ASSUME NEW i \in DOMAIN Inverters
            PROVE  /\ MasterOK(new[i])
                   /\ new[i].name = Inverters[i].name
        BY <1>3, <3>2, Master DEF ValidInverters, ValidInverter
      <3>3. QED
        BY <3>1, <3>2
    <2> HIDE DEF new
    <2>3. /\ AppConfig' /\ cfg'.inverters = new
          /\ cfg'.meters = cfg.meters
      BY <2>1 DEF SectionsInv, AppConfig
    <2>4. Inverters' = Inverters
      BY <1>1 DEF Inverters
    <2>5. QED
      BY <2>1, <2>2, <2>3, <2>4 DEF SectionsInv, SameNames, Validated
  <1>4. QED
    BY <1>2, <1>3

LEMMA ParseMeters ==
  ASSUME SectionsInv, parseMeters
  PROVE  SectionsInv'
  <1> DEFINE valid == ValidMeters(Meters) /\ (Inverters # <<>> \/ Meters # <<>>)
  <1>1. doc' = doc /\ stage = "meters"
    BY DEF parseMeters, Step
  <1>2. CASE ~valid
    <2>1. stage' = "rejected" /\ cfg' = cfg
      BY <1>2 DEF parseMeters, Step
    <2>2. QED
      BY <2>1 DEF SectionsInv, AppConfig, Validated
  <1>3. CASE valid
    <2> DEFINE new == [i \in DOMAIN Meters |-> parseMeter(Meters[i])]
    <2>1. stage' = "sections" /\ cfg' = [cfg EXCEPT !.meters = new]
      BY <1>3 DEF parseMeters, Step
    <2>2. /\ IsList(new) /\ DOMAIN new = DOMAIN Meters
          /\ \A i \in DOMAIN new : /\ MeterOK(new[i])
                                   /\ new[i].name = Meters[i].name
      <3>1. IsList(new)
        BY <1>3, List DEF ValidMeters
      <3>2. ASSUME NEW i \in DOMAIN Meters
            PROVE  /\ MeterOK(new[i])
                   /\ new[i].name = Meters[i].name
        BY <1>3, <3>2, Meter DEF ValidMeters
      <3>3. QED
        BY <3>1, <3>2
    <2>3. \A i, j \in DOMAIN new :
            new[i].primary = TRUE /\ new[j].primary = TRUE => i = j
      <3>1. \A i \in DOMAIN Meters :
              new[i].primary = As(Meters[i], "primary", BOOLEAN, FALSE)
        BY Zenon DEF parseMeter
      <3>2. \A i, j \in DOMAIN Meters :
              /\ As(Meters[i], "primary", BOOLEAN, FALSE)
              /\ As(Meters[j], "primary", BOOLEAN, FALSE)
              => i = j
        BY <1>3, Zenon DEF ValidMeters
      <3>3. QED
        BY <3>1, <3>2, Zenon
    <2> HIDE DEF new
    <2>4. /\ AppConfig' /\ cfg'.meters = new
          /\ cfg'.inverters = cfg.inverters
      BY <2>1 DEF SectionsInv, AppConfig
    <2>5. Inverters' = Inverters /\ Meters' = Meters
      BY <1>1 DEF Inverters, Meters
    <2>6. QED
      BY <1>1, <2>1, <2>2, <2>3, <2>4, <2>5
         DEF SectionsInv, SameNames, Validated
  <1>4. QED
    BY <1>2, <1>3

\* The devices and the validity of a configuration depend on its sections
\* only.
LEMMA SameDevices ==
  ASSUME NEW c, NEW e, c.inverters = e.inverters, c.meters = e.meters
  PROVE  /\ Devices(e) = Devices(c) /\ Masters(e) = Masters(c)
         /\ \A i : /\ Device(e, i) = Device(c, i) /\ Key(e, i) = Key(c, i)
                   /\ asEasyMeter(e, i) = asEasyMeter(c, i)
                   /\ SlaveLine(e, i) = SlaveLine(c, i)
  <1>1. Devices(e) = Devices(c)
    BY DEF Devices
  <1>2. \A i : /\ Device(e, i) = Device(c, i)
               /\ asEasyMeter(e, i) = asEasyMeter(c, i)
               /\ SlaveLine(e, i) = SlaveLine(c, i)
    BY DEF Device, MeterAt, asEasyMeter, SlaveLine
  <1>3. Masters(e) = Masters(c)
    BY <1>1, <1>2, Zenon DEF Masters
  <1>4. \A i : Key(e, i) = Key(c, i)
    BY <1>2, Zenon DEF Key
  <1>5. QED
    BY <1>1, <1>2, <1>3, <1>4, Zenon

LEMMA SameVerdict ==
  ASSUME NEW c, NEW e, c.inverters = e.inverters, c.meters = e.meters,
         validateConfig(c)
  PROVE  validateConfig(e)
  <1>1. /\ Devices(e) = Devices(c) /\ Masters(e) = Masters(c)
        /\ \A i : /\ Device(e, i) = Device(c, i) /\ Key(e, i) = Key(c, i)
                  /\ asEasyMeter(e, i) = asEasyMeter(c, i)
                  /\ SlaveLine(e, i) = SlaveLine(c, i)
    BY SameDevices
  <1>2. \A device : OnSerial(e, device) = OnSerial(c, device)
    BY <1>1, SMT DEF OnSerial
  <1>3. \A kind : Slaves(e, kind) = Slaves(c, kind)
    BY Zenon DEF Slaves
  <1>4. QED
    BY <1>1, <1>2, <1>3, Zenon
       DEF validateConfig, SingleEbz, UniqueNames, UniqueUnitIds,
           SameLineParameters, UniqueListeners, ExclusiveDevices

\* The sections do not change any more once they are parsed.
LEMMA SameSections ==
  ASSUME SectionsInv, doc' = doc, AppConfig',
         cfg'.inverters = cfg.inverters, cfg'.meters = cfg.meters,
         stage \in {"sections", "validate"} \union Validated,
         stage' \in Validated => validateConfig(cfg)
  PROVE  SectionsInv'
  <1>1. Inverters' = Inverters /\ Meters' = Meters
    BY DEF Inverters, Meters
  <1>2. stage' \in Validated => validateConfig(cfg')
    BY SameVerdict
  <1>3. QED
    BY <1>1, <1>2 DEF SectionsInv

\* Once validated, a configuration only gains buses and a roster.
LEMMA Derived ==
  ASSUME SectionsInv, deriveBuses \/ deriveDeviceRegistry
  PROVE  /\ AppConfig' /\ doc' = doc
         /\ cfg'.inverters = cfg.inverters /\ cfg'.meters = cfg.meters
         /\ stage = "derive" /\ stage' \in Validated
  BY DEF SectionsInv, AppConfig, deriveBuses, deriveDeviceRegistry, Step,
         Validated

\* What a parser of src/config_yaml.cpp let through, the sections of the
\* configuration keep, in every stage of loadConfig().
THEOREM SectionsInvariant == Spec => []SectionsInv
  <1>1. SectionsInv /\ [Next]_vars => SectionsInv'
    <2> SUFFICES ASSUME SectionsInv, [Next]_vars PROVE SectionsInv'
      OBVIOUS
    <2>1. CASE parseSections
      <3>1. /\ stage = "sections" /\ stage' \in {"validate", "rejected"}
            /\ cfg' = cfg /\ doc' = doc
        BY <2>1, Zenon DEF parseSections, Step
      <3>2. QED
        BY <3>1, SameSections DEF SectionsInv, AppConfig, Validated
    <2>2. CASE validate
      <3>1. /\ stage = "validate" /\ cfg' = cfg /\ doc' = doc
            /\ \/ stage' = "rejected"
               \/ stage' = "derive" /\ validateConfig(cfg)
        BY <2>2, Zenon DEF validate, Step
      <3>2. QED
        BY <3>1, SameSections DEF SectionsInv, AppConfig, Validated
    <2>3. CASE deriveBuses \/ deriveDeviceRegistry
      BY <2>3, Derived, SameSections DEF SectionsInv, Validated
    <2>4. CASE UNCHANGED vars
      BY <2>4 DEF vars, SectionsInv, AppConfig, Inverters, Meters
    <2>5. QED
      BY <2>1, <2>2, <2>3, <2>4, ParseInverters, ParseMeters DEF Next
  <1>2. QED
    BY <1>1, SectionsInit, PTL DEF Spec

-----------------------------------------------------------------------------
(* The devices.                                                            *)

\* The positions of n inverters and m meters, inverters first.
LEMMA Positions ==
  ASSUME NEW n \in Nat, NEW m \in Nat
  PROVE  /\ 1..(n + m) \subseteq Nat \ {0}
         /\ \A i \in 1..(n + m) : i <= n => i \in 1..n /\ ~(i > n)
         /\ \A i \in 1..(n + m) : i > n => i - n \in 1..m /\ ~(i <= n)
         /\ \A i \in 1..(n + m) : i <= n \/ i > n
         /\ \A i \in 1..n : i \in 1..(n + m) /\ ~(i > n)
         /\ \A i \in 1..m : /\ n + i \in 1..(n + m)
                             /\ ~(n + i <= n) /\ (n + i) - n = i
  OBVIOUS

\* What the parsers checked, for the devices by their position.
LEMMA DevicesOK ==
  ASSUME SectionsInv
  PROVE  /\ Len(cfg.inverters) \in Nat /\ Len(cfg.meters) \in Nat
         /\ Devices(cfg) \subseteq Nat \ {0}
         /\ Masters(cfg) \subseteq Devices(cfg)
         /\ \A i \in Masters(cfg) : MasterOK(Device(cfg, i))
  <1>1. /\ Len(cfg.inverters) \in Nat /\ Len(cfg.meters) \in Nat
        /\ DOMAIN cfg.inverters = 1..Len(cfg.inverters)
        /\ DOMAIN cfg.meters = 1..Len(cfg.meters)
    BY DEF SectionsInv, IsList
  <1>2. /\ Devices(cfg) \subseteq Nat \ {0}
        /\ Masters(cfg) \subseteq Devices(cfg)
    BY <1>1, Positions, Zenon DEF Devices, Masters
  <1>3. ASSUME NEW i \in Devices(cfg)
        PROVE  i \in Masters(cfg) => MasterOK(Device(cfg, i))
    <2>1. CASE i <= Len(cfg.inverters)
      <3>1. i \in DOMAIN cfg.inverters /\ ~(i > Len(cfg.inverters))
        BY <1>1, <2>1, Positions, Zenon DEF Devices
      <3>2. i \in Masters(cfg) /\ Device(cfg, i) = cfg.inverters[i]
        BY <2>1, <3>1 DEF Masters, asEasyMeter, Device
      <3>3. QED
        BY <3>1, <3>2 DEF SectionsInv
    <2>2. CASE i > Len(cfg.inverters)
      <3>1. /\ i - Len(cfg.inverters) \in DOMAIN cfg.meters
            /\ ~(i <= Len(cfg.inverters))
        BY <1>1, <2>2, Positions, Zenon DEF Devices
      <3>2. MeterOK(MeterAt(cfg, i)) /\ Device(cfg, i) = MeterAt(cfg, i).body
        BY <3>1 DEF SectionsInv, MeterAt, Device
      <3>3. i \in Masters(cfg) <=> MeterAt(cfg, i).ebz = FALSE
        BY <2>2, <3>2 DEF Masters, asEasyMeter, MeterOK
      <3>4. QED
        BY <3>2, <3>3 DEF MeterOK
    <2>3. QED
      BY <1>1, <2>1, <2>2, Positions, Zenon DEF Devices
  <1>4. QED
    BY <1>1, <1>2, <1>3

LEMMA LeastNatural ==
  ASSUME NEW S \in SUBSET Nat, S # {}
  PROVE  \E i \in S : \A j \in S : i <= j
  <1> DEFINE R == OpToRel(<, Nat)
  <1>1. \E i \in S : \A j \in S : ~(<<j, i>> \in R)
    <2>1. IsWellFoundedOn(R, Nat)
      BY NatLessThanWellFounded
    <2> HIDE DEF R
    <2>2. QED
      BY <2>1, WFMin
  <1>2. \A i, j \in S : ~(<<j, i>> \in R) => i <= j
    BY DEF OpToRel
  <1>3. QED
    BY <1>1, <1>2

\* The first user of a serial device speaks for all pairs of users.
LEMMA SharedLine ==
  ASSUME SectionsInv, SameLineParameters(cfg),
         NEW i \in Masters(cfg), NEW j \in Masters(cfg),
         Device(cfg, i).line.kind = "rtu", Device(cfg, j).line.kind = "rtu",
         Device(cfg, i).line.device = Device(cfg, j).line.device
  PROVE  Device(cfg, i).line = Device(cfg, j).line
  <1> DEFINE users == OnSerial(cfg, Device(cfg, i).line.device)
  <1>1. users \in SUBSET Nat /\ i \in users /\ j \in users
    BY DevicesOK DEF OnSerial
  <1>2. PICK f \in users : \A u \in users : f <= u
    BY <1>1, LeastNatural
  <1>3. /\ f \in Masters(cfg) /\ Device(cfg, f).line.kind = "rtu"
        /\ OnSerial(cfg, Device(cfg, f).line.device) = users
    BY <1>2 DEF OnSerial
  <1>4. \A u \in users : Device(cfg, u).line = Device(cfg, f).line
    BY <1>2, <1>3 DEF SameLineParameters
  <1>5. QED
    BY <1>1, <1>4

\* A serial line never carries two parties that would disturb each other:
\* validateConfig() finds every pair of them, in whatever sections they are.
THEOREM OneOwner == Spec => []OneOwnerPerLine
  <1>1. ASSUME SectionsInv PROVE OneOwnerPerLine
    <2> SUFFICES ASSUME stage = "loaded",
                        NEW u \in SerialUsers, NEW v \in SerialUsers, u # v,
                        u.line.device = v.line.device
                 PROVE  /\ u.role = "master" /\ v.role = "master"
                        /\ u.line = v.line
                        /\ u.unit # v.unit
      BY DEF OneOwnerPerLine
    <2>1. /\ SingleEbz(cfg) /\ UniqueUnitIds(cfg) /\ SameLineParameters(cfg)
          /\ ExclusiveDevices(cfg)
      BY <1>1 DEF SectionsInv, Validated, validateConfig
    <2> DEFINE OfMaster(w) ==
                 /\ w.at \in Masters(cfg) /\ w.role = "master"
                 /\ w.at \in OnSerial(cfg, w.line.device)
                 /\ w.line = Device(cfg, w.at).line
                 /\ w.unit = Device(cfg, w.at).slaveId
                 /\ w = [role |-> "master", at |-> w.at, line |-> w.line,
                         unit |-> w.unit]
               OfEbz(w) ==
                 /\ w.at \in Devices(cfg) \ Masters(cfg)
                 /\ w.line = Device(cfg, w.at).line
                 /\ w = [role |-> "ebz", at |-> w.at, line |-> w.line,
                         unit |-> 0]
               OfSlave(w) ==
                 /\ w.at \in Slaves(cfg, "rtu") /\ w.line = SlaveLine(cfg, w.at)
                 /\ w = [role |-> "slave", at |-> w.at, line |-> w.line,
                         unit |-> 0]
    <2>2. ASSUME NEW w \in SerialUsers
          PROVE  w.line.kind = "rtu" /\ (OfMaster(w) \/ OfEbz(w) \/ OfSlave(w))
      BY DEF SerialUsers, OnSerial
    <2>3. CASE OfMaster(u) /\ OfMaster(v)
      <3>1. u.at # v.at
        BY <2>3
      <3>2. u.line = v.line
        BY <1>1, <2>1, <2>2, <2>3, SharedLine
      <3>3. Key(cfg, u.at) = Key(cfg, v.at)
        BY <2>3, <3>2 DEF Key
      <3>4. QED
        BY <2>1, <2>3, <3>1, <3>2, <3>3 DEF UniqueUnitIds
    <2>4. CASE OfEbz(u) /\ OfEbz(v)
      BY <2>1, <2>4 DEF SingleEbz, Masters
    <2>5. CASE OfSlave(u) /\ OfSlave(v)
      BY <2>1, <2>5 DEF ExclusiveDevices
    <2>6. CASE (OfMaster(u) /\ OfEbz(v)) \/ (OfEbz(u) /\ OfMaster(v))
      BY <2>1, <2>6 DEF ExclusiveDevices
    <2>7. CASE (OfMaster(u) /\ OfSlave(v)) \/ (OfSlave(u) /\ OfMaster(v))
      BY <2>1, <2>7 DEF ExclusiveDevices
    <2>8. CASE (OfSlave(u) /\ OfEbz(v)) \/ (OfEbz(u) /\ OfSlave(v))
      BY <2>1, <2>8 DEF ExclusiveDevices
    <2>9. QED
      BY <2>2, <2>3, <2>4, <2>5, <2>6, <2>7, <2>8
  <1>2. QED
    BY <1>1, SectionsInvariant, PTL

-----------------------------------------------------------------------------
(* The roster.                                                             *)

RosterInv == stage = "loaded" => cfg.deviceRegistry = RegistryOf(cfg)

LEMMA RosterStep ==
  ASSUME SectionsInv, RosterInv, [Next]_vars
  PROVE  RosterInv'
  <1>1. CASE deriveDeviceRegistry
    <2>1. cfg' = [cfg EXCEPT !.deviceRegistry = RegistryOf(cfg)]
      BY <1>1, Zenon DEF deriveDeviceRegistry, Step
    <2>2. /\ cfg'.inverters = cfg.inverters /\ cfg'.meters = cfg.meters
          /\ cfg'.deviceRegistry = RegistryOf(cfg)
      BY <2>1 DEF SectionsInv, AppConfig
    <2>3. RegistryOf(cfg') = RegistryOf(cfg)
      BY <2>2 DEF RegistryOf, Devices, MeterAt
    <2>4. QED
      BY <2>2, <2>3 DEF RosterInv
  <1>2. CASE UNCHANGED vars
    BY <1>2 DEF vars, RosterInv
  <1>3. CASE ~deriveDeviceRegistry /\ Next
    <2>1. stage' # "loaded"
      BY <1>3, Zenon
         DEF Next, Step, parseInverters, parseMeters, parseSections, validate,
             deriveBuses
    <2>2. QED
      BY <2>1 DEF RosterInv
  <1>4. QED
    BY <1>1, <1>2, <1>3

\* No device is lost between the document and the roster of
\* deriveDeviceRegistry(), and names and the primary meter stay unique.
THEOREM RosterIsComplete == Spec => []RosterComplete
  <1>1. ASSUME SectionsInv, RosterInv, stage = "loaded"
        PROVE  RosterComplete
    <2> DEFINE roster == cfg.deviceRegistry
               n == Len(cfg.inverters)
               given(kind, nodes) == {<<kind, nodes[i].name>> : i \in DOMAIN nodes}
    <2>1. /\ n \in Nat /\ Len(cfg.meters) \in Nat
          /\ DOMAIN cfg.inverters = 1..n
          /\ DOMAIN cfg.meters = 1..Len(cfg.meters)
          /\ SameNames(cfg.inverters, Inverters)
          /\ SameNames(cfg.meters, Meters)
          /\ UniqueNames(cfg)
      BY <1>1 DEF SectionsInv, IsList, Validated, validateConfig
    <2>2. DOMAIN roster = Devices(cfg)
      BY <1>1 DEF RosterInv, RegistryOf
    <2>3. ASSUME NEW i \in Devices(cfg)
          PROVE  \/ /\ i <= n /\ i \in DOMAIN cfg.inverters
                    /\ roster[i].name = cfg.inverters[i].name
                    /\ roster[i].kind = "inverter"
                    /\ roster[i].primary = FALSE
                    /\ roster[i].name = Device(cfg, i).name
                 \/ /\ i > n /\ i - n \in DOMAIN cfg.meters
                    /\ roster[i].name = cfg.meters[i - n].name
                    /\ roster[i].kind = "meter"
                    /\ roster[i].primary = cfg.meters[i - n].primary
                    /\ roster[i].location = cfg.meters[i - n].location
                    /\ roster[i].name = Device(cfg, i).name
      <3>1. roster[i] = RegistryOf(cfg)[i]
        BY <1>1 DEF RosterInv
      <3>2. CASE i <= n
        <4>1. i \in DOMAIN cfg.inverters
          BY <2>1, <3>2, Positions, Zenon DEF Devices
        <4>2. Device(cfg, i) = cfg.inverters[i]
          BY <3>2, Zenon DEF Device
        <4>3. roster[i] = [name |-> cfg.inverters[i].name, kind |-> "inverter",
                           location |-> "none", primary |-> FALSE]
          BY <3>1, <3>2, Zenon DEF RegistryOf
        <4>4. QED
          BY <3>2, <4>1, <4>2, <4>3
      <3>3. CASE i > n
        <4>1. i - n \in DOMAIN cfg.meters /\ ~(i <= n)
          BY <2>1, <3>3, Positions, Zenon DEF Devices
        <4>2. MeterAt(cfg, i) = cfg.meters[i - n]
          BY DEF MeterAt
        <4>3. cfg.meters[i - n].body.name = cfg.meters[i - n].name
          BY <1>1, <4>1 DEF SectionsInv, MeterOK
        <4>4. Device(cfg, i) = cfg.meters[i - n].body
          BY <4>1, <4>2, Zenon DEF Device
        <4>5. roster[i] = [name |-> cfg.meters[i - n].name, kind |-> "meter",
                           location |-> cfg.meters[i - n].location,
                           primary |-> cfg.meters[i - n].primary]
          BY <3>1, <4>1, <4>2, Zenon DEF RegistryOf
        <4>6. QED
          BY <3>3, <4>1, <4>3, <4>4, <4>5
      <3>4. QED
        BY <2>1, <3>2, <3>3, Positions, Zenon DEF Devices
    <2>4. /\ \A i \in DOMAIN cfg.inverters : i \in Devices(cfg) /\ ~(i > n)
          /\ \A i \in DOMAIN cfg.meters :
               n + i \in Devices(cfg) /\ ~(n + i <= n) /\ (n + i) - n = i
      <3>1. Devices(cfg) = 1..(n + Len(cfg.meters))
        BY DEF Devices
      <3> DEFINE m == Len(cfg.meters)
      <3> HIDE DEF n, m
      <3>2. /\ n \in Nat /\ m \in Nat /\ Devices(cfg) = 1..(n + m)
            /\ DOMAIN cfg.inverters = 1..n /\ DOMAIN cfg.meters = 1..m
        BY <2>1, <3>1, Zenon DEF m
      <3>3. /\ \A i \in 1..n : i \in 1..(n + m) /\ ~(i > n)
            /\ \A i \in 1..m : /\ n + i \in 1..(n + m)
                                /\ ~(n + i <= n) /\ (n + i) - n = i
        BY <3>2, Positions
      <3>4. QED
        BY <3>2, <3>3, Zenon
    <2> HIDE DEF roster, n
    <2>5. \A i, j \in DOMAIN roster : i # j => roster[i].name # roster[j].name
      <3>1. \A i \in DOMAIN roster : roster[i].name = Device(cfg, i).name
        BY <2>2, <2>3, Zenon
      <3>2. QED
        BY <2>1, <2>2, <3>1, Zenon DEF UniqueNames
    <2>6. {<<roster[i].kind, roster[i].name>> : i \in DOMAIN roster} =
             given("inverter", Inverters) \union given("meter", Meters)
      <3>1. ASSUME NEW i \in Devices(cfg)
            PROVE  <<roster[i].kind, roster[i].name>> \in
                     given("inverter", Inverters) \union given("meter", Meters)
        BY <2>1, <2>3 DEF SameNames
      <3>2. ASSUME NEW i \in DOMAIN Inverters
            PROVE  \E j \in Devices(cfg) :
                     /\ roster[j].kind = "inverter"
                     /\ roster[j].name = Inverters[i].name
        <4>1. i \in DOMAIN cfg.inverters /\ cfg.inverters[i].name = Inverters[i].name
          BY <2>1, <3>2, Zenon DEF SameNames
        <4>2. QED
          BY <2>3, <2>4, <4>1, Zenon
      <3>3. ASSUME NEW i \in DOMAIN Meters
            PROVE  \E j \in Devices(cfg) :
                     /\ roster[j].kind = "meter"
                     /\ roster[j].name = Meters[i].name
        <4>1. i \in DOMAIN cfg.meters /\ cfg.meters[i].name = Meters[i].name
          BY <2>1, <3>3, Zenon DEF SameNames
        <4>2. n + i \in Devices(cfg) /\ ~(n + i <= n) /\ (n + i) - n = i
          BY <2>4, <4>1, Zenon
        <4>3. /\ roster[n + i].kind = "meter"
              /\ roster[n + i].name = cfg.meters[(n + i) - n].name
          BY <2>3, <4>2, Zenon
        <4>4. QED
          BY <4>1, <4>2, <4>3, Zenon
      <3>4. QED
        BY <2>2, <3>1, <3>2, <3>3
    <2>7. ASSUME NEW i \in DOMAIN roster, NEW j \in DOMAIN roster,
                 roster[i].primary
          PROVE  /\ roster[i].location \in Locations
                 /\ roster[j].primary => i = j
      <3>1. /\ i > n /\ i - n \in DOMAIN cfg.meters
            /\ cfg.meters[i - n].primary = TRUE
            /\ roster[i].location = cfg.meters[i - n].location
        <4>1. \A k \in DOMAIN cfg.meters : cfg.meters[k].primary \in BOOLEAN
          BY <1>1 DEF SectionsInv, MeterOK
        <4>2. QED
          BY <2>2, <2>3, <2>7, <4>1
      <3>2. roster[i].location \in Locations
        BY <1>1, <3>1 DEF SectionsInv, MeterOK
      <3>3. ASSUME roster[j].primary PROVE i = j
        <4>1. /\ j > n /\ j - n \in DOMAIN cfg.meters
              /\ cfg.meters[j - n].primary = TRUE
          <5>1. \A k \in DOMAIN cfg.meters : cfg.meters[k].primary \in BOOLEAN
            BY <1>1 DEF SectionsInv, MeterOK
          <5>2. QED
            BY <2>2, <2>3, <3>3, <5>1
        <4>2. i - n = j - n
          BY <1>1, <3>1, <4>1 DEF SectionsInv
        <4>3. i \in Nat /\ j \in Nat /\ n \in Nat
          BY <1>1, <2>1, <2>2, DevicesOK
        <4>4. QED
          BY <4>2, <4>3
      <3>4. QED
        BY <3>2, <3>3
    <2>8. QED
      BY <2>5, <2>6, <2>7, Zenon DEF RosterComplete, roster
  <1>2. ~(stage = "loaded") => RosterComplete
    BY DEF RosterComplete
  <1>3. Init => RosterInv
    BY DEF Init, RosterInv
  <1>4. QED
    BY <1>1, <1>2, <1>3, SectionsInvariant, RosterStep, PTL DEF Spec

-----------------------------------------------------------------------------
(* The buses.                                                              *)

\* When deriveBuses() visits a device; Visited() is the inverse.
Order(c, i) ==
  IF i > Len(c.inverters) THEN i - Len(c.inverters) ELSE i + Len(c.meters)

\* The masters visited before the n-th device, and those on one bus.
Before(c, n) == {i \in Masters(c) : Order(c, i) < n}
Joined(c, n, k) == {i \in Before(c, n) : Key(c, i) = k}

\* The folded policy of the devices S.
PolicyOK(c, policy, S) ==
  /\ DelayOK(policy) /\ policy.min < policy.max
  /\ \E i \in S : Device(c, i).delay.min = policy.min
  /\ \E i \in S : Device(c, i).delay.max = policy.max
  /\ \A i \in S : /\ Device(c, i).delay.min >= policy.min
                  /\ Device(c, i).delay.max >= policy.max
  /\ policy.exponential = TRUE <=>
       \E i \in S : Device(c, i).delay.exponential = TRUE

\* The members of the bus of the devices S, each once.
MembersOK(c, members, S) ==
  /\ members \in Seq({Member(Device(c, i)) : i \in S})
  /\ \A i \in S : \E n \in DOMAIN members : members[n] = Member(Device(c, i))
  /\ \A m, n \in DOMAIN members : m # n => members[m] # members[n]
  /\ Len(members) = Cardinality(S)

\* The transport of one of the devices S, and of all of its kind.
TransportOK(c, line, S) ==
  /\ \E i \in S : line = Device(c, i).line
  /\ \A i \in S : line.kind = Device(c, i).line.kind =>
                    line = Device(c, i).line

BusOK(c, bus, S) ==
  /\ TransportOK(c, bus.config.line, S)
  /\ PolicyOK(c, bus.config.delay, S)
  /\ MembersOK(c, bus.members, S)

\* Every bus is right about the devices visited so far.
BusesOK(c, n) ==
  /\ DOMAIN c.buses = {Key(c, i) : i \in Before(c, n)}
  /\ \A k \in DOMAIN c.buses : BusOK(c, c.buses[k], Joined(c, n, k))

BusInv ==
  /\ next \in 1..(Len(cfg.inverters) + Len(cfg.meters) + 1)
  /\ stage \notin Validated => next = 1 /\ cfg.buses = <<>>
  /\ stage \in Validated => BusesOK(cfg, next)
  /\ stage = "loaded" => next = Len(cfg.inverters) + Len(cfg.meters) + 1

\* The bus that its first device creates is right about that device.
LEMMA Singly ==
  ASSUME NEW c, NEW i, MasterOK(Device(c, i))
  PROVE  BusOK(c, [config |-> makeBusConfig(Device(c, i)),
                   members |-> <<Member(Device(c, i))>>], {i})
  <1> DEFINE d == Device(c, i)
             bus == [config |-> makeBusConfig(d), members |-> <<Member(d)>>]
  <1>1. bus.config.line = d.line /\ bus.config.delay = d.delay
    BY DEF makeBusConfig
  <1>2. PolicyOK(c, d.delay, {i})
    BY DEF PolicyOK, MasterOK, DelayOK
  <1>3. MembersOK(c, <<Member(d)>>, {i})
    <2>1. Cardinality({i}) = 1
      BY FS_Singleton
    <2> DEFINE e == Member(d)
    <2>2. {Member(Device(c, j)) : j \in {i}} = {e}
      OBVIOUS
    <2> HIDE DEF e
    <2>3. /\ <<e>> \in Seq({e}) /\ Len(<<e>>) = 1
          /\ \A n \in DOMAIN <<e>> : n = 1
          /\ 1 \in DOMAIN <<e>> /\ <<e>>[1] = e
      OBVIOUS
    <2>4. QED
      BY <2>1, <2>2, <2>3 DEF MembersOK, e
  <1>4. QED
    BY <1>1, <1>2, <1>3 DEF BusOK, TransportOK

\* One more device tightens the policy of a bus.
LEMMA Merged ==
  ASSUME NEW c, NEW S, NEW v, MasterOK(Device(c, v)),
         \A i \in S : MasterOK(Device(c, i)),
         NEW policy, PolicyOK(c, policy, S)
  PROVE  PolicyOK(c, mergeReconnectDelay(policy, Device(c, v).delay),
                  S \union {v})
  <1> DEFINE d == Device(c, v).delay
             merged == mergeReconnectDelay(policy, d)
  <1>1. DelayOK(policy) /\ DelayOK(d) /\ policy.min < policy.max /\ d.min < d.max
    BY DEF PolicyOK, MasterOK
  <1>2. /\ merged = [min |-> Least(policy.min, d.min),
                     max |-> Least(policy.max, d.max),
                     exponential |-> merged.exponential]
        /\ merged.exponential = (policy.exponential \/ d.exponential)
    BY DEF mergeReconnectDelay
  <1>3. /\ Least(policy.min, d.min) \in Nat \ {0}
        /\ Least(policy.max, d.max) \in Nat \ {0}
        /\ Least(policy.min, d.min) < Least(policy.max, d.max)
        /\ Least(policy.min, d.min) <= d.min
        /\ Least(policy.max, d.max) <= d.max
        /\ Least(policy.min, d.min) <= policy.min
        /\ Least(policy.max, d.max) <= policy.max
        /\ Least(policy.min, d.min) \in {policy.min, d.min}
        /\ Least(policy.max, d.max) \in {policy.max, d.max}
    BY <1>1 DEF Least, DelayOK
  <1>4. /\ merged.exponential \in BOOLEAN
        /\ merged.exponential = TRUE <=>
             policy.exponential = TRUE \/ d.exponential = TRUE
    BY <1>1, <1>2 DEF DelayOK
  <1>5. DelayOK(merged) /\ merged.min < merged.max
    <2>1. \A a, b \in Nat \ {0}, x \in BOOLEAN :
            DelayOK([min |-> a, max |-> b, exponential |-> x])
      BY DEF DelayOK
    <2> HIDE DEF merged
    <2>2. DelayOK(merged)
      BY <1>2, <1>3, <1>4, <2>1, Zenon
    <2>3. QED
      BY <1>2, <1>3, <2>2
  <1>6. /\ \E i \in S \union {v} : Device(c, i).delay.min = merged.min
        /\ \E i \in S \union {v} : Device(c, i).delay.max = merged.max
    BY <1>2, <1>3 DEF PolicyOK
  <1>7. ASSUME NEW i \in S \union {v}
        PROVE  /\ Device(c, i).delay.min >= merged.min
               /\ Device(c, i).delay.max >= merged.max
    <2>1. CASE i = v
      BY <1>1, <1>2, <1>3, <2>1 DEF DelayOK
    <2>2. CASE i \in S
      <3>1. /\ Device(c, i).delay.min >= policy.min
            /\ Device(c, i).delay.max >= policy.max
            /\ DelayOK(Device(c, i).delay)
        BY <2>2 DEF PolicyOK, MasterOK
      <3>2. QED
        BY <1>1, <1>2, <1>3, <3>1 DEF DelayOK
    <2>3. QED
      BY <2>1, <2>2
  <1>8. merged.exponential = TRUE <=>
          \E i \in S \union {v} : Device(c, i).delay.exponential = TRUE
    BY <1>4, Zenon DEF PolicyOK
  <1> HIDE DEF merged
  <1>9. PolicyOK(c, merged, S \union {v})
    BY <1>5, <1>6, <1>7, <1>8, Zenon DEF PolicyOK
  <1>10. QED
    BY <1>9 DEF merged

\* One more device is one more member.
LEMMA Recorded ==
  ASSUME NEW c, NEW S, IsFiniteSet(S), NEW v, v \notin S,
         \A i \in S : Member(Device(c, i)) # Member(Device(c, v)),
         NEW members, MembersOK(c, members, S)
  PROVE  MembersOK(c, Append(members, Member(Device(c, v))), S \union {v})
  <1> DEFINE e == Member(Device(c, v))
             A == {Member(Device(c, i)) : i \in S}
             B == {Member(Device(c, i)) : i \in S \union {v}}
             longer == Append(members, e)
  <1>1. A \subseteq B /\ e \in B /\ e \notin A
    OBVIOUS
  <1>2. members \in Seq(A) /\ Len(members) = Cardinality(S)
    BY DEF MembersOK
  <1> HIDE DEF A, B, e
  <1>3. members \in Seq(B)
    BY <1>1, <1>2
  <1>4. /\ longer \in Seq(B) /\ Len(longer) = Len(members) + 1
        /\ DOMAIN longer = 1..(Len(members) + 1)
        /\ longer[Len(members) + 1] = e
        /\ \A n \in DOMAIN members : /\ n \in DOMAIN longer
                                     /\ longer[n] = members[n]
                                     /\ members[n] # e
        /\ \A n \in DOMAIN longer : n \in DOMAIN members \/ n = Len(members) + 1
        /\ Len(members) + 1 \in DOMAIN longer
    BY <1>1, <1>2, <1>3
  <1> HIDE DEF longer
  <1>5. Len(longer) = Cardinality(S \union {v})
    BY <1>2, <1>4, FS_AddElement
  <1>6. \A i \in S \union {v} :
          \E n \in DOMAIN longer : longer[n] = Member(Device(c, i))
    BY <1>4 DEF MembersOK, e
  <1>7. \A m, n \in DOMAIN longer : m # n => longer[m] # longer[n]
    BY <1>4 DEF MembersOK
  <1>8. MembersOK(c, longer, S \union {v})
    BY <1>4, <1>5, <1>6, <1>7 DEF MembersOK, B
  <1>9. QED
    BY <1>8 DEF longer, e

\* Visiting in order is a bijection of the positions.
LEMMA OrderOfVisits ==
  ASSUME NEW n \in Nat, NEW m \in Nat, NEW x \in 1..(n + m)
  PROVE  LET v == IF x <= m THEN n + x ELSE x - m
             order(i) == IF i > n THEN i - n ELSE i + m
         IN  /\ v \in 1..(n + m) /\ order(v) = x
             /\ \A i \in 1..(n + m) : order(i) < x + 1 <=> order(i) < x \/ i = v
  OBVIOUS

\* Every step of deriveBuses() visits one device that was not visited.
LEMMA Visits ==
  ASSUME SectionsInv, next \in Devices(cfg)
  PROVE  LET v == Visited(cfg, next)
         IN  /\ v \in Devices(cfg) /\ v \notin Before(cfg, next)
             /\ \A i \in Masters(cfg) :
                  i \in Before(cfg, next + 1) <=> i \in Before(cfg, next) \/ i = v
  <1> DEFINE n == Len(cfg.inverters)
             m == Len(cfg.meters)
             v == Visited(cfg, next)
             order(i) == IF i > n THEN i - n ELSE i + m
  <1>1. n \in Nat /\ m \in Nat /\ Devices(cfg) = 1..(n + m)
    BY DevicesOK DEF Devices
  <1>2. v = (IF next <= m THEN n + next ELSE next - m)
    BY DEF Visited
  <1>3. \A i : Order(cfg, i) = order(i)
    BY DEF Order
  <1>4. /\ v \in Devices(cfg) /\ order(v) = next
        /\ \A i \in Devices(cfg) :
             order(i) < next + 1 <=> order(i) < next \/ i = v
    <2> HIDE DEF n, m, v
    <2>1. QED
      BY <1>1, <1>2, OrderOfVisits
  <1>5. ~(order(v) < next)
    <2> HIDE DEF v, order, n, m
    <2>1. next \in Nat
      BY DevicesOK
    <2>2. QED
      BY <1>4, <2>1
  <1> HIDE DEF order, v
  <1>6. Masters(cfg) \subseteq Devices(cfg)
    BY DevicesOK
  <1>7. v \notin Before(cfg, next)
    BY <1>3, <1>5, Zenon DEF Before
  <1>8. \A i \in Masters(cfg) :
          i \in Before(cfg, next + 1) <=> i \in Before(cfg, next) \/ i = v
    <2>1. ASSUME NEW i \in Masters(cfg)
          PROVE  Order(cfg, i) < next + 1 <=> Order(cfg, i) < next \/ i = v
      <3>1. i \in Devices(cfg)
        BY <1>6, Zenon
      <3>2. order(i) < next + 1 <=> order(i) < next \/ i = v
        BY <1>4, <3>1, Zenon
      <3>3. Order(cfg, i) = order(i)
        BY <1>3, Zenon
      <3>4. QED
        BY <3>2, <3>3, Zenon
    <2>2. QED
      BY <2>1, Zenon DEF Before
  <1>9. QED
    BY <1>4, <1>7, <1>8 DEF v

\* Among serial lines the bus key is the path, among TCP lines the endpoint.
LEMMA KeyOfPath ==
  ASSUME NEW a, NEW b, a.kind = "rtu", b.kind = "rtu", busKey(a) = busKey(b)
  PROVE  a.device = b.device
  <1>1. \A p \in DOMAIN Spelled : \A q : Spelled[p] # <<q>>
    <2>1. \A x, y, q : <<x, y>> # <<q>>
      OBVIOUS
    <2>2. \A p \in DOMAIN Spelled :
            Spelled[p] = <<Spelled[p][1], Spelled[p][2]>>
      BY SpelledAssumption
    <2>3. QED
      BY <2>1, <2>2, Zenon
  <1>2. \A p, q \in DOMAIN Spelled : Spelled[p] = Spelled[q] => p = q
    BY SpelledAssumption, Zenon
  <1>3. \A p, q : <<p>> = <<q>> => p = q
    OBVIOUS
  <1>4. /\ busKey(a) = IF a.device \in DOMAIN Spelled THEN Spelled[a.device]
                       ELSE <<a.device>>
        /\ busKey(b) = IF b.device \in DOMAIN Spelled THEN Spelled[b.device]
                       ELSE <<b.device>>
    BY DEF busKey
  <1>5. QED
    BY <1>1, <1>2, <1>3, <1>4, Zenon

\* The bus key of a device and its kind determine its transport.
LEMMA KeyIsLine ==
  ASSUME SectionsInv, SameLineParameters(cfg),
         NEW i \in Masters(cfg), NEW j \in Masters(cfg),
         Key(cfg, i) = Key(cfg, j),
         Device(cfg, i).line.kind = Device(cfg, j).line.kind
  PROVE  Device(cfg, i).line = Device(cfg, j).line
  <1> DEFINE a == Device(cfg, i).line
             b == Device(cfg, j).line
  <1>1. /\ LineOK(a) /\ LineOK(b)
        /\ busKey(a) = busKey(b) /\ a.kind = b.kind
    BY DevicesOK, Zenon DEF MasterOK, Key
  <1>2. CASE a.kind = "rtu"
    BY <1>1, <1>2, KeyOfPath, SharedLine
  <1>3. CASE a.kind # "rtu"
    <2> HIDE DEF a, b
    <2>1. /\ a = [kind |-> "tcp", host |-> a.host, port |-> a.port]
          /\ b = [kind |-> "tcp", host |-> b.host, port |-> b.port]
      BY <1>1, <1>3, Zenon DEF LineOK
    <2>2. a.kind = "tcp" /\ b.kind = "tcp"
      BY <2>1
    <2>3. <<a.host, a.port>> = <<b.host, b.port>>
      BY <1>1, <2>2, Zenon DEF busKey
    <2>4. a = b
      BY <2>1, <2>3
    <2>5. QED
      BY <2>4 DEF a, b
  <1>4. QED
    BY <1>2, <1>3

\* fold() touches the bus of the device and no other.
LEMMA Folded ==
  ASSUME NEW buses, NEW d
  PROVE  LET key == busKey(d.line)
             after == fold(buses, d)
         IN  /\ DOMAIN after = DOMAIN buses \union {key}
             /\ \A k \in DOMAIN buses : k # key => after[k] = buses[k]
             /\ key \notin DOMAIN buses =>
                  after[key] = [config |-> makeBusConfig(d),
                                members |-> <<Member(d)>>]
             /\ key \in DOMAIN buses =>
                  after[key] =
                    [config |->
                       [line |-> buses[key].config.line,
                        delay |-> mergeReconnectDelay(buses[key].config.delay,
                                                      d.delay)],
                     members |-> Append(buses[key].members, Member(d))]
  BY Zenon DEF fold

\* A device that is visited joins its bus.
LEMMA Joins ==
  ASSUME SectionsInv, validateConfig(cfg), next \in Devices(cfg),
         BusesOK(cfg, next), Visited(cfg, next) \in Masters(cfg),
         NEW buses, buses = fold(cfg.buses, Device(cfg, Visited(cfg, next)))
  PROVE  /\ DOMAIN buses = {Key(cfg, i) : i \in Before(cfg, next + 1)}
         /\ \A k \in DOMAIN buses :
              BusOK(cfg, buses[k], Joined(cfg, next + 1, k))
  <1> DEFINE v == Visited(cfg, next)
             d == Device(cfg, v)
             key == Key(cfg, v)
             S == Joined(cfg, next, key)
  <1>1. /\ v \in Masters(cfg) /\ v \notin Before(cfg, next) /\ MasterOK(d)
        /\ Before(cfg, next) \subseteq Masters(cfg)
        /\ Before(cfg, next + 1) = Before(cfg, next) \union {v}
    <2>1. /\ Before(cfg, next) \subseteq Masters(cfg)
          /\ Before(cfg, next + 1) \subseteq Masters(cfg)
      BY DEF Before
    <2>2. QED
      BY <2>1, Visits, DevicesOK
  <1>2. /\ DOMAIN buses = DOMAIN cfg.buses \union {key}
        /\ \A k \in DOMAIN cfg.buses : k # key => buses[k] = cfg.buses[k]
        /\ key \notin DOMAIN cfg.buses =>
             buses[key] = [config |-> makeBusConfig(d), members |-> <<Member(d)>>]
        /\ key \in DOMAIN cfg.buses =>
             buses[key] =
               [config |->
                  [line |-> cfg.buses[key].config.line,
                   delay |-> mergeReconnectDelay(cfg.buses[key].config.delay,
                                                 d.delay)],
                members |-> Append(cfg.buses[key].members, Member(d))]
    BY Folded, Zenon DEF Key
  <1>3. /\ DOMAIN cfg.buses = {Key(cfg, i) : i \in Before(cfg, next)}
        /\ \A k \in DOMAIN cfg.buses :
             BusOK(cfg, cfg.buses[k], Joined(cfg, next, k))
    BY DEF BusesOK
  <1>4. /\ \A k : k # key => Joined(cfg, next + 1, k) = Joined(cfg, next, k)
        /\ Joined(cfg, next + 1, key) = S \union {v}
        /\ v \notin S
        /\ key \notin DOMAIN cfg.buses => S = {}
        /\ \A i \in S : i \in Masters(cfg) /\ i # v /\ Key(cfg, i) = key
    <2> HIDE DEF v, key
    <2>1. key = Key(cfg, v)
      BY DEF key
    <2>2. QED
      BY <1>1, <1>3, <2>1 DEF Joined
  <1>5. BusOK(cfg, buses[key], S \union {v})
    <2>1. CASE key \notin DOMAIN cfg.buses
      <3>1. S \union {v} = {v}
        BY <1>4, <2>1
      <3>2. QED
        BY <1>1, <1>2, <2>1, <3>1, Singly
    <2>2. CASE key \in DOMAIN cfg.buses
      <3> DEFINE bus == cfg.buses[key]
      <3>1. /\ TransportOK(cfg, bus.config.line, S)
            /\ PolicyOK(cfg, bus.config.delay, S)
            /\ MembersOK(cfg, bus.members, S)
        BY <1>3, <2>2 DEF BusOK
      <3>2. /\ buses[key].config.line = bus.config.line
            /\ buses[key].config.delay =
                 mergeReconnectDelay(bus.config.delay, d.delay)
            /\ buses[key].members = Append(bus.members, Member(d))
        BY <1>2, <2>2
      <3>3. \A i \in S : Device(cfg, i).line.kind = d.line.kind =>
                          Device(cfg, i).line = d.line
        BY <1>1, <1>4, KeyIsLine DEF validateConfig
      <3>4. PICK f \in S : bus.config.line = Device(cfg, f).line
        BY <3>1, Zenon DEF TransportOK
      <3>5. TransportOK(cfg, buses[key].config.line, S \union {v})
        BY <3>1, <3>2, <3>3, <3>4, Zenon DEF TransportOK
      <3>6. PolicyOK(cfg, buses[key].config.delay, S \union {v})
        <4>1. \A i \in S : MasterOK(Device(cfg, i))
          BY <1>4, DevicesOK
        <4> DEFINE old == bus.config.delay
        <4>2. PolicyOK(cfg, old, S) /\ MasterOK(Device(cfg, v))
          BY <1>1, <3>1
        <4> HIDE DEF old, S, v
        <4>3. PolicyOK(cfg, mergeReconnectDelay(old, Device(cfg, v).delay),
                       S \union {v})
          BY <4>1, <4>2, Merged
        <4>4. QED
          BY <3>2, <4>3, Zenon DEF old
      <3>7. IsFiniteSet(S)
        <4>1. S \subseteq Devices(cfg) /\ IsFiniteSet(Devices(cfg))
          <5>1. Len(cfg.inverters) + Len(cfg.meters) \in Int /\ 1 \in Int
            BY DevicesOK
          <5>2. IsFiniteSet(Devices(cfg))
            BY <5>1, FS_Interval DEF Devices
          <5>3. QED
            BY <1>4, <5>2, DevicesOK
        <4>2. QED
          BY <4>1, FS_Subset
      <3>8. \A i \in S : Member(Device(cfg, i)) # Member(d)
        BY <1>1, <1>4 DEF validateConfig, UniqueUnitIds, Member
      <3>9. MembersOK(cfg, buses[key].members, S \union {v})
        BY <1>4, <3>1, <3>2, <3>7, <3>8, Recorded
      <3>10. QED
        BY <3>5, <3>6, <3>9, Zenon DEF BusOK
    <2>3. QED
      BY <2>1, <2>2
  <1> HIDE DEF v, key, S
  <1>6. DOMAIN buses = {Key(cfg, i) : i \in Before(cfg, next + 1)}
    BY <1>1, <1>2, <1>3 DEF key
  <1>7. \A k \in DOMAIN buses : BusOK(cfg, buses[k], Joined(cfg, next + 1, k))
    BY <1>2, <1>3, <1>4, <1>5, Zenon
  <1>8. QED
    BY <1>6, <1>7

\* What is right about the buses depends on the sections and the buses only.
LEMMA SameBuses ==
  ASSUME NEW c, NEW e, c.inverters = e.inverters, c.meters = e.meters, NEW n,
         DOMAIN e.buses = {Key(c, i) : i \in Before(c, n)},
         \A k \in DOMAIN e.buses : BusOK(c, e.buses[k], Joined(c, n, k))
  PROVE  BusesOK(e, n)
  <1>1. /\ \A i : Device(e, i) = Device(c, i) /\ Key(e, i) = Key(c, i)
        /\ Masters(e) = Masters(c)
    BY SameDevices
  <1>2. \A i : Order(e, i) = Order(c, i)
    BY DEF Order
  <1>3. Before(e, n) = Before(c, n)
    BY <1>1, <1>2, SMT DEF Before
  <1>4. \A k : Joined(e, n, k) = Joined(c, n, k)
    BY <1>1, <1>3, Zenon DEF Joined
  <1>5. \A S : {Member(Device(e, i)) : i \in S} = {Member(Device(c, i)) : i \in S}
    BY <1>1
  <1>6. ASSUME NEW bus, NEW S, BusOK(c, bus, S) PROVE BusOK(e, bus, S)
    <2>1. PolicyOK(e, bus.config.delay, S)
      BY <1>1, <1>6 DEF BusOK, PolicyOK
    <2>2. MembersOK(e, bus.members, S)
      <3>1. /\ bus.members \in Seq({Member(Device(c, i)) : i \in S})
            /\ \A i \in S : \E m \in DOMAIN bus.members :
                              bus.members[m] = Member(Device(c, i))
            /\ \A m, o \in DOMAIN bus.members :
                 m # o => bus.members[m] # bus.members[o]
            /\ Len(bus.members) = Cardinality(S)
        BY <1>6 DEF BusOK, MembersOK
      <3>2. bus.members \in Seq({Member(Device(e, i)) : i \in S})
        BY <1>5, <3>1
      <3>3. QED
        BY <1>1, <3>1, <3>2, Zenon DEF MembersOK
    <2>3. QED
      BY <1>1, <1>6, <2>1, <2>2, Zenon DEF BusOK, TransportOK
  <1>7. DOMAIN e.buses = {Key(e, i) : i \in Before(e, n)}
    BY <1>1, <1>3
  <1>8. QED
    BY <1>4, <1>6, <1>7, Zenon DEF BusesOK

\* At first no device has joined a bus.
LEMMA NoneBefore ==
  ASSUME SectionsInv PROVE Before(cfg, 1) = {}
  <1> DEFINE n == Len(cfg.inverters)
             m == Len(cfg.meters)
  <1>1. n \in Nat /\ m \in Nat /\ Masters(cfg) \subseteq Nat \ {0}
    BY DevicesOK
  <1>2. \A i \in Masters(cfg) : Order(cfg, i) = IF i > n THEN i - n ELSE i + m
    BY DEF Order
  <1> HIDE DEF n, m
  <1>3. \A i \in Masters(cfg) : ~(Order(cfg, i) < 1)
    BY <1>1, <1>2
  <1>4. QED
    BY <1>3 DEF Before

\* Every step of loadConfig() keeps the buses right.
LEMMA BusStep ==
  ASSUME SectionsInv, SectionsInv', BusInv, [Next]_vars
  PROVE  BusInv'
  <1> DEFINE N == Len(cfg.inverters) + Len(cfg.meters)
  <1>1. N \in Nat /\ N' \in Nat /\ next \in 1..(N + 1)
    <2>1. /\ Len(cfg.inverters) \in Nat /\ Len(cfg.meters) \in Nat
          /\ Len(cfg'.inverters) \in Nat /\ Len(cfg'.meters) \in Nat
      BY DEF SectionsInv, IsList
    <2>2. N \in Nat /\ N' \in Nat
      <3>1. \A a, b \in Nat : a + b \in Nat
        OBVIOUS
      <3>2. QED
        BY <2>1, <3>1, Zenon
    <2>3. QED
      BY <2>2 DEF BusInv
  <1>2. ASSUME stage \notin Validated, stage' \notin Validated,
               next' = next, cfg'.buses = cfg.buses
        PROVE  BusInv'
    <2>1. next' = 1 /\ cfg'.buses = <<>>
      BY <1>2 DEF BusInv
    <2>2. next' \in 1..(N' + 1)
      <3> HIDE DEF N
      <3>1. QED
        BY <1>1, <2>1
    <2>3. stage' # "loaded"
      BY <1>2 DEF Validated
    <2>4. QED
      BY <1>2, <2>1, <2>2, <2>3 DEF BusInv
  <1>3. CASE parseInverters \/ parseMeters \/ parseSections
    <2>1. /\ stage \notin Validated /\ stage' \notin Validated /\ next' = next
          /\ cfg'.buses = cfg.buses
      BY <1>3 DEF parseInverters, parseMeters, parseSections, Step, Validated,
                  SectionsInv, AppConfig
    <2>2. QED
      BY <1>2, <2>1
  <1>4. CASE validate
    <2>1. /\ stage = "validate" /\ stage' \in {"derive", "rejected"}
          /\ cfg' = cfg /\ next' = next
      BY <1>4, Zenon DEF validate, Step
    <2>2. next = 1 /\ cfg.buses = <<>>
      BY <2>1 DEF BusInv, Validated
    <2>3. BusesOK(cfg, 1)
      <3>1. DOMAIN <<>> = {}
        OBVIOUS
      <3>2. QED
        BY <2>2, <3>1, NoneBefore DEF BusesOK
    <2>4. QED
      BY <1>1, <2>1, <2>2, <2>3 DEF BusInv
  <1>5. CASE deriveBuses
    <2> DEFINE v == Visited(cfg, next)
    <2>1. /\ stage = "derive" /\ stage' = "derive" /\ next' = next + 1
          /\ next \in Devices(cfg)
          /\ cfg' = IF v \in Masters(cfg)
                    THEN [cfg EXCEPT !.buses = fold(cfg.buses, Device(cfg, v))]
                    ELSE cfg
      BY <1>5 DEF deriveBuses
    <2>2. BusesOK(cfg, next) /\ validateConfig(cfg)
      BY <2>1 DEF BusInv, SectionsInv, Validated
    <2>3. cfg'.inverters = cfg.inverters /\ cfg'.meters = cfg.meters
      BY <1>5, Derived
    <2>4. BusesOK(cfg', next + 1)
      <3>1. CASE v \in Masters(cfg)
        <4> DEFINE buses == fold(cfg.buses, Device(cfg, v))
        <4>1. cfg'.buses = buses
          BY <2>1, <3>1 DEF SectionsInv, AppConfig
        <4>2. /\ DOMAIN buses = {Key(cfg, i) : i \in Before(cfg, next + 1)}
              /\ \A k \in DOMAIN buses :
                   BusOK(cfg, buses[k], Joined(cfg, next + 1, k))
          BY <2>1, <2>2, <3>1, Joins
        <4> HIDE DEF buses
        <4>3. QED
          BY <2>3, <4>1, <4>2, SameBuses
      <3>2. CASE v \notin Masters(cfg)
        <4>1. Before(cfg, next + 1) = Before(cfg, next)
          BY <2>1, <3>2, Visits DEF Before
        <4>2. cfg' = cfg
          BY <2>1, <3>2
        <4>3. \A k : Joined(cfg, next + 1, k) = Joined(cfg, next, k)
          BY <4>1 DEF Joined
        <4>4. QED
          BY <2>2, <4>1, <4>2, <4>3, Zenon DEF BusesOK
      <3>3. QED
        BY <3>1, <3>2
    <2>5. next' \in 1..(N' + 1)
      <3>1. N' = N
        BY <2>3
      <3>2. next \in 1..N
        BY <2>1 DEF Devices
      <3> HIDE DEF N
      <3>3. QED
        BY <1>1, <2>1, <3>1, <3>2
    <2>6. QED
      BY <2>1, <2>4, <2>5 DEF BusInv, Validated
  <1>6. CASE deriveDeviceRegistry
    <2>1. /\ stage = "derive" /\ stage' = "loaded" /\ next' = next
          /\ next \notin Devices(cfg)
          /\ cfg' = [cfg EXCEPT !.deviceRegistry = RegistryOf(cfg)]
      BY <1>6, Zenon DEF deriveDeviceRegistry, Step
    <2>2. /\ cfg'.inverters = cfg.inverters /\ cfg'.meters = cfg.meters
          /\ cfg'.buses = cfg.buses
      BY <2>1 DEF SectionsInv, AppConfig
    <2>3. BusesOK(cfg', next)
      <3>1. BusesOK(cfg, next)
        BY <2>1 DEF BusInv, Validated
      <3>2. /\ DOMAIN cfg'.buses = {Key(cfg, i) : i \in Before(cfg, next)}
            /\ \A k \in DOMAIN cfg'.buses :
                 BusOK(cfg, cfg'.buses[k], Joined(cfg, next, k))
        BY <2>2, <3>1, Zenon DEF BusesOK
      <3>3. QED
        BY <2>2, <3>2, SameBuses
    <2>4. next = N + 1 /\ N' = N
      <3>1. N' = N /\ next \notin 1..N
        BY <2>1, <2>2 DEF Devices
      <3> HIDE DEF N
      <3>2. QED
        BY <1>1, <3>1
    <2>5. QED
      BY <1>1, <2>1, <2>3, <2>4 DEF BusInv, Validated
  <1>7. CASE UNCHANGED vars
    BY <1>7 DEF vars, BusInv
  <1>8. QED
    BY <1>3, <1>4, <1>5, <1>6, <1>7 DEF Next

\* While deriveBuses() visits the devices one by one, the buses are always
\* those of the devices visited so far.
THEOREM BusInvariant == Spec => []BusInv
  <1>1. Init => BusInv
    BY DEF Init, BusInv, Validated
  <1>2. QED
    BY <1>1, SectionsInvariant, BusStep, PTL DEF Spec

-----------------------------------------------------------------------------
(* The derived configuration.                                              *)

\* When the configuration is loaded every device was visited.
LEMMA AllJoined ==
  ASSUME SectionsInv, BusInv, stage = "loaded"
  PROVE  /\ BusesOK(cfg, next)
         /\ Before(cfg, next) = Masters(cfg)
         /\ \A k : Joined(cfg, next, k) = Sharing(k)
  <1> DEFINE n == Len(cfg.inverters)
             m == Len(cfg.meters)
  <1>1. /\ n \in Nat /\ m \in Nat /\ next = n + m + 1
        /\ Masters(cfg) \subseteq 1..(n + m)
    BY DevicesOK DEF BusInv, Devices
  <1>2. \A i \in Masters(cfg) : Order(cfg, i) = IF i > n THEN i - n ELSE i + m
    BY DEF Order
  <1> HIDE DEF n, m
  <1>3. \A i \in Masters(cfg) : Order(cfg, i) < next
    BY <1>1, <1>2
  <1>4. Before(cfg, next) = Masters(cfg)
    BY <1>3 DEF Before
  <1>5. QED
    BY <1>4 DEF BusInv, Validated, Joined, Sharing

\* The stages and the delays have their types: mergeReconnectDelay() keeps
\* the delays of a bus positive.
THEOREM TypeCorrect == Spec => []TypeOK
  <1> DEFINE StageOK ==
        stage \in {"inverters", "meters", "sections", "validate", "derive",
                   "loaded", "rejected"}
  <1>1. Init => StageOK
    BY DEF Init
  <1>2. StageOK /\ [Next]_vars => StageOK'
    BY DEF Next, vars, Step, parseInverters, parseMeters, parseSections,
           validate, deriveBuses, deriveDeviceRegistry
  <1>3. ASSUME SectionsInv, BusInv, StageOK PROVE TypeOK
    <2>1. \A i \in Masters(cfg) : DelayOK(Device(cfg, i).delay)
      BY <1>3, DevicesOK DEF MasterOK
    <2>2. \A i \in DOMAIN cfg.meters :
            cfg.meters[i].location \in Locations \union {"none"}
      BY <1>3 DEF SectionsInv, MeterOK
    <2>3. ASSUME NEW k \in DOMAIN cfg.buses
          PROVE  DelayOK(cfg.buses[k].config.delay)
      <3>1. stage \in Validated
        BY <1>3 DEF BusInv
      <3>2. QED
        BY <1>3, <3>1 DEF BusInv, BusesOK, BusOK, PolicyOK
    <2>4. QED
      BY <1>3, <2>1, <2>2, <2>3 DEF TypeOK, BusInv
  <1> HIDE DEF StageOK
  <1>4. QED
    BY <1>1, <1>2, <1>3, SectionsInvariant, BusInvariant, PTL DEF Spec

\* Every Modbus device finds the bus of deriveBuses() it belongs to, which
\* knows it once and has its transport, unless a device of the other kind of
\* transport whose path spells the same key came first.
THEOREM BusesAreFound == Spec => []DevicesFindTheirBus
  <1>1. ASSUME SectionsInv, BusInv, stage = "loaded"
        PROVE  DevicesFindTheirBus
    <2>1. ASSUME NEW i \in Masters(cfg)
          PROVE  LET bus == cfg.buses[Key(cfg, i)]
                     line == Device(cfg, i).line
                 IN  /\ Key(cfg, i) \in DOMAIN cfg.buses
                     /\ bus.config.line.kind = line.kind =>
                          bus.config.line = line
                     /\ \E n \in DOMAIN bus.members :
                          bus.members[n] = Member(Device(cfg, i))
      <3>1. Key(cfg, i) \in DOMAIN cfg.buses
        BY <1>1, AllJoined DEF BusesOK
      <3>2. /\ BusOK(cfg, cfg.buses[Key(cfg, i)], Sharing(Key(cfg, i)))
            /\ i \in Sharing(Key(cfg, i))
        BY <1>1, <3>1, AllJoined, Zenon DEF BusesOK, Sharing
      <3>3. QED
        BY <3>1, <3>2, Zenon DEF BusOK, TransportOK, MembersOK
    <2>2. ASSUME NEW k \in DOMAIN cfg.buses
          PROVE  LET members == cfg.buses[k].members
                 IN  /\ \E i \in Sharing(k) :
                          cfg.buses[k].config.line = Device(cfg, i).line
                     /\ \A m, n \in DOMAIN members :
                          m # n => members[m] # members[n]
                     /\ Len(members) = Cardinality(Sharing(k))
      <3>1. BusOK(cfg, cfg.buses[k], Sharing(k))
        BY <1>1, AllJoined, Zenon DEF BusesOK
      <3>2. QED
        BY <3>1, Zenon DEF BusOK, TransportOK, MembersOK
    <2>3. QED
      BY <2>1, <2>2, Zenon DEF DevicesFindTheirBus
  <1>2. ~(stage = "loaded") => DevicesFindTheirBus
    BY DEF DevicesFindTheirBus
  <1>3. QED
    BY <1>1, <1>2, SectionsInvariant, BusInvariant, PTL

\* The policy that mergeReconnectDelay() folds for a bus is the most
\* responsive one of its devices, and a range.
THEOREM PolicyIsTightest == Spec => []BusPolicy
  <1>1. ASSUME SectionsInv, BusInv, stage = "loaded"
        PROVE  BusPolicy
    <2> SUFFICES ASSUME NEW k \in DOMAIN cfg.buses
                 PROVE  LET policy == cfg.buses[k].config.delay
                            delay(i) == Device(cfg, i).delay
                        IN  /\ \E i \in Sharing(k) : delay(i).min = policy.min
                            /\ \E i \in Sharing(k) : delay(i).max = policy.max
                            /\ \A i \in Sharing(k) :
                                 /\ delay(i).min >= policy.min
                                 /\ delay(i).max >= policy.max
                            /\ policy.exponential =
                                 \E i \in Sharing(k) : delay(i).exponential
                            /\ policy.min < policy.max
      BY DEF BusPolicy
    <2>1. PolicyOK(cfg, cfg.buses[k].config.delay, Sharing(k))
      BY <1>1, AllJoined, Zenon DEF BusesOK, BusOK
    <2>2. \A i \in Sharing(k) : Device(cfg, i).delay.exponential \in BOOLEAN
      BY <1>1, DevicesOK DEF Sharing, MasterOK, DelayOK
    <2>3. cfg.buses[k].config.delay.exponential \in BOOLEAN
      BY <2>1 DEF PolicyOK, DelayOK
    <2>4. cfg.buses[k].config.delay.exponential =
            \E i \in Sharing(k) : Device(cfg, i).delay.exponential
      BY <2>1, <2>2, <2>3, Zenon DEF PolicyOK
    <2>5. QED
      BY <2>1, <2>4, Zenon DEF PolicyOK
  <1>2. ~(stage = "loaded") => BusPolicy
    BY DEF BusPolicy
  <1>3. QED
    BY <1>1, <1>2, SectionsInvariant, BusInvariant, PTL

-----------------------------------------------------------------------------
(* The order of the devices.                                               *)

\* The devices of e are devices of c, each at most once, at the positions f
\* and, counting the meters alone, g.
Rearranges(e, c, f, g) ==
  /\ \A i \in Devices(e) :
       /\ f[i] \in Devices(c)
       /\ Device(e, i) = Device(c, f[i])
       /\ asEasyMeter(e, i) = asEasyMeter(c, f[i])
  /\ \A i, j \in Devices(e) : f[i] = f[j] => i = j
  /\ \A i \in DOMAIN e.meters :
       g[i] \in DOMAIN c.meters /\ e.meters[i].slave = c.meters[g[i]].slave
  /\ \A i, j \in DOMAIN e.meters : g[i] = g[j] => i = j

\* Valid devices are valid in any order, and any selection of them is.
LEMMA Rearranged ==
  ASSUME SectionsInv, validateConfig(cfg), NEW e, NEW f, NEW g,
         Rearranges(e, cfg, f, g)
  PROVE  validateConfig(e)
  <1>1. /\ SingleEbz(cfg) /\ UniqueNames(cfg) /\ UniqueUnitIds(cfg)
        /\ SameLineParameters(cfg) /\ UniqueListeners(cfg)
        /\ ExclusiveDevices(cfg)
    BY DEF validateConfig
  <1>2. ASSUME NEW i \in Devices(e)
        PROVE  /\ f[i] \in Devices(cfg)
               /\ Device(e, i) = Device(cfg, f[i])
               /\ Key(e, i) = Key(cfg, f[i])
               /\ asEasyMeter(e, i) = asEasyMeter(cfg, f[i])
               /\ i \in Masters(e) <=> f[i] \in Masters(cfg)
    BY Zenon DEF Rearranges, Masters, Key
  <1>3. \A i, j \in Devices(e) : f[i] = f[j] => i = j
    BY DEF Rearranges
  <1>4. Masters(e) \subseteq Devices(e)
    BY DEF Masters
  <1>5. \A device : \A i \in OnSerial(e, device) :
          i \in Masters(e) /\ f[i] \in OnSerial(cfg, device)
    BY <1>2, <1>4, Zenon DEF OnSerial
  <1>6. \A kind : \A i \in Slaves(e, kind) :
          g[i] \in Slaves(cfg, kind) /\ SlaveLine(e, i) = SlaveLine(cfg, g[i])
    BY Zenon DEF Rearranges, Slaves, SlaveLine
  <1>7. \A kind : \A i, j \in Slaves(e, kind) : g[i] = g[j] => i = j
    BY Zenon DEF Rearranges, Slaves
  <1>8. SingleEbz(e)
    BY <1>1, <1>2, <1>3, Zenon DEF SingleEbz
  <1>9. UniqueNames(e)
    BY <1>1, <1>2, <1>3, Zenon DEF UniqueNames
  <1>10. UniqueUnitIds(e)
    BY <1>1, <1>2, <1>3, <1>4, Zenon DEF UniqueUnitIds
  <1>11. SameLineParameters(e)
    <2>1. ASSUME NEW i \in Masters(e), Device(e, i).line.kind = "rtu",
                 NEW j \in OnSerial(e, Device(e, i).line.device)
          PROVE  Device(e, j).line = Device(e, i).line
      <3>1. /\ f[i] \in Masters(cfg) /\ Device(e, i) = Device(cfg, f[i])
            /\ f[j] \in Masters(cfg) /\ Device(e, j) = Device(cfg, f[j])
            /\ Device(e, j).line.kind = "rtu"
            /\ Device(e, j).line.device = Device(e, i).line.device
        BY <1>2, <1>4, Zenon DEF OnSerial
      <3>2. QED
        BY <1>1, <2>1, <3>1, SharedLine
    <2>2. QED
      BY <2>1, Zenon DEF SameLineParameters
  <1>12. UniqueListeners(e)
    BY <1>1, <1>6, <1>7, Zenon DEF UniqueListeners
  <1>13. ExclusiveDevices(e)
    <2>1. ASSUME NEW i \in Slaves(e, "rtu")
          PROVE  /\ OnSerial(e, SlaveLine(e, i).device) = {}
                 /\ \A j \in Slaves(e, "rtu") :
                      i # j => SlaveLine(e, i).device # SlaveLine(e, j).device
      <3>1. /\ g[i] \in Slaves(cfg, "rtu")
            /\ SlaveLine(e, i) = SlaveLine(cfg, g[i])
        BY <1>6, Zenon
      <3>2. OnSerial(cfg, SlaveLine(e, i).device) = {}
        BY <1>1, <3>1, Zenon DEF ExclusiveDevices
      <3>3. OnSerial(e, SlaveLine(e, i).device) = {}
        BY <1>5, <3>2, Zenon
      <3>4. ASSUME NEW j \in Slaves(e, "rtu"), i # j
            PROVE  SlaveLine(e, i).device # SlaveLine(e, j).device
        <4>1. /\ g[j] \in Slaves(cfg, "rtu") /\ g[i] # g[j]
              /\ SlaveLine(e, j) = SlaveLine(cfg, g[j])
          BY <1>6, <1>7, <3>4, Zenon
        <4>2. QED
          BY <1>1, <3>1, <4>1, Zenon DEF ExclusiveDevices
      <3>5. QED
        BY <3>3, <3>4
    <2>2. ASSUME NEW i \in Devices(e) \ Masters(e)
          PROVE  /\ OnSerial(e, Device(e, i).line.device) = {}
                 /\ \A j \in Slaves(e, "rtu") :
                      SlaveLine(e, j).device # Device(e, i).line.device
      <3>1. /\ f[i] \in Devices(cfg) \ Masters(cfg)
            /\ Device(e, i) = Device(cfg, f[i])
        BY <1>2, Zenon
      <3>2. QED
        BY <1>1, <1>5, <1>6, <3>1, Zenon DEF ExclusiveDevices
    <2>3. QED
      BY <2>1, <2>2, Zenon DEF ExclusiveDevices
  <1>14. QED
    BY <1>8, <1>9, <1>10, <1>11, <1>12, <1>13 DEF validateConfig

\* Positions in two lists that are both reversed.
LEMMA ReversedPositions ==
  ASSUME NEW n \in Nat, NEW m \in Nat
  PROVE  LET flip(i) == IF i <= n THEN n - i + 1 ELSE n + (m - (i - n) + 1)
         IN  /\ \A i \in 1..(n + m) : i <= n =>
                  flip(i) \in 1..(n + m) /\ flip(i) <= n /\ ~(i > n)
                  /\ ~(flip(i) > n)
             /\ \A i \in 1..(n + m) : i > n =>
                  /\ flip(i) \in 1..(n + m) /\ flip(i) > n
                  /\ ~(i <= n) /\ ~(flip(i) <= n)
                  /\ i - n \in 1..m /\ flip(i) - n = m - (i - n) + 1
             /\ \A i, j \in 1..(n + m) : flip(i) = flip(j) => i = j
             /\ \A i \in 1..m : m - i + 1 \in 1..m
             /\ \A i, j \in 1..m : m - i + 1 = m - j + 1 => i = j
  OBVIOUS

LEMMA Reversed ==
  ASSUME NEW s, IsList(s)
  PROVE  /\ Len(Reverse(s)) = Len(s) /\ DOMAIN Reverse(s) = 1..Len(s)
         /\ \A i \in 1..Len(s) : Reverse(s)[i] = s[Len(s) - i + 1]
  <1> DEFINE n == Len(s)
             r == [i \in 1..n |-> s[(n - i) + 1]]
  <1>1. n \in Nat
    BY DEF IsList
  <1>2. Reverse(s) = r
    BY DEF Reverse
  <1> HIDE DEF n
  <1>3. Len(r) = n /\ DOMAIN r = 1..n /\ \A i \in 1..n : r[i] = s[n - i + 1]
    BY <1>1
  <1>4. QED
    BY <1>2, <1>3 DEF n

\* The verdict of validateConfig() does not depend on the order of the
\* devices, although its first user is the reference for a serial line.
THEOREM OrderIsIrrelevant == Spec => []OrderIrrelevant
  <1>1. ASSUME SectionsInv, stage = "derive" PROVE OrderIrrelevant
    <2> DEFINE e == [cfg EXCEPT !.inverters = Reverse(cfg.inverters),
                                !.meters = Reverse(cfg.meters)]
               n == Len(cfg.inverters)
               m == Len(cfg.meters)
               flip(i) == IF i <= n THEN n - i + 1 ELSE n + (m - (i - n) + 1)
               f == [i \in Devices(e) |-> flip(i)]
               g == [i \in DOMAIN e.meters |-> m - i + 1]
    <2>1. /\ n \in Nat /\ m \in Nat
          /\ DOMAIN cfg.meters = 1..m
          /\ IsList(cfg.inverters) /\ IsList(cfg.meters)
      BY <1>1 DEF SectionsInv, IsList
    <2>2. /\ e.inverters = Reverse(cfg.inverters)
          /\ e.meters = Reverse(cfg.meters)
      BY <1>1 DEF SectionsInv, AppConfig
    <2>3. /\ Len(e.inverters) = n /\ Len(e.meters) = m
          /\ DOMAIN e.meters = 1..m
          /\ \A i \in 1..n : e.inverters[i] = cfg.inverters[n - i + 1]
          /\ \A i \in 1..m : e.meters[i] = cfg.meters[m - i + 1]
      BY <2>1, <2>2, Reversed, Zenon
    <2>4. Devices(e) = 1..(n + m) /\ Devices(cfg) = 1..(n + m)
      BY <2>3, Zenon DEF Devices
    <2>5. /\ \A i \in 1..(n + m) : i <= n =>
               /\ flip(i) \in 1..(n + m) /\ flip(i) <= n
               /\ ~(i > n) /\ ~(flip(i) > n)
               /\ i \in 1..n /\ flip(i) = n - i + 1
          /\ \A i \in 1..(n + m) : i > n =>
               /\ flip(i) \in 1..(n + m) /\ flip(i) > n
               /\ ~(i <= n) /\ ~(flip(i) <= n)
               /\ i - n \in 1..m /\ flip(i) - n = m - (i - n) + 1
          /\ \A i, j \in 1..(n + m) : flip(i) = flip(j) => i = j
          /\ \A i \in 1..m : m - i + 1 \in 1..m
          /\ \A i, j \in 1..m : m - i + 1 = m - j + 1 => i = j
          /\ \A i \in 1..(n + m) : i <= n \/ i > n
      <3> HIDE DEF n, m
      <3>1. QED
        BY <2>1, ReversedPositions
    <2>6. /\ \A i \in Devices(e) : f[i] = flip(i)
          /\ \A i \in DOMAIN e.meters : g[i] = m - i + 1
      OBVIOUS
    <2> HIDE DEF flip, f, g, e
    <2>7. ASSUME NEW i \in Devices(e)
          PROVE  /\ f[i] \in Devices(cfg)
                 /\ Device(e, i) = Device(cfg, f[i])
                 /\ asEasyMeter(e, i) = asEasyMeter(cfg, f[i])
      <3>1. i \in 1..(n + m) /\ f[i] = flip(i)
        BY <2>4, <2>6, Zenon
      <3>2. CASE i <= n
        <4>1. /\ flip(i) \in 1..(n + m) /\ flip(i) <= n
              /\ ~(i > n) /\ ~(flip(i) > n)
              /\ i \in 1..n /\ flip(i) = n - i + 1
          BY <2>5, <3>1, <3>2, Zenon
        <4>2. Device(e, i) = e.inverters[i] /\ ~asEasyMeter(e, i)
          BY <2>3, <3>2, <4>1, Zenon DEF Device, asEasyMeter
        <4>3. /\ Device(cfg, flip(i)) = cfg.inverters[flip(i)]
              /\ ~asEasyMeter(cfg, flip(i))
          BY <4>1, Zenon DEF Device, asEasyMeter
        <4>4. Device(e, i) = Device(cfg, flip(i))
          BY <2>3, <4>1, <4>2, <4>3, Zenon
        <4>5. QED
          BY <2>4, <3>1, <4>1, <4>2, <4>3, <4>4, Zenon DEF asEasyMeter
      <3>3. CASE i > n
        <4>1. /\ flip(i) \in 1..(n + m) /\ flip(i) > n
              /\ ~(i <= n) /\ ~(flip(i) <= n)
              /\ i - n \in 1..m /\ flip(i) - n = m - (i - n) + 1
          BY <2>5, <3>1, <3>3, Zenon
        <4>2. MeterAt(e, i) = MeterAt(cfg, flip(i))
          BY <2>3, <4>1, Zenon DEF MeterAt
        <4>3. /\ Device(e, i) = MeterAt(e, i).body
              /\ Device(cfg, flip(i)) = MeterAt(cfg, flip(i)).body
          BY <2>3, <4>1, Zenon DEF Device
        <4>4. /\ asEasyMeter(e, i) <=> MeterAt(e, i).ebz
              /\ asEasyMeter(cfg, flip(i)) <=> MeterAt(cfg, flip(i)).ebz
          BY <2>3, <3>3, <4>1, Zenon DEF asEasyMeter
        <4>5. QED
          BY <2>4, <3>1, <4>1, <4>2, <4>3, <4>4, Zenon DEF asEasyMeter
      <3>4. QED
        BY <2>5, <3>1, <3>2, <3>3, Zenon
    <2>8. \A i, j \in Devices(e) : f[i] = f[j] => i = j
      <3> HIDE DEF n, m
      <3>1. \A i, j \in 1..(n + m) : flip(i) = flip(j) => i = j
        BY <2>5
      <3>2. \A i \in 1..(n + m) : f[i] = flip(i)
        BY <2>4, <2>6, Zenon
      <3>3. \A i, j \in 1..(n + m) : f[i] = f[j] => i = j
        BY <3>1, <3>2, Zenon
      <3>4. QED
        BY <2>4, <3>3, Zenon
    <2>9. ASSUME NEW i \in DOMAIN e.meters
          PROVE  /\ g[i] \in DOMAIN cfg.meters
                 /\ e.meters[i].slave = cfg.meters[g[i]].slave
      <3> HIDE DEF n, m
      <3>1. i \in 1..m /\ g[i] = m - i + 1
        BY <2>3, <2>6, Zenon
      <3>2. m - i + 1 \in 1..m /\ e.meters[i] = cfg.meters[m - i + 1]
        BY <2>3, <2>5, <3>1
      <3>3. QED
        BY <2>1, <3>1, <3>2, Zenon
    <2>10. \A i, j \in DOMAIN e.meters : g[i] = g[j] => i = j
      <3> HIDE DEF n, m
      <3>1. \A i, j \in 1..m : m - i + 1 = m - j + 1 => i = j
        BY <2>5
      <3>2. \A i \in 1..m : g[i] = m - i + 1
        BY <2>3, <2>6, Zenon
      <3>3. \A i, j \in 1..m : g[i] = g[j] => i = j
        BY <3>1, <3>2, Zenon
      <3>4. QED
        BY <2>3, <3>3, Zenon
    <2>11. Rearranges(e, cfg, f, g)
      BY <2>7, <2>8, <2>9, <2>10, Zenon DEF Rearranges
    <2>12. validateConfig(e)
      BY <1>1, <2>11, Rearranged DEF SectionsInv, Validated
    <2>13. QED
      BY <2>12 DEF OrderIrrelevant, e
  <1>2. ~(stage = "derive") => OrderIrrelevant
    BY DEF OrderIrrelevant
  <1>3. QED
    BY <1>1, <1>2, SectionsInvariant, PTL
=============================================================================
