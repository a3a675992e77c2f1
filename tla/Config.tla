------------------------------- MODULE Config -------------------------------
(***************************************************************************)
(* The configuration loader of fronius-bridge (src/config_yaml.cpp):       *)
(* loadConfig() parses the sections of a YAML document, validates them     *)
(* against each other and derives the bus registry and the device roster.  *)
(*                                                                         *)
(* A YAML map is a function on the keys it has, a sequence a sequence.     *)
(* Every parser is a predicate, the absence of an exception, and the       *)
(* record it returns. A real is an integer in hundredths or the NaN that   *)
(* YAML writes ".nan". A name is acceptable or not by its characters as    *)
(* LegalNames says. Bus keys are strings, and a serial path may be spelled *)
(* like the host:port of a gateway: Spelled says which path is which       *)
(* endpoint.                                                               *)
(***************************************************************************)
EXTENDS Integers, FiniteSets, SequencesExt

CONSTANTS
  Documents,   \* the documents that may be loaded
  LegalNames,  \* 1 to 32 characters of [A-Za-z0-9_-]
  NaN,         \* the real that is no number
  Spelled      \* the <<host, port>> that a path spells, if it spells one

ASSUME NaNAssumption == NaN \notin Int

\* A path spells one endpoint, and only one path spells it.
ASSUME SpelledAssumption ==
  \A p, q \in DOMAIN Spelled :
    /\ Spelled[p] = <<Spelled[p][1], Spelled[p][2]>>
    /\ Spelled[p] = Spelled[q] => p = q

VARIABLES
  doc,     \* the document
  stage,   \* the next step of loadConfig(), "loaded" or "rejected"
  cfg,     \* the AppConfig so far
  next     \* the device deriveBuses() visits next

vars == <<doc, stage, cfg, next>>

Has(node, key) == key \in DOMAIN node

\* node[key].as<T>(default): what is missing or no T is the default.
As(node, key, T, default) ==
  IF Has(node, key) /\ node[key] \in T THEN node[key] ELSE default

\* A section that may be missing; all its defaults are valid.
Sub(node, key) == IF Has(node, key) THEN node[key] ELSE <<>>

Real == Int \union {NaN}

\* x < low || x > high; every comparison with NaN is false.
Outside(x, low, high) == x # NaN /\ (x < low \/ x > high)

\* node.IsSequence()
IsSequence(node) == node \in Seq(Range(node))

-----------------------------------------------------------------------------
\* Parsers of the parts that sections share.

supportedBauds ==
  {1200, 2400, 4800, 9600, 19200, 38400, 57600, 115200, 230400, 460800}

ValidPort(port) == port > 0 /\ port <= 65535

parsePositiveSize(size) == size > 0

ValidTcpClient(node) ==
  Has(node, "host") /\ ValidPort(As(node, "port", Int, 502))

parseTcpClient(node) ==
  [kind |-> "tcp", host |-> node.host, port |-> As(node, "port", Int, 502)]

ValidTcpServer(node) == ValidPort(As(node, "port", Int, 502))

parseTcpServer(node) ==
  [kind |-> "tcp", host |-> As(node, "listen", STRING, "0.0.0.0"),
   port |-> As(node, "port", Int, 502)]

ValidRtu(node) ==
  /\ Has(node, "device")
  /\ As(node, "baud", Int, 9600) \in supportedBauds
  /\ As(node, "data_bits", Int, 8) \in 5..8
  /\ As(node, "stop_bits", Int, 1) \in {1, 2}
  /\ As(node, "parity", STRING, "none") \in {"none", "even", "odd"}

parseRtu(node) ==
  [kind |-> "rtu", device |-> node.device, baud |-> As(node, "baud", Int, 9600),
   dataBits |-> As(node, "data_bits", Int, 8),
   stopBits |-> As(node, "stop_bits", Int, 1),
   parity |-> As(node, "parity", STRING, "none")]

parseReconnectDelay(node) ==
  [min |-> As(node, "min", Int, 5), max |-> As(node, "max", Int, 320),
   exponential |-> As(node, "exponential", BOOLEAN, TRUE)]

\* Fault: only the order of the two delays is checked.
NegativeDelayBug(node) ==
  parseReconnectDelay(node).min < parseReconnectDelay(node).max

ValidReconnectDelay(node) ==
  LET delay == parseReconnectDelay(node)
  IN  delay.min > 0 /\ delay.max > 0 /\ delay.min < delay.max

\* A second in microseconds.
Second == 1000000

ValidResponseTimeout(node) ==
  LET sec == As(node, "sec", Int, 5)
      usec == As(node, "usec", Int, 0)
  IN  sec >= 0 /\ usec >= 0 /\ usec < Second /\ ~(sec = 0 /\ usec = 0)

\* parseName(); "meter" and "inverter" are reserved.
ValidName(node) ==
  As(node, "name", STRING, "") \in LegalNames \ {"meter", "inverter"}

\* Exactly one of tcp and rtu, each valid if present.
ValidTransport(node, validTcp) ==
  /\ Has(node, "tcp") => validTcp
  /\ Has(node, "rtu") => ValidRtu(node.rtu)
  /\ Has(node, "tcp") # Has(node, "rtu")

ValidModbusMaster(node) ==
  /\ ValidTransport(node, ValidTcpClient(node.tcp))
  /\ As(node, "unit_id", Int, 1) \in 1..247
  /\ As(node, "update_interval", Int, 4) > 0
  /\ ValidResponseTimeout(Sub(node, "response_timeout"))
  /\ ValidReconnectDelay(Sub(node, "reconnect_delay"))

parseModbusMaster(node) ==
  [name |-> node.name,
   line |-> IF Has(node, "tcp") THEN parseTcpClient(node.tcp)
            ELSE parseRtu(node.rtu),
   slaveId |-> As(node, "unit_id", Int, 1),
   updateInterval |-> As(node, "update_interval", Int, 4),
   sec |-> As(Sub(node, "response_timeout"), "sec", Int, 5),
   usec |-> As(Sub(node, "response_timeout"), "usec", Int, 0),
   delay |-> parseReconnectDelay(Sub(node, "reconnect_delay"))]

-----------------------------------------------------------------------------
\* Section parsers.

ValidInverter(node) == ValidModbusMaster(node) /\ ValidName(node)

ValidMeterSlave(node) ==
  /\ ValidTransport(node, ValidTcpServer(node.tcp))
  /\ As(node, "unit_id", Int, 1) \in 1..247
  /\ As(node, "request_timeout", Int, 5) > 0
  /\ As(node, "idle_timeout", Int, 60) >= As(node, "request_timeout", Int, 5)

parseMeterSlave(node) ==
  [line |-> IF Has(node, "tcp") THEN parseTcpServer(node.tcp)
            ELSE parseRtu(node.rtu),
   slaveId |-> As(node, "unit_id", Int, 1),
   requestTimeout |-> As(node, "request_timeout", Int, 5),
   idleTimeout |-> As(node, "idle_timeout", Int, 60),
   useFloatModel |-> As(node, "use_float_model", BOOLEAN, FALSE)]

parseGrid(node) ==
  [powerFactor |-> As(node, "power_factor", Real, 95),
   frequency |-> As(node, "frequency", Real, 5000),
   isLeading |-> As(node, "leading", BOOLEAN, FALSE)]

\* Both are rejected where they compare badly, which NaN never does.
ValidGrid(node) ==
  LET grid == parseGrid(node)
  IN  /\ ~Outside(grid.powerFactor, 1, 100)
      /\ ~(grid.frequency # NaN /\ grid.frequency <= 0)

ValidEasyMeter(node) ==
  /\ \A key \in {"tcp", "unit_id", "update_interval", "response_timeout",
                 "reconnect_delay"} : ~Has(node, key)
  /\ Has(node, "rtu") /\ ValidRtu(node.rtu)
  /\ ValidGrid(Sub(node, "grid"))

\* parseMeterLocation() knows the two locations.
Locations == {"feed-in", "consumption"}

Type(node) == As(node, "type", STRING, "fronius")

ValidMeter(node) ==
  /\ ValidName(node)
  /\ Has(node, "slave") => ValidMeterSlave(node.slave)
  /\ Has(node, "location") => node.location \in Locations
  /\ As(node, "primary", BOOLEAN, FALSE) => Has(node, "location")
  /\ \/ Type(node) = "fronius" /\ ~Has(node, "grid") /\ ValidModbusMaster(node)
     \/ Type(node) = "ebz" /\ ValidEasyMeter(node)

\* The envelope of a meter and its body; an Easymeter has a line but no bus.
parseMeter(node) ==
  [name |-> node.name,
   ebz |-> Type(node) = "ebz",
   body |-> IF Type(node) = "ebz"
            THEN [name |-> node.name, line |-> parseRtu(node.rtu),
                  grid |-> parseGrid(Sub(node, "grid"))]
            ELSE parseModbusMaster(node),
   slave |-> IF Has(node, "slave") THEN <<parseMeterSlave(node.slave)>>
             ELSE <<>>,
   location |-> IF Has(node, "location") THEN node.location ELSE "none",
   primary |-> As(node, "primary", BOOLEAN, FALSE)]

ValidMeters(nodes) ==
  /\ IsSequence(nodes)
  /\ \A i \in DOMAIN nodes : ValidMeter(nodes[i])
  /\ \A i, j \in DOMAIN nodes :
       /\ As(nodes[i], "primary", BOOLEAN, FALSE)
       /\ As(nodes[j], "primary", BOOLEAN, FALSE)
       => i = j

\* A client certificate needs its key and a CA source.
ValidMqttTls(node) ==
  /\ Has(node, "cert_file") = Has(node, "key_file")
  /\ Has(node, "cert_file") => Has(node, "ca_file") \/ Has(node, "ca_path")

ValidMqtt(root) ==
  /\ Has(root, "mqtt")
  /\ parsePositiveSize(As(root.mqtt, "queue_size", Int, 100))
  /\ ValidReconnectDelay(Sub(root.mqtt, "reconnect_delay"))
  /\ ValidMqttTls(Sub(root.mqtt, "tls"))
  /\ ValidPort(As(root.mqtt, "port", Int, 1883))

ValidPostgres(node) ==
  /\ As(node, "dsn", STRING, "") # ""
  /\ parsePositiveSize(As(node, "queue_size", Int, 10000))
  /\ ValidReconnectDelay(Sub(node, "reconnect_delay"))

parseLogLevel == {"off", "error", "warn", "info", "debug", "trace"}

\* A module's level is a level or a map of submodules to levels.
ValidLogger(node) ==
  /\ Has(node, "level") => node.level \in parseLogLevel
  /\ \A m \in DOMAIN Sub(node, "modules") : node.modules[m] \subseteq parseLogLevel

ValidSite(node) ==
  /\ Has(node, "latitude") /\ node.latitude \in Real
  /\ ~Outside(node.latitude, -9000, 9000)
  /\ Has(node, "longitude") /\ node.longitude \in Real
  /\ ~Outside(node.longitude, -18000, 18000)
  /\ Has(node, "horizon") =>
       node.horizon \in Real /\ ~Outside(node.horizon, -1800, 2000)

-----------------------------------------------------------------------------
\* Cross-section validation.

\* The devices of a configuration by position, inverters first.
Devices(c) == 1..(Len(c.inverters) + Len(c.meters))

MeterAt(c, i) == c.meters[i - Len(c.inverters)]

Device(c, i) ==
  IF i <= Len(c.inverters) THEN c.inverters[i] ELSE MeterAt(c, i).body

\* asEasyMeter(); the others are Modbus masters.
asEasyMeter(c, i) == i > Len(c.inverters) /\ MeterAt(c, i).ebz

Masters(c) == {i \in Devices(c) : ~asEasyMeter(c, i)}

\* busKeyRtu(), the path, and busKeyTcp(), host + ":" + port, in one space of
\* strings: a path that spells an endpoint is the key of that endpoint.
busKey(line) ==
  IF line.kind = "tcp" THEN <<line.host, line.port>>
  ELSE IF line.device \in DOMAIN Spelled THEN Spelled[line.device]
  ELSE <<line.device>>

Key(c, i) == busKey(Device(c, i).line)

SingleEbz(c) ==
  \A i, j \in Devices(c) : asEasyMeter(c, i) /\ asEasyMeter(c, j) => i = j

\* Fault: the names are unique within a section only.
NamesPerSectionBug(c) ==
  \A i, j \in Devices(c) :
    i # j /\ (i <= Len(c.inverters)) = (j <= Len(c.inverters)) =>
      Device(c, i).name # Device(c, j).name

UniqueNames(c) ==
  \A i, j \in Devices(c) : i # j => Device(c, i).name # Device(c, j).name

UniqueUnitIds(c) ==
  \A i, j \in Masters(c) :
    i # j => \/ Key(c, i) # Key(c, j)
             \/ Device(c, i).slaveId # Device(c, j).slaveId

\* The masters on a serial device.
OnSerial(c, device) ==
  {i \in Masters(c) : /\ Device(c, i).line.kind = "rtu"
                      /\ Device(c, i).line.device = device}

\* Fault: every master is compared with the one before it only.
NeighbourParametersBug(c) ==
  \A i \in Masters(c) :
    Device(c, i).line.kind = "rtu" =>
      \A j \in OnSerial(c, Device(c, i).line.device) :
        j = i + 1 => Device(c, j).line = Device(c, i).line

\* The first master on a serial device is the reference for the others.
SameLineParameters(c) ==
  \A i \in Masters(c) :
    Device(c, i).line.kind = "rtu" =>
      LET users == OnSerial(c, Device(c, i).line.device)
      IN  (\A j \in users : i <= j) =>
            \A j \in users : Device(c, j).line = Device(c, i).line

\* The slaves of one kind of transport, by the position of their meter.
Slaves(c, kind) ==
  {i \in DOMAIN c.meters : /\ c.meters[i].slave # <<>>
                           /\ c.meters[i].slave[1].line.kind = kind}

SlaveLine(c, i) == c.meters[i].slave[1].line

UniqueListeners(c) ==
  \A i, j \in Slaves(c, "tcp") : i # j => SlaveLine(c, i) # SlaveLine(c, j)

\* A slave and an Easymeter each need their serial device to themselves.
ExclusiveDevices(c) ==
  /\ \A i \in Slaves(c, "rtu") :
       /\ OnSerial(c, SlaveLine(c, i).device) = {}
       /\ \A j \in Slaves(c, "rtu") :
            i # j => SlaveLine(c, i).device # SlaveLine(c, j).device
  /\ \A i \in Devices(c) \ Masters(c) :
       /\ OnSerial(c, Device(c, i).line.device) = {}
       /\ \A j \in Slaves(c, "rtu") :
            SlaveLine(c, j).device # Device(c, i).line.device

validateConfig(c) ==
  /\ SingleEbz(c)
  /\ UniqueNames(c)
  /\ UniqueUnitIds(c)
  /\ SameLineParameters(c)
  /\ UniqueListeners(c)
  /\ ExclusiveDevices(c)

-----------------------------------------------------------------------------
\* Derived registries.

Least(a, b) == IF b < a THEN b ELSE a

\* Fault: the longest maximum is kept, as for a single patient device.
MergeLongestBug(dst, src) ==
  [min |-> Least(dst.min, src.min),
   max |-> IF dst.max < src.max THEN src.max ELSE dst.max,
   exponential |-> dst.exponential \/ src.exponential]

\* The most responsive policy of the devices that share a bus.
mergeReconnectDelay(dst, src) ==
  [min |-> Least(dst.min, src.min),
   max |-> Least(dst.max, src.max),
   exponential |-> dst.exponential \/ src.exponential]

\* meterBusEntry() of a Modbus meter and makeBusConfig().
makeBusConfig(d) == [line |-> d.line, delay |-> d.delay]

Member(d) == <<d.name, d.slaveId>>

\* Fault: a device on a bus that exists is not recorded as a member.
FirstMemberBug(buses, d) ==
  LET key == busKey(d.line)
  IN  IF key \in DOMAIN buses THEN buses
      ELSE [k \in DOMAIN buses \union {key} |->
              IF k = key THEN [config |-> makeBusConfig(d),
                               members |-> <<Member(d)>>]
              ELSE buses[k]]

\* One device joins its bus, which it creates or whose policy it tightens.
fold(buses, d) ==
  LET key == busKey(d.line)
      joined ==
        IF key \in DOMAIN buses
        THEN [config |-> [line |-> buses[key].config.line,
                          delay |-> mergeReconnectDelay(buses[key].config.delay,
                                                        d.delay)],
              members |-> Append(buses[key].members, Member(d))]
        ELSE [config |-> makeBusConfig(d), members |-> <<Member(d)>>]
  IN  [k \in DOMAIN buses \union {key} |-> IF k = key THEN joined ELSE buses[k]]

\* The n-th device deriveBuses() visits: meters first, then inverters.
Visited(c, n) ==
  IF n <= Len(c.meters) THEN Len(c.inverters) + n ELSE n - Len(c.meters)

\* One entry per device, inverters first.
RegistryOf(c) ==
  [i \in Devices(c) |->
     IF i <= Len(c.inverters)
     THEN [name |-> c.inverters[i].name, kind |-> "inverter",
           location |-> "none", primary |-> FALSE]
     ELSE [name |-> MeterAt(c, i).name, kind |-> "meter",
           location |-> MeterAt(c, i).location,
           primary |-> MeterAt(c, i).primary]]

-----------------------------------------------------------------------------
\* loadConfig(), one step per section; an exception ends it.

Step(from, to, valid, result) ==
  /\ stage = from
  /\ IF valid THEN stage' = to /\ cfg' = result
     ELSE stage' = "rejected" /\ UNCHANGED cfg
  /\ UNCHANGED <<doc, next>>

Inverters == Sub(doc, "inverters")
Meters == Sub(doc, "meters")

ValidInverters ==
  /\ IsSequence(Inverters)
  /\ \A i \in DOMAIN Inverters : ValidInverter(Inverters[i])

parseInverters ==
  Step("inverters", "meters", ValidInverters,
       [cfg EXCEPT !.inverters =
          [i \in DOMAIN Inverters |-> parseModbusMaster(Inverters[i])]])

\* Without any device there is nothing to do.
parseMeters ==
  Step("meters", "sections",
       ValidMeters(Meters) /\ (Inverters # <<>> \/ Meters # <<>>),
       [cfg EXCEPT !.meters = [i \in DOMAIN Meters |-> parseMeter(Meters[i])]])

\* mqtt is mandatory; postgres, logger and site are optional.
parseSections ==
  Step("sections", "validate",
       /\ ValidMqtt(doc)
       /\ Has(doc, "postgres") => ValidPostgres(doc.postgres)
       /\ Has(doc, "logger") => ValidLogger(doc.logger)
       /\ Has(doc, "site") => ValidSite(doc.site),
       cfg)

validate == Step("validate", "derive", validateConfig(cfg), cfg)

\* The loops over the devices, one step each; an Easymeter has no bus.
deriveBuses ==
  /\ stage = "derive" /\ next \in Devices(cfg)
  /\ LET i == Visited(cfg, next)
     IN  cfg' = IF i \in Masters(cfg)
                THEN [cfg EXCEPT !.buses = fold(@, Device(cfg, i))]
                ELSE cfg
  /\ next' = next + 1
  /\ UNCHANGED <<doc, stage>>

deriveDeviceRegistry ==
  /\ next \notin Devices(cfg)
  /\ Step("derive", "loaded", TRUE,
          [cfg EXCEPT !.deviceRegistry = RegistryOf(cfg)])

Init ==
  /\ doc \in Documents
  /\ stage = "inverters"
  /\ cfg = [inverters |-> <<>>, meters |-> <<>>, buses |-> <<>>,
            deviceRegistry |-> <<>>]
  /\ next = 1

Next ==
  \/ parseInverters \/ parseMeters \/ parseSections
  \/ validate \/ deriveBuses \/ deriveDeviceRegistry

Spec == Init /\ [][Next]_vars

-----------------------------------------------------------------------------

DelayOK(delay) ==
  delay \in [min : Nat \ {0}, max : Nat \ {0}, exponential : BOOLEAN]

TypeOK ==
  /\ stage \in {"inverters", "meters", "sections", "validate", "derive",
                "loaded", "rejected"}
  /\ \A i \in Masters(cfg) : DelayOK(Device(cfg, i).delay)
  /\ \A i \in DOMAIN cfg.meters :
       cfg.meters[i].location \in Locations \union {"none"}
  /\ \A k \in DOMAIN cfg.buses : DelayOK(cfg.buses[k].config.delay)
  /\ next \in 1..(Len(cfg.inverters) + Len(cfg.meters) + 1)

\* Every user of a serial line in the configuration, in whatever role.
SerialUsers ==
  LET all == {[role |-> "master", at |-> i, line |-> Device(cfg, i).line,
               unit |-> Device(cfg, i).slaveId] : i \in Masters(cfg)}
             \union
             {[role |-> "ebz", at |-> i, line |-> Device(cfg, i).line,
               unit |-> 0] : i \in Devices(cfg) \ Masters(cfg)}
             \union
             {[role |-> "slave", at |-> i, line |-> SlaveLine(cfg, i),
               unit |-> 0] : i \in Slaves(cfg, "rtu")}
  IN  {u \in all : u.line.kind = "rtu"}

\* In a configuration that loads a serial line has one owner, or only Modbus
\* masters that agree on its parameters and answer to different unit ids,
\* whatever sections and positions they come from: a slave on the line of a
\* master "would deadlock the bridge against itself", an Easymeter locks its
\* line (src/config_yaml.cpp:1037-1097).
OneOwnerPerLine ==
  stage = "loaded" =>
    \A u, v \in SerialUsers :
      u # v /\ u.line.device = v.line.device =>
        /\ u.role = "master" /\ v.role = "master"
        /\ u.line = v.line
        /\ u.unit # v.unit

\* The masters that share a bus.
Sharing(k) == {i \in Masters(cfg) : Key(cfg, i) = k}

\* main looks up the bus of every Modbus device by its key: it exists and
\* knows the device, once, as a member, and nobody else. Its transport is
\* that of one of its devices, and of all that use the same kind of transport;
\* a serial device and a TCP device meet on a bus only where the path of the
\* one spells the endpoint of the other (src/config_yaml.cpp:843-861,
\* src/main.cpp:243-295).
DevicesFindTheirBus ==
  stage = "loaded" =>
    /\ \A i \in Masters(cfg) :
         LET bus == cfg.buses[Key(cfg, i)]
             line == Device(cfg, i).line
         IN  /\ Key(cfg, i) \in DOMAIN cfg.buses
             /\ bus.config.line.kind = line.kind => bus.config.line = line
             /\ \E n \in DOMAIN bus.members :
                  bus.members[n] = Member(Device(cfg, i))
    /\ \A k \in DOMAIN cfg.buses :
         LET members == cfg.buses[k].members
         IN  /\ \E i \in Sharing(k) :
                  cfg.buses[k].config.line = Device(cfg, i).line
             /\ \A m, n \in DOMAIN members :
                  m # n => members[m] # members[n]
             /\ Len(members) = Cardinality(Sharing(k))

\* The reconnect policy of a shared bus, folded device by device, is the
\* shortest first delay and the shortest cap of its members, exponential if
\* one of them is, and still has a delay shorter than its cap, which only the
\* policies of the single devices were checked for
\* (src/config_yaml.cpp:758-773).
BusPolicy ==
  stage = "loaded" =>
    \A k \in DOMAIN cfg.buses :
      LET policy == cfg.buses[k].config.delay
          delay(i) == Device(cfg, i).delay
      IN  /\ \E i \in Sharing(k) : delay(i).min = policy.min
          /\ \E i \in Sharing(k) : delay(i).max = policy.max
          /\ \A i \in Sharing(k) :
               delay(i).min >= policy.min /\ delay(i).max >= policy.max
          /\ policy.exponential = \E i \in Sharing(k) : delay(i).exponential
          /\ policy.min < policy.max

\* The roster the PostgreSQL consumer stores has every device of the document
\* once, under a name no other device has, and at most one primary meter,
\* which has a location (src/config_yaml.cpp:864-888).
RosterComplete ==
  stage = "loaded" =>
    LET roster == cfg.deviceRegistry
        given(kind, nodes) == {<<kind, nodes[i].name>> : i \in DOMAIN nodes}
    IN  /\ \A i, j \in DOMAIN roster : i # j => roster[i].name # roster[j].name
        /\ {<<roster[i].kind, roster[i].name>> : i \in DOMAIN roster} =
             given("inverter", Inverters) \union given("meter", Meters)
        /\ \A i, j \in DOMAIN roster :
             roster[i].primary =>
               /\ roster[i].location \in Locations
               /\ roster[j].primary => i = j

\* Although the first device on a line is the reference for the others, the
\* order in which devices are listed does not decide whether a configuration
\* is valid (src/config_yaml.cpp:983-1007); BusPolicy and DevicesFindTheirBus
\* then determine its buses.
OrderIrrelevant ==
  stage = "derive" =>
    validateConfig([cfg EXCEPT !.inverters = Reverse(@), !.meters = Reverse(@)])
=============================================================================
