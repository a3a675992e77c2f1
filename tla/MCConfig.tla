------------------------------ MODULE MCConfig ------------------------------
(* Families of documents for TLC. *)
EXTENDS Config, TLC

Names == {"a", "b", "c", "meter"}

\* The serial device "gw:502" has the name of the gateway below.
Spelling == [p \in {"gw:502"} |-> <<"gw", 502>>]

Rtu(device, baud) == [rtu |-> [device |-> device, baud |-> baud]]
Tcp == [tcp |-> [host |-> "gw"]]

Document(inverters, meters) ==
  [inverters |-> inverters, meters |-> meters, mqtt |-> <<>>]

UpTo1(S) == {<<>>} \union {<<s>> : s \in S}

\* Buses: one inverter and two meters on a serial line, a gateway and a
\* serial line with the name of the gateway, with two unit ids and two
\* reconnect policies.
Master(name) ==
  {[name |-> name, unit_id |-> unit] @@ line @@ delay :
     unit \in {1, 2},
     line \in {Rtu("A", 9600), Rtu("A", 19200), Rtu("gw:502", 9600), Tcp},
     delay \in {<<>>, [reconnect_delay |->
                        [min |-> 9, max |-> 10, exponential |-> FALSE]]}}

Buses ==
  {Document(i, m1 \o m2) :
     i \in UpTo1(Master("a")), m1 \in UpTo1(Master("b")),
     m2 \in UpTo1(Master("c"))}

\* Roles: Modbus meters and Easymeters, with and without a slave.
Meter(name, unit) ==
  {[name |-> name] @@ kind @@ slave :
     kind \in {[unit_id |-> unit] @@ line :
                 line \in {Rtu("A", 9600), Rtu("B", 9600), Tcp}}
              \union {[type |-> "ebz"] @@ Rtu(d, 9600) : d \in {"A", "B"}},
     slave \in {<<>>} \union
               {[slave |-> line] : line \in {[tcp |-> <<>>],
                  [tcp |-> [port |-> 503]], Rtu("A", 9600), Rtu("B", 9600)}}}

Roles ==
  {Document(i, <<m1>> \o m2) :
     i \in {<<>>, <<[name |-> "a"] @@ Rtu("A", 9600)>>, <<[name |-> "a"] @@ Tcp>>},
     m1 \in Meter("b", 2), m2 \in UpTo1(Meter("c", 3))}

\* Names and roles in the site.
Places ==
  {<<>>, [location |-> "feed-in"], [location |-> "roof"], [primary |-> TRUE],
   [location |-> "consumption", primary |-> TRUE]}

Named(names) == {[name |-> n] @@ p : n \in names, p \in Places}

Rosters ==
  {Document(<<[name |-> n] @@ Tcp>>,
            <<m1 @@ Rtu("A", 9600), m2 @@ Rtu("B", 9600)>>) :
     n \in {"a", "b", "no name", "meter"},
     m1 \in Named({"a", "b"}), m2 \in Named({"b", "c"})}

\* Single values at and beyond their bounds, in an otherwise good document.
Inverter(part) == [name |-> "a"] @@ part
EbzMeter(part) == part @@ [name |-> "b", type |-> "ebz"]

BadInverters ==
  {<<Inverter(part @@ Tcp)>> : part \in
     UNION {{[unit_id |-> u] : u \in {0, 1, 247, 248}},
            {[update_interval |-> t] : t \in {0, 1}},
            {[response_timeout |-> [sec |-> s, usec |-> u]] :
               s \in {-1, 0, 1}, u \in {-1, 0, 1, 999999, 1000000}},
            {[reconnect_delay |-> [min |-> l, max |-> h]] :
               l \in {-1, 0, 1, 2}, h \in {0, 1, 2}},
            {[tcp |-> <<>>], [tcp |-> [host |-> "gw", port |-> 0]],
             [tcp |-> [host |-> "gw", port |-> 65536]], Rtu("A", 9600)}}}

BadLines ==
  {<<EbzMeter([rtu |-> line])>> : line \in
     UNION {{[device |-> "A", baud |-> b] : b \in {300, 1200, 9600, 460800}},
            {[device |-> "A", data_bits |-> b] : b \in {4, 5, 8, 9}},
            {[device |-> "A", stop_bits |-> b] : b \in {0, 1, 2}},
            {[device |-> "A", parity |-> p] : p \in {"odd", "mark"}},
            {[baud |-> 9600]}}}
  \union
  {<<EbzMeter(part @@ Rtu("A", 9600))>> : part \in
     UNION {{[grid |-> [power_factor |-> f]] : f \in {0, 1, 100, 101, NaN}},
            {[grid |-> [frequency |-> f]] : f \in {0, 1, NaN}},
            {[type |-> "other"], Tcp,
             [unit_id |-> 1], [slave |-> <<>>]},
            {[slave |-> [tcp |-> <<>>, request_timeout |-> r,
                         idle_timeout |-> i]] : r \in {0, 1, 5}, i \in {1, 5}},
            {[slave |-> [tcp |-> <<>>, unit_id |-> u]] : u \in {0, 248}}}}
  \union {<<[name |-> "b", grid |-> <<>>] @@ Tcp>>}

Good == Document(<<Inverter(Tcp)>>, <<>>)

BadSections ==
  {part @@ Good : part \in
     UNION {{[mqtt |-> [queue_size |-> q]] : q \in {-1, 0, 1}},
            {[mqtt |-> [port |-> p]] : p \in {0, 65535, 65536}},
            {[mqtt |-> [tls |-> tls]] : tls \in
               {<<>>, [cert_file |-> "c"], [key_file |-> "k"],
                [cert_file |-> "c", key_file |-> "k"],
                [cert_file |-> "c", key_file |-> "k", ca_path |-> "p"]}},
            {[postgres |-> <<>>], [postgres |-> [dsn |-> "db"]],
             [postgres |-> [dsn |-> "db", queue_size |-> 0]]},
            {[logger |-> [level |-> l, modules |-> [meter |-> {l, "off"}]]] :
               l \in {"info", "loud"}},
            {[site |-> [latitude |-> l, longitude |-> 18000, horizon |-> h]] :
               l \in {-9000, 9001, NaN}, h \in {-1801, -1800, 2000, 2001, NaN}},
            {[site |-> [latitude |-> 0]],
             [site |-> [latitude |-> 0, longitude |-> NaN]]}}}
  \union {[inverters |-> <<Inverter(Tcp)>>], [mqtt |-> <<>>]}

AllDocuments ==
  UNION {Buses, Roles, Rosters, {Document(i, <<>>) : i \in BadInverters},
         {Document(<<>>, m) : m \in BadLines}, BadSections}
=============================================================================
