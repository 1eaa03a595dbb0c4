-------------------------- MODULE ConfigClientsProofs --------------------------
(***************************************************************************)
(* What TLAPS proves of ConfigClients, for any requests, commands, numbers *)
(* of Modbus requests and registers, and clients that overlap in any way.  *)
(***************************************************************************)
EXTENDS ConfigClients, TLAPS

-----------------------------------------------------------------------------
(* Forms *)

\* What a section may hold.
Good(s, c) == /\ c \in [DOMAIN c -> Int]
              /\ \A f \in DOMAIN c : f \in Fields[s] /\ Within(s, f, c[f])

\* The limits of the part of a section that a form edits.
LimitsOf(form) == IF form.keyed THEN ElementLimits[form.section] ELSE Limits[form.section]

\* What a form takes, the users of the configuration can live with.
Fits(form) ==
  /\ form.section \in DOMAIN Limits
  /\ form.keyed \in BOOLEAN /\ (form.keyed => form.section \in DOMAIN ElementLimits)
  /\ form.mapped = form.keyed
  /\ \A n \in form.flags : n \in DOMAIN LimitsOf(form) /\ Flag \subseteq LimitsOf(form)[n]
  /\ \A n \in DOMAIN form.takes : /\ n \in DOMAIN LimitsOf(form)
                                  /\ form.takes[n] \subseteq LimitsOf(form)[n]
  /\ "tag_handles" \notin form.flags \cup DOMAIN form.takes

\* Flags and ranges within limits.
Admitted(flags, takes, limits) ==
  /\ \A n \in flags : n \in DOMAIN limits /\ Flag \subseteq limits[n]
  /\ \A n \in DOMAIN takes : n \in DOMAIN limits /\ takes[n] \subseteq limits[n]
  /\ "tag_handles" \notin flags \cup DOMAIN takes

LEMMA PlainFits ==
  ASSUME NEW s \in DOMAIN Limits, NEW flags, NEW takes, Admitted(flags, takes, Limits[s])
  PROVE  Fits(Plain(s, flags, takes))
BY DEF Plain, Form, Fits, LimitsOf, Admitted

LEMMA MappingFits ==
  ASSUME NEW s \in DOMAIN Limits, s \in DOMAIN ElementLimits, NEW flags, NEW takes,
         Admitted(flags, takes, ElementLimits[s])
  PROVE  Fits(Mapping(s, flags, takes))
BY DEF Mapping, Form, Fits, LimitsOf, Admitted

LEMMA SectionsAre ==
  /\ DOMAIN Limits = {"device", "net_info", "serial0", "serial1", "serial_to_tcp_mode",
                      "modbus_rtu_client", "modbus_rtu_server", "modbus_tcp_client",
                      "modbus_tcp_server"}
  /\ DOMAIN ElementLimits = {"modbus_rtu_client", "modbus_tcp_client",
                             "modbus_rtu_server", "modbus_tcp_server"}
<1>1. DOMAIN Limits = {"device", "net_info", "serial0", "serial1", "serial_to_tcp_mode",
                      "modbus_rtu_client", "modbus_rtu_server", "modbus_tcp_client",
                      "modbus_tcp_server"}
  BY SMT DEF Limits
<1>2. DOMAIN ElementLimits = {"modbus_rtu_client", "modbus_tcp_client",
                             "modbus_rtu_server", "modbus_tcp_server"}
  BY SMT DEF ElementLimits
<1> QED
  BY <1>1, <1>2

LEMMA NetworkFits == Fits(handle_set_network) /\ Fits(WriteNetwork)
<1> DEFINE L == [mac |-> Addresses, ip |-> Addresses, sn |-> Addresses,
                 gw |-> Addresses, dns |-> Addresses, dhcp |-> Int]
           U == [mac |-> Addresses, ip |-> Addresses, sn |-> Addresses,
                 gw |-> Addresses, dns |-> Addresses, dhcp |-> Uint8]
           T == [ip |-> Addresses, sn |-> Addresses, gw |-> Addresses,
                 dns |-> Addresses, dhcp |-> 1 .. 2]
<1>1. Limits["net_info"] = L
  BY SMT DEF Limits
<1>2. Admitted({}, U, L)
  BY SMT DEF Admitted, Uint8
<1>3. Admitted({}, T, L)
  BY SMT DEF Admitted
<1>4. handle_set_network = Plain("net_info", {}, U) /\ WriteNetwork = Plain("net_info", {}, T)
  BY SMT DEF handle_set_network, WriteNetwork
<1> HIDE DEF L, T, U
<1> QED
  BY <1>1, <1>2, <1>3, <1>4, PlainFits, SectionsAre

LEMMA SerialFits ==
  ASSUME NEW s \in {"serial0", "serial1"}
  PROVE  Fits(handle_set_serial(s)) /\ Fits(WriteSerial(s))
<1> DEFINE T == [baud |-> Baud, databits |-> 5 .. 8, parity |-> 0 .. 2,
                 stopbits |-> 1 .. 2]
<1>1. Limits[s] = SerialLimits
  <2>1. Limits["serial0"] = SerialLimits
    BY SMT DEF Limits
  <2>2. Limits["serial1"] = SerialLimits
    BY SMT DEF Limits
  <2> QED
    BY <2>1, <2>2
<1>2. Admitted({"flow_control_cts", "flow_control_rts"}, T, SerialLimits)
  <2>1. /\ DOMAIN T = {"baud", "databits", "parity", "stopbits"}
        /\ DOMAIN SerialLimits = {"baud", "databits", "parity", "stopbits", "flow_control_cts",
                        "flow_control_rts"}
    BY SMT DEF SerialLimits
  <2>2. /\ T.baud \subseteq SerialLimits.baud /\ T.databits \subseteq SerialLimits.databits
        /\ T.parity \subseteq SerialLimits.parity /\ T.stopbits \subseteq SerialLimits.stopbits
    BY SMT DEF SerialLimits
  <2>3. Flag \subseteq SerialLimits.flow_control_cts /\ Flag \subseteq SerialLimits.flow_control_rts
    BY SMT DEF SerialLimits
  <2> HIDE DEF T
  <2> QED
    BY <2>1, <2>2, <2>3, SMT DEF Admitted
<1>3. handle_set_serial(s) = Plain(s, {"flow_control_cts", "flow_control_rts"}, T)
  BY SMT DEF handle_set_serial
<1>4. WriteSerial(s) = handle_set_serial(s)
  BY DEF WriteSerial
<1> HIDE DEF T
<1> QED
  BY <1>1, <1>2, <1>3, <1>4, PlainFits, SectionsAre

LEMMA S2tcpFits == Fits(handle_set_s2tcp) /\ Fits(WriteS2tcp)
<1> DEFINE L == [enable |-> Flag, serial_id |-> 0 .. 1, mode |-> 0 .. 1, local_port |-> Uint16,
                 timeout_s |-> Uint16, keepalive_s |-> Uint16, max_connections |-> Uint8,
                 remote_ip |-> Addresses, remote_port |-> Uint16]
           T == [serial_id |-> 0 .. 1, mode |-> 0 .. 1, local_port |-> Port, timeout_s |-> 1 ..
                 3600, keepalive_s |-> 1 .. 600, max_connections |-> 1 .. 4, remote_ip |->
                 Addresses, remote_port |-> Port]
<1>1. Limits["serial_to_tcp_mode"] = L
  BY SMT DEF Limits
<1>2. Admitted({"enable"}, T, L)
  <2>1. /\ DOMAIN T = {"serial_id", "mode", "local_port", "timeout_s", "keepalive_s",
                        "max_connections", "remote_ip", "remote_port"}
        /\ DOMAIN L = {"enable", "serial_id", "mode", "local_port", "timeout_s",
                        "keepalive_s", "max_connections", "remote_ip", "remote_port"}
    BY SMT DEF Port, Uint8
  <2>a. \A x \in T.timeout_s : x \in L.timeout_s
    BY SMT DEF Port, Uint8, Uint16
  <2>b. \A x \in T.keepalive_s : x \in L.keepalive_s
    BY SMT DEF Port, Uint8, Uint16
  <2>2. /\ T.serial_id \subseteq L.serial_id /\ T.mode \subseteq L.mode
        /\ T.local_port \subseteq L.local_port /\ T.max_connections \subseteq L.max_connections
        /\ T.remote_ip \subseteq L.remote_ip /\ T.remote_port \subseteq L.remote_port
    BY SMT DEF Port, Uint8
  <2>3. Flag \subseteq L.enable
    BY SMT DEF Port, Uint8
  <2> HIDE DEF T, L
  <2> QED
    BY <2>1, <2>2, <2>3, <2>a, <2>b, SMT DEF Admitted
<1>3. handle_set_s2tcp = Plain("serial_to_tcp_mode", {"enable"}, T)
  BY SMT DEF handle_set_s2tcp
<1>4. WriteS2tcp = handle_set_s2tcp
  BY DEF WriteS2tcp
<1> HIDE DEF L, T
<1> QED
  BY <1>1, <1>2, <1>3, <1>4, PlainFits, SectionsAre

LEMMA DeviceFits == Fits(WriteDevice)
<1> DEFINE L == [device_id |-> Addresses, filter_level |-> 0 .. 3, include_timestamp |-> Flag,
                 include_task_name |-> Flag, use_colors |-> Flag]
           T == [device_id |-> Addresses, filter_level |-> 0 .. 3]
<1>1. Limits["device"] = L
  BY SMT DEF Limits
<1>2. Admitted({"include_timestamp", "include_task_name", "use_colors"}, T, L)
  <2>1. /\ DOMAIN T = {"device_id", "filter_level"}
        /\ DOMAIN L = {"device_id", "filter_level", "include_timestamp", "include_task_name",
                        "use_colors"}
    BY SMT
  <2>2. /\ T.device_id \subseteq L.device_id /\ T.filter_level \subseteq L.filter_level
    BY SMT
  <2>3. /\ Flag \subseteq L.include_timestamp /\ Flag \subseteq L.include_task_name
        /\ Flag \subseteq L.use_colors
    BY SMT
  <2> HIDE DEF T, L
  <2> QED
    BY <2>1, <2>2, <2>3, SMT DEF Admitted
<1>3. WriteDevice = Plain("device", {"include_timestamp", "include_task_name", "use_colors"}, T)
  BY SMT DEF WriteDevice
<1> HIDE DEF L, T
<1> QED
  BY <1>1, <1>2, <1>3, PlainFits, SectionsAre

LEMMA RtuClientFits == Fits(handle_set_modbus_client)
<1> DEFINE L == [enable |-> Flag, serial_id |-> 0 .. 1]
           T == [serial_id |-> 0 .. 1]
<1>1. Limits["modbus_rtu_client"] = L
  BY SMT DEF Limits
<1>2. Admitted({"enable"}, T, L)
  <2>1. /\ DOMAIN T = {"serial_id"}
        /\ DOMAIN L = {"enable", "serial_id"}
    BY SMT
  <2>2. T.serial_id \subseteq L.serial_id
    BY SMT
  <2>3. Flag \subseteq L.enable
    BY SMT
  <2> HIDE DEF T, L
  <2> QED
    BY <2>1, <2>2, <2>3, SMT DEF Admitted
<1>3. handle_set_modbus_client = Plain("modbus_rtu_client", {"enable"}, T)
  BY SMT DEF handle_set_modbus_client
<1> HIDE DEF L, T
<1> QED
  BY <1>1, <1>2, <1>3, PlainFits, SectionsAre

LEMMA RtuServerFits == Fits(handle_set_modbus_server)
<1> DEFINE L == [enable |-> Flag, serial_id |-> 0 .. 1, server_address |-> 0 .. 247]
           T == [serial_id |-> 0 .. 1, server_address |-> 1 .. 247]
<1>1. Limits["modbus_rtu_server"] = L
  BY SMT DEF Limits
<1>2. Admitted({"enable"}, T, L)
  <2>1. /\ DOMAIN T = {"serial_id", "server_address"}
        /\ DOMAIN L = {"enable", "serial_id", "server_address"}
    BY SMT
  <2>2. /\ T.serial_id \subseteq L.serial_id /\ T.server_address \subseteq L.server_address
    BY SMT
  <2>3. Flag \subseteq L.enable
    BY SMT
  <2> HIDE DEF T, L
  <2> QED
    BY <2>1, <2>2, <2>3, SMT DEF Admitted
<1>3. handle_set_modbus_server = Plain("modbus_rtu_server", {"enable"}, T)
  BY SMT DEF handle_set_modbus_server
<1> HIDE DEF L, T
<1> QED
  BY <1>1, <1>2, <1>3, PlainFits, SectionsAre

LEMMA TcpClientFits == Fits(handle_set_modbus_tcp_client)
<1> DEFINE L == [enable |-> Flag, remote_ip |-> Addresses, remote_port |-> Uint16]
           T == [remote_ip |-> Addresses, remote_port |-> Uint16 \ {0}]
<1>1. Limits["modbus_tcp_client"] = L
  BY SMT DEF Limits
<1>2. Admitted({"enable"}, T, L)
  <2>1. /\ DOMAIN T = {"remote_ip", "remote_port"}
        /\ DOMAIN L = {"enable", "remote_ip", "remote_port"}
    BY SMT
  <2>2. /\ T.remote_ip \subseteq L.remote_ip /\ T.remote_port \subseteq L.remote_port
    BY SMT
  <2>3. Flag \subseteq L.enable
    BY SMT
  <2> HIDE DEF T, L
  <2> QED
    BY <2>1, <2>2, <2>3, SMT DEF Admitted
<1>3. handle_set_modbus_tcp_client = Plain("modbus_tcp_client", {"enable"}, T)
  BY SMT DEF handle_set_modbus_tcp_client
<1> HIDE DEF L, T
<1> QED
  BY <1>1, <1>2, <1>3, PlainFits, SectionsAre

LEMMA TcpServerFits == Fits(handle_set_modbus_tcp_server)
<1> DEFINE L == [enable |-> Flag, port |-> Uint16, server_address |-> 0 .. 247]
           T == [port |-> Uint16 \ {0}, server_address |-> 1 .. 247]
<1>1. Limits["modbus_tcp_server"] = L
  BY SMT DEF Limits
<1>2. Admitted({"enable"}, T, L)
  <2>1. /\ DOMAIN T = {"port", "server_address"}
        /\ DOMAIN L = {"enable", "port", "server_address"}
    BY SMT
  <2>2. /\ T.port \subseteq L.port /\ T.server_address \subseteq L.server_address
    BY SMT
  <2>3. Flag \subseteq L.enable
    BY SMT
  <2> HIDE DEF T, L
  <2> QED
    BY <2>1, <2>2, <2>3, SMT DEF Admitted
<1>3. handle_set_modbus_tcp_server = Plain("modbus_tcp_server", {"enable"}, T)
  BY SMT DEF handle_set_modbus_tcp_server
<1> HIDE DEF L, T
<1> QED
  BY <1>1, <1>2, <1>3, PlainFits, SectionsAre

LEMMA MappedFits ==
  /\ Fits(handle_set_modbus_datapoint) /\ Fits(handle_set_modbus_tcp_datapoint)
  /\ Fits(handle_set_modbus_server_memory_block) /\ Fits(handle_set_modbus_tcp_server_memory_block)
<1>1. /\ ElementLimits["modbus_rtu_client"] = RequestLimits
      /\ ElementLimits["modbus_tcp_client"] = RequestLimits
      /\ ElementLimits["modbus_rtu_server"] = BlockLimits
      /\ ElementLimits["modbus_tcp_server"] = BlockLimits
  BY SMT DEF ElementLimits
<1>2. Admitted({"enabled"}, Request, RequestLimits)
  <2>1. /\ DOMAIN Request = {"slave_address", "data_type", "operation", "start_address", "count",
                        "encoding"}
        /\ DOMAIN RequestLimits = {"enabled", "slave_address", "data_type", "operation",
                                   "start_address", "count", "encoding"}
    BY SMT DEF Request, RequestLimits
  <2>2. /\ Request.slave_address \subseteq RequestLimits.slave_address
        /\ Request.data_type \subseteq RequestLimits.data_type
        /\ Request.operation \subseteq RequestLimits.operation
        /\ Request.start_address \subseteq RequestLimits.start_address
        /\ Request.count \subseteq RequestLimits.count
        /\ Request.encoding \subseteq RequestLimits.encoding
    BY SMT DEF Request, RequestLimits
  <2>3. Flag \subseteq RequestLimits.enabled
    BY SMT DEF Request, RequestLimits
  <2> QED
    BY <2>1, <2>2, <2>3, SMT DEF Admitted
<1>3. Admitted({"enabled", "writable"}, Block, BlockLimits)
  <2>1. /\ DOMAIN Block = {"data_type", "start_address", "count", "encoding"}
        /\ DOMAIN BlockLimits = {"enabled", "data_type", "writable", "start_address", "count",
                        "encoding"}
    BY SMT DEF Block, BlockLimits
  <2>2. /\ Block.data_type \subseteq BlockLimits.data_type
        /\ Block.start_address \subseteq BlockLimits.start_address
        /\ Block.count \subseteq BlockLimits.count
        /\ Block.encoding \subseteq BlockLimits.encoding
    BY SMT DEF Block, BlockLimits
  <2>3. Flag \subseteq BlockLimits.enabled /\ Flag \subseteq BlockLimits.writable
    BY SMT DEF Block, BlockLimits
  <2> QED
    BY <2>1, <2>2, <2>3, SMT DEF Admitted
<1> QED
  BY <1>1, <1>2, <1>3, MappingFits, SectionsAre
         DEF handle_set_modbus_datapoint, handle_set_modbus_tcp_datapoint,
             handle_set_modbus_server_memory_block, handle_set_modbus_tcp_server_memory_block

LEMMA AllFit == \A form \in predefined_set_cgi_processor \cup ConfigWrite : Fits(form)
BY NetworkFits, SerialFits, S2tcpFits, DeviceFits, RtuClientFits, RtuServerFits,
   TcpClientFits, TcpServerFits, MappedFits
   DEF predefined_set_cgi_processor, ConfigWrite

LEMMA GoodMeans ==
  ASSUME NEW s, NEW c
  PROVE  Good(s, c) <=> /\ c = [f \in DOMAIN c |-> c[f]]
                        /\ \A f \in DOMAIN c : /\ f \in Fields[s]
                                              /\ c[f] \in Int
                                              /\ Within(s, f, c[f])
BY DEF Good

\* What a request sets is in the section, and within its limits.
LEMMA EditsAreGood ==
  ASSUME NEW form, Fits(form), NEW element,
         IF form.keyed THEN element \in Element ELSE element = Header,
         NEW sent, sent \in [DOMAIN sent -> Int], DOMAIN sent \subseteq Params(form)
  PROVE  Good(form.section, Edits(form, element, sent))
<1> DEFINE s == form.section
           taken == {p \in DOMAIN sent : Taken(form, p, sent[p])}
           c == Edits(form, element, sent)
<1>1. /\ c = [f \in DOMAIN c |-> c[f]]
      /\ DOMAIN c = {<<element, p[1], p[2]>> : p \in taken}
      /\ \A f \in DOMAIN c : c[f] = Stored(form, <<f[2], f[3]>>, sent[<<f[2], f[3]>>])
  BY DEF Edits
<1>2. ASSUME NEW f \in DOMAIN c
      PROVE  f \in Fields[s] /\ c[f] \in Int /\ Within(s, f, c[f])
  <2>1. PICK p \in taken : f = <<element, p[1], p[2]>>
    BY <1>1
  <2>2. p \in Params(form) /\ sent[p] \in Int /\ Taken(form, p, sent[p])
    BY <2>1
  <2>3. s \in DOMAIN Limits /\ (form.keyed => s \in DOMAIN ElementLimits)
    BY DEF Fits
  <2>4. Header \notin Element
    BY DEF Header, Element
  <2>5. CASE \E n \in form.flags \cup DOMAIN form.takes : p = <<n, 0>>
    <3>1. PICK n \in form.flags \cup DOMAIN form.takes : p = <<n, 0>>
      BY <2>5
    <3>2. f[1] = element /\ f[2] = n /\ f = <<element, n, 0>> /\ n # "tag_handles"
      BY <2>1, <3>1 DEF Fits
    <3>3. c[f] = Stored(form, p, sent[p]) /\ p[1] = n
      BY <1>1, <2>1, <3>1
    <3>4. n \in DOMAIN LimitsOf(form) /\ c[f] \in Int /\ c[f] \in LimitsOf(form)[n]
      <4>1. CASE n \in form.flags
        BY <4>1, <3>3 DEF Fits, Stored, Flag
      <4>2. CASE n \notin form.flags
        BY <4>2, <3>1, <3>2, <3>3, <2>2 DEF Fits, Stored, Taken
      <4> QED
        BY <4>1, <4>2
    <3>5. CASE form.keyed
      <4>1. f \in Fields[s]
        BY <3>5, <3>2, <3>4, <2>3 DEF Fields, LimitsOf
      <4>2. Within(s, f, c[f])
        BY <3>5, <3>2, <3>4, <2>4 DEF Within, LimitsOf
      <4> QED
        BY <4>1, <4>2, <3>4
    <3>6. CASE ~form.keyed
      <4>1. f \in Fields[s]
        BY <3>6, <3>2, <3>4, <2>3 DEF Fields, LimitsOf
      <4>2. Within(s, f, c[f])
        BY <3>6, <3>2, <3>4 DEF Within, LimitsOf
      <4> QED
        BY <4>1, <4>2, <3>4
    <3> QED
      BY <3>5, <3>6
  <2>6. CASE form.mapped /\ \E k \in Position : p = <<"tag_handles", k>>
    <3>1. PICK k \in Position : p = <<"tag_handles", k>>
      BY <2>6
    <3>2. form.keyed /\ element \in Element
      BY <2>6 DEF Fits
    <3>3. f = <<element, "tag_handles", k>> /\ f[2] = "tag_handles"
      BY <2>1, <3>1
    <3>4. c[f] = sent[p] /\ sent[p] \in Uint8
      BY <1>1, <2>1, <2>2, <3>1 DEF Stored, Taken, Fits
    <3>5. f \in Fields[s]
      <4>1. f \in {<<e, "tag_handles", i>> : e \in Element, i \in Position}
        BY <3>1, <3>2, <3>3
      <4>2. {<<e, "tag_handles", i>> : e \in Element, i \in Position} \subseteq Fields[s]
        BY <3>2, <2>3 DEF Fields
      <4> QED
        BY <4>1, <4>2
    <3>6. f[1] # Header
      BY <3>2, <3>3, <2>4
    <3>7. Within(s, f, c[f])
      BY <3>3, <3>4, <3>6 DEF Within
    <3> QED
      BY <3>4, <3>5, <3>7, <2>2 DEF Uint8
  <2> QED
    BY <2>2, <2>5, <2>6 DEF Params
<1> QED
  BY <1>1, <1>2, GoodMeans

LEMMA NoFieldsAreGood == \A s : Good(s, NoFields)
<1>1. DOMAIN NoFields = {} /\ NoFields = [f \in DOMAIN NoFields |-> NoFields[f]]
  BY DEF NoFields
<1> QED
  BY <1>1, GoodMeans

\* An update stays good, and moves no other field.
LEMMA UpdatedIsGood ==
  ASSUME NEW s, NEW content, NEW edits, Good(s, content), Good(s, edits)
  PROVE  Good(s, Updated(s, content, edits))
<1> DEFINE to(f) == IF f \in DOMAIN edits THEN edits[f] ELSE content[f]
           D == {g \in DOMAIN content \cup DOMAIN edits : to(g) # Factory(s, g)}
<1>1. Updated(s, content, edits) = [f \in D |-> to(f)]
  BY DEF Updated
<1>2. ASSUME NEW f \in D
      PROVE  f \in Fields[s] /\ to(f) \in Int /\ Within(s, f, to(f))
  <2>1. CASE f \in DOMAIN edits
    <3>1. f \in Fields[s] /\ edits[f] \in Int /\ Within(s, f, edits[f])
      BY <2>1, GoodMeans
    <3>2. to(f) = edits[f]
      BY <2>1
    <3> QED
      BY <3>1, <3>2
  <2>2. CASE f \notin DOMAIN edits
    <3>1. f \in DOMAIN content
      BY <2>2
    <3>2. f \in Fields[s] /\ content[f] \in Int /\ Within(s, f, content[f])
      BY <3>1, GoodMeans
    <3>3. to(f) = content[f]
      BY <2>2
    <3> QED
      BY <3>2, <3>3
  <2> QED
    BY <2>1, <2>2
<1> DEFINE u == [f \in D |-> to(f)]
<1>3. DOMAIN u = D /\ u = [f \in DOMAIN u |-> u[f]] /\ \A f \in D : u[f] = to(f)
  OBVIOUS
<1> HIDE DEF u, D, to
<1> QED
  BY <1>1, <1>2, <1>3, GoodMeans DEF u

LEMMA ValueOfUpdated ==
  ASSUME NEW s, NEW content, NEW edits, NEW f
  PROVE  Value(s, Updated(s, content, edits), f)
           = IF f \in DOMAIN edits THEN edits[f] ELSE Value(s, content, f)
<1> DEFINE to(g) == IF g \in DOMAIN edits THEN edits[g] ELSE content[g]
           D == {g \in DOMAIN content \cup DOMAIN edits : to(g) # Factory(s, g)}
<1>1. Updated(s, content, edits) = [g \in D |-> to(g)]
  BY DEF Updated
<1>2. CASE f \in D
  <2>1. Value(s, Updated(s, content, edits), f) = to(f)
    BY <1>1, <1>2 DEF Value
  <2> QED
    BY <1>2, <2>1 DEF Value
<1>3. CASE f \notin D
  <2>1. Value(s, Updated(s, content, edits), f) = Factory(s, f)
    BY <1>1, <1>3 DEF Value
  <2> QED
    BY <1>3, <2>1 DEF Value
<1> QED
  BY <1>2, <1>3

LEMMA GoodIsNotErased ==
  ASSUME NEW s \in Sections, NEW c, Good(s, c)
  PROVE  c # Erased
<1>1. DOMAIN c \in SUBSET Fields[s] /\ c \in [DOMAIN c -> Int]
  BY DEF Good
<1> QED
  BY <1>1, ClientsAssumption

LEMMA EffectsAreGood ==
  ASSUME NEW x \in Posted \cup Written
  PROVE  x.section \in Sections /\ Good(x.section, x.edits)
<1>1. PICK r \in Requests \cup Commands :
        /\ IF r.form.keyed THEN r.element \in Element ELSE r.element = Header
        /\ x = [section |-> r.form.section, edits |-> Edits(r.form, r.element, r.sent)]
  BY DEF Posted, Written, Effects
<1>2. /\ r.form \in predefined_set_cgi_processor \cup ConfigWrite
      /\ DOMAIN r.sent \subseteq Params(r.form)
      /\ r.sent \in [DOMAIN r.sent -> Int]
  <2>1. CASE r \in Requests
    BY <2>1, ClientsAssumption
  <2>2. CASE r \in Commands
    BY <2>2, ClientsAssumption
  <2> QED
    BY <2>1, <2>2
<1>3. Fits(r.form)
  BY <1>2, AllFit
<1>4. Good(r.form.section, Edits(r.form, r.element, r.sent))
  BY <1>1, <1>2, <1>3, EditsAreGood
<1>5. r.form.section \in Sections
  BY <1>3, ClientsAssumption DEF Fits
<1> QED
  BY <1>1, <1>4, <1>5

LeaseEdits == [f \in LeaseFields \cup {Mode} |-> IF f = Mode THEN DHCP ELSE Leased]

LEMMA LeaseIsGood == "net_info" \in Sections /\ Good("net_info", LeaseEdits)
<1>1. /\ "net_info" \in Sections
      /\ "net_info" \in DOMAIN Limits
  BY ClientsAssumption, SectionsAre
<1>2. Limits["net_info"] = [mac |-> Addresses, ip |-> Addresses, sn |-> Addresses,
                            gw |-> Addresses, dns |-> Addresses, dhcp |-> Int]
  BY SMT DEF Limits
<1>3. ASSUME NEW n \in {"ip", "gw", "sn", "dns", "dhcp"}, NEW v \in Limits["net_info"][n]
      PROVE  /\ <<Header, n, 0>> \in Fields["net_info"]
             /\ Within("net_info", <<Header, n, 0>>, v)
  <2>1. n \in DOMAIN Limits["net_info"]
    BY <1>2
  <2>2. <<Header, n, 0>> \in Fields["net_info"]
    BY <1>1, <2>1 DEF Fields
  <2>3. <<Header, n, 0>>[1] = Header /\ <<Header, n, 0>>[2] = n /\ n # "tag_handles"
    OBVIOUS
  <2>4. Within("net_info", <<Header, n, 0>>, v)
    BY <2>3 DEF Within
  <2> QED
    BY <2>2, <2>4
<1>4. Leased \in Addresses /\ Leased \in Int /\ DHCP \in Int
  BY ClientsAssumption, FormsAssumption DEF DHCP
<1>5. ASSUME NEW f \in DOMAIN LeaseEdits
      PROVE  f \in Fields["net_info"] /\ LeaseEdits[f] \in Int
             /\ Within("net_info", f, LeaseEdits[f])
  <2>1. f \in LeaseFields \cup {Mode} /\ LeaseEdits[f] = IF f = Mode THEN DHCP ELSE Leased
    BY DEF LeaseEdits
  <2>2. CASE f = Mode
    BY <1>2, <1>3, <1>4, <2>1, <2>2 DEF Mode
  <2>3. CASE f # Mode
    <3>1. PICK n \in {"ip", "gw", "sn", "dns"} : f = <<Header, n, 0>>
      BY <2>1, <2>3 DEF LeaseFields
    <3>2. Leased \in Limits["net_info"][n]
      BY <1>2, <1>4
    <3> QED
      BY <1>3, <1>4, <2>1, <2>3, <3>1, <3>2
  <2> QED
    BY <2>2, <2>3
<1>6. LeaseEdits = [f \in DOMAIN LeaseEdits |-> LeaseEdits[f]]
  BY DEF LeaseEdits
<1> QED
  BY <1>1, <1>5, <1>6, GoodMeans

-----------------------------------------------------------------------------
(* Types *)

Body(b) == /\ b = [s \in Sections |-> b[s]]
           /\ \A s \in Sections : b[s] = Erased \/ Good(s, b[s])
Image(x) == /\ x = [version |-> x.version, body |-> x.body]
            /\ x.version \in BOOLEAN
            /\ Body(x.body)
Client(o) == /\ o = [do |-> o.do, section |-> o.section, edits |-> o.edits, read |-> o.read]
             /\ o.do \in {"nothing", "set", "save", "saving"}
             /\ o.section \in Sections
             /\ Good(o.section, o.edits) /\ Good(o.section, o.read)
StoreInv == /\ Body(cfg)
            /\ changed \in BOOLEAN
            /\ Image(buf) /\ Image(flash)
            /\ pc \in [Tasks -> {"idle"} \cup Saving \cup Writing]
OpsInv == /\ op = [t \in Tasks |-> op[t]]
          /\ \A t \in Tasks : Client(op[t])
TypeInv == StoreInv /\ OpsInv

LEMMA BodyOver ==
  ASSUME NEW part, NEW x, NEW y, Body(x), Body(y)
  PROVE  Body(Over(part, x, y))
BY DEF Body, Over

LEMMA ErasedIsImage == Image(ErasedImage)
BY DEF Image, ErasedImage, Body

LEMMA DefaultIsBody == Body(Default)
BY ClientsAssumption, NoFieldsAreGood DEF Body

LEMMA LoadedIsBody ==
  ASSUME NEW x, Image(x)
  PROVE  Body(Loaded(x))
BY DefaultIsBody DEF Image, Loaded

LEMMA IdleIsClient == Client(Idle)
<1>1. "device" \in Sections
  BY ClientsAssumption, SectionsAre
<1> QED
  BY <1>1, NoFieldsAreGood DEF Client, Idle

LEMMA ConfiguredIsBody == \A b \in Configured : Body(b)
<1> SUFFICES ASSUME NEW b \in Configured
             PROVE  Body(b)
  OBVIOUS
<1>1. b = [s \in Sections |-> b[s]]
  BY ConfigAssumption DEF IsWhole
<1>2. \A s \in Sections : Good(s, b[s])
  BY ClientsAssumption DEF Good
<1> QED
  BY <1>1, <1>2 DEF Body

LEMMA InitTyped == Init => TypeInv
<1> SUFFICES ASSUME Init
             PROVE  TypeInv
  OBVIOUS
<1>1. Image(flash)
  <2>1. CASE flash = ErasedImage
    BY <2>1, ErasedIsImage
  <2>2. CASE \E b \in Configured : flash = [version |-> TRUE, body |-> b]
    BY <2>2, ConfiguredIsBody DEF Image
  <2> QED
    BY <2>1, <2>2 DEF Init, ConfigInit
<1>2. Body(cfg) /\ changed \in BOOLEAN
  BY <1>1, LoadedIsBody DEF Init, ConfigInit, Image
<1>3. Image(buf) /\ pc \in [Tasks -> {"idle"} \cup Saving \cup Writing]
  BY ErasedIsImage DEF Init, ConfigInit
<1>4. OpsInv
  BY IdleIsClient DEF Init, OpsInv
<1> QED
  BY <1>1, <1>2, <1>3, <1>4 DEF TypeInv, StoreInv

LEMMA SaveKeepsStore ==
  ASSUME StoreInv, NEW t \in Tasks,
         SaveBegin(t) \/ SaveGoesOn(t) \/ SaveReturn(t)
  PROVE  StoreInv' /\ cfg' = cfg
<1> USE DEF StoreInv
<1>1. ASSUME NEW from, NEW to \in {"idle"} \cup Saving \cup Writing, Goto(t, from, to)
      PROVE  pc' \in [Tasks -> {"idle"} \cup Saving \cup Writing]
  BY <1>1 DEF Goto
<1> USE DEF Saving, Writing
<1>2. CASE SaveBegin(t)
  BY <1>1, <1>2 DEF SaveBegin
<1>3. CASE SaveFill(t)
  BY <1>1, <1>3, ErasedIsImage DEF SaveFill
<1>4. CASE SaveCopy(t)
  <2>1. Body(Over(FirstPage, cfg, buf.body))
    BY BodyOver DEF Image
  <2>2. Image(buf')
    BY <1>4, <2>1 DEF SaveCopy, Image
  <2> QED
    BY <1>1, <1>4, <2>2 DEF SaveCopy
<1>5. CASE SaveCopyRest(t)
  <2>1. Body(Over(Rest, cfg, buf.body))
    BY BodyOver DEF Image
  <2>2. Image(buf')
    BY <1>5, <2>1 DEF SaveCopyRest, Image
  <2> QED
    BY <1>1, <1>5, <2>2 DEF SaveCopyRest
<1>6. CASE SaveErase(t)
  BY <1>1, <1>6, ErasedIsImage DEF SaveErase
<1>7. CASE SaveFirstPage(t)
  <2>1. Body(Over(FirstPage, buf.body, flash.body))
    BY BodyOver DEF Image
  <2>2. Image(flash')
    BY <1>7, <2>1 DEF SaveFirstPage, Image
  <2> QED
    BY <1>1, <1>7, <2>2 DEF SaveFirstPage
<1>8. CASE SaveRest(t)
  <2>1. Body(Over(Rest, buf.body, flash.body))
    BY BodyOver DEF Image
  <2>2. Image(flash')
    BY <1>8, <2>1 DEF SaveRest, Image
  <2> QED
    BY <1>1, <1>8, <2>2 DEF SaveRest
<1>9. CASE SaveReturn(t)
  BY <1>1, <1>9 DEF SaveReturn
<1> QED
  BY <1>2, <1>3, <1>4, <1>5, <1>6, <1>7, <1>8, <1>9 DEF SaveGoesOn

LEMMA BeginKeepsOps ==
  ASSUME TypeInv, NEW t \in Tasks, NEW section \in Sections, NEW edits,
         Good(section, edits), Begin(t, section, edits)
  PROVE  OpsInv'
<1> DEFINE o == [do |-> "set", section |-> section, edits |-> edits, read |-> cfg[section]]
<1>1. Good(section, cfg[section])
  BY DEF Begin, TypeInv, StoreInv, Body
<1>2. Client(o)
  BY <1>1 DEF Client
<1>3. op' = [op EXCEPT ![t] = o]
  BY DEF Begin
<1> HIDE DEF o
<1> QED
  BY <1>2, <1>3 DEF TypeInv, OpsInv

LEMMA SetStores ==
  ASSUME TypeInv, NEW t \in Tasks, Set(t)
  PROVE  /\ cfg' = [cfg EXCEPT ![op[t].section] =
                      Updated(op[t].section, op[t].read, op[t].edits)]
         /\ Good(op[t].section, Updated(op[t].section, op[t].read, op[t].edits))
         /\ op[t].section \in Sections
         /\ TypeInv'
<1>1. Client(op[t])
  BY DEF TypeInv, OpsInv
<1>2. Good(op[t].section, Updated(op[t].section, op[t].read, op[t].edits))
  BY <1>1, UpdatedIsGood DEF Client
<1>3. /\ cfg' = [cfg EXCEPT ![op[t].section] =
                   Updated(op[t].section, op[t].read, op[t].edits)]
      /\ changed' \in BOOLEAN
      /\ UNCHANGED <<buf, flash, pc>>
  BY DEF Set, SetSection, TypeInv, StoreInv
<1>4. Body(cfg')
  BY <1>1, <1>2, <1>3 DEF TypeInv, StoreInv, Body, Client
<1>5. StoreInv'
  BY <1>3, <1>4 DEF TypeInv, StoreInv, Image, Body
<1>6. OpsInv'
  <2> DEFINE o == IF t = Web THEN [op[t] EXCEPT !.do = "save"] ELSE Idle
  <2>1. op' = [op EXCEPT ![t] = o]
    BY DEF Set
  <2>2. Client(o)
    BY <1>1, IdleIsClient DEF Client
  <2> HIDE DEF o
  <2> QED
    BY <2>1, <2>2 DEF TypeInv, OpsInv
<1> QED
  BY <1>1, <1>2, <1>3, <1>5, <1>6 DEF TypeInv, Client

LEMMA AnswerKeepsOps ==
  ASSUME OpsInv, NEW t \in Tasks, Answer(t)
  PROVE  OpsInv'
BY IdleIsClient DEF Answer, OpsInv

LEMMA StepTyped == TypeInv /\ [Next]_vars => TypeInv'
<1> SUFFICES ASSUME TypeInv, [Next]_vars
             PROVE  TypeInv'
  OBVIOUS
<1> USE DEF TypeInv
<1>a. ASSUME UNCHANGED configVars
      PROVE  StoreInv'
  BY <1>a DEF configVars, StoreInv, Body, Image
<1>1. ASSUME NEW x \in Posted, Post(x)
      PROVE  TypeInv'
  BY <1>1, <1>a, EffectsAreGood, BeginKeepsOps, ClientsAssumption DEF Post
<1>2. ASSUME NEW x \in Written, Write(x)
      PROVE  TypeInv'
  BY <1>2, <1>a, EffectsAreGood, BeginKeepsOps, ClientsAssumption DEF Write
<1>3. CASE Lease
  BY <1>3, <1>a, LeaseIsGood, BeginKeepsOps, ClientsAssumption DEF Lease, LeaseEdits
<1>4. ASSUME NEW t \in Tasks, Set(t)
      PROVE  TypeInv'
  BY <1>4, SetStores
<1>5. ASSUME NEW t \in Tasks, Save(t)
      PROVE  TypeInv'
  <2>1. StoreInv'
    BY <1>5, SaveKeepsStore DEF Save
  <2>2. OpsInv'
    BY <1>5 DEF Save, OpsInv, Client
  <2> QED
    BY <2>1, <2>2
<1>6. ASSUME NEW t \in Tasks, SaveGoesOn(t)
      PROVE  TypeInv'
  BY <1>6, SaveKeepsStore DEF SaveGoesOn, clientVars, OpsInv, Client
<1>7. ASSUME NEW t \in Tasks, SaveEnds(t)
      PROVE  TypeInv'
  BY <1>7, SaveKeepsStore, AnswerKeepsOps DEF SaveEnds
<1>8. CASE SaveSkipped
  BY <1>8, <1>a, AnswerKeepsOps, ClientsAssumption DEF SaveSkipped
<1>9. CASE Restart
  <2>1. Body(cfg') /\ changed' \in BOOLEAN /\ Image(buf') /\ Image(flash')
    BY <1>9, LoadedIsBody, ErasedIsImage DEF Restart, Reboot, StoreInv, Image
  <2>2. pc' \in [Tasks -> {"idle"} \cup Saving \cup Writing]
    BY <1>9 DEF Restart, Reboot
  <2>3. OpsInv'
    BY <1>9, IdleIsClient DEF Restart, OpsInv
  <2> QED
    BY <2>1, <2>2, <2>3 DEF StoreInv
<1>10. CASE UNCHANGED vars
  BY <1>10, <1>a DEF vars, clientVars, OpsInv, Client
<1> QED
  BY <1>1, <1>2, <1>3, <1>4, <1>5, <1>6, <1>7, <1>8, <1>9, <1>10 DEF Next

LEMMA AlwaysTyped == Spec => []TypeInv
BY InitTyped, StepTyped, PTL DEF Spec

(***************************************************************************)
(* Whatever forms and commands are sent, however the clients and their     *)
(* saves overlap, every field of the configuration stays within what its   *)
(* users rely on.  Of the DHCP mode and of the tag handles they rely on    *)
(* nothing, and the theorem says nothing of them: that a handle is one is  *)
(* the violated HandlesAreValid.                                           *)
(***************************************************************************)
THEOREM FieldsStayWithinLimits == Spec => []ClientsTypeOK
<1>1. TypeInv => ClientsTypeOK
  BY GoodMeans DEF TypeInv, StoreInv, OpsInv, Body, Client, ClientsTypeOK
<1> QED
  BY <1>1, AlwaysTyped, PTL

(***************************************************************************)
(* A setter changes a field that its request does not name only when the   *)
(* section was set by somebody else since it was read.                     *)
(***************************************************************************)
THEOREM UpdatesAreLostInOverlapsOnly == Spec => OverlapsOnly
<1> DEFINE KeepsRest(t) ==
      LET s == op[t].section
      IN  \A f \in Fields[s] : \/ Value(s, cfg'[s], f) = Value(s, cfg[s], f)
                               \/ f \in DOMAIN op[t].edits
                               \/ op[t].read # cfg[s]
<1>1. ASSUME TypeInv, NEW t \in Tasks, Set(t)
      PROVE  KeepsRest(t)
  <2> DEFINE s == op[t].section
  <2>1. cfg'[s] = Updated(s, op[t].read, op[t].edits)
    BY <1>1, SetStores DEF TypeInv, StoreInv, Body
  <2> QED
    BY <2>1, ValueOfUpdated
<1>2. TypeInv => [\A t \in Tasks : Set(t) => KeepsRest(t)]_vars
  BY <1>1
<1> HIDE DEF KeepsRest
<1>3. Spec => [][\A t \in Tasks : Set(t) => KeepsRest(t)]_vars
  BY <1>2, AlwaysTyped, PTL
<1> QED
  BY <1>3 DEF KeepsRest, OverlapsOnly

-----------------------------------------------------------------------------
(* Saves that overlap *)

Written1(b) == \A s \in FirstPage : b[s] # Erased
WrittenRest(b) == \A s \in Rest : b[s] # Erased
AtWork(places) == \E t \in Tasks : pc[t] \in places

\* The last of several saves ends well: a buffer that is not filled has
\* somebody who will fill it, and a flash that is not whole somebody who
\* will write it again.
Unless == AtWork({"copy", "copy_rest", "request", "erased", "first_page"})
SettleInv ==
  /\ \A s \in Sections : cfg[s] # Erased
  /\ AtWork({"copy_rest", "request", "erased", "first_page"})
       => (buf.version /\ Written1(buf.body)) \/ AtWork({"copy"})
  /\ AtWork({"request", "erased", "first_page"})
       => WrittenRest(buf.body) \/ AtWork({"copy", "copy_rest"})
  /\ AtWork({"first_page"})
       => (flash.version /\ Written1(flash.body)) \/ AtWork({"copy"})
  /\ \/ Whole(flash)
     \/ Unless
     \/ flash = ErasedImage /\ changed /\ \A t \in Tasks : pc[t] \in {"idle", "fill"}

\* One task at most has the flash.
HasFlash(t) == pc[t] \in {"erased", "first_page"}
OneWriter == \A t, u \in Tasks : HasFlash(t) /\ HasFlash(u) => t = u

SettlingInv == ~cut => SettleInv /\ OneWriter

LEMMA GoodBodyIsWhole ==
  ASSUME NEW b, Body(b), \A s \in Sections : Good(s, b[s])
  PROVE  \A s \in Sections : b[s] # Erased
BY GoodIsNotErased

LEMMA InitSettled == Init => SettleInv /\ OneWriter
<1> SUFFICES ASSUME Init
             PROVE  SettleInv /\ OneWriter
  OBVIOUS
<1>1. \A t \in Tasks : pc[t] = "idle"
  BY DEF Init, ConfigInit
<1>2. \A s \in Sections : Default[s] # Erased
  BY ClientsAssumption, NoFieldsAreGood, GoodIsNotErased
<1>3. CASE flash = ErasedImage
  <2>1. cfg = Default /\ changed
    BY <1>3 DEF Init, ConfigInit, Loaded, ErasedImage
  <2> QED
    BY <1>1, <1>2, <1>3, <2>1 DEF SettleInv, OneWriter, HasFlash, AtWork, Unless
<1>4. CASE \E b \in Configured : flash = [version |-> TRUE, body |-> b]
  <2>1. PICK b \in Configured : flash = [version |-> TRUE, body |-> b]
    BY <1>4
  <2>2. \A s \in Sections : b[s] # Erased
    BY ClientsAssumption
  <2>3. cfg = b /\ Whole(flash)
    BY <2>1, <2>2 DEF Init, ConfigInit, Loaded, Whole
  <2> QED
    BY <1>1, <2>2, <2>3 DEF SettleInv, OneWriter, HasFlash, AtWork, Unless
<1> QED
  BY <1>3, <1>4 DEF Init, ConfigInit

\* A step of one task from one place to another.
LEMMA Moves ==
  ASSUME StoreInv, NEW t \in Tasks, NEW from, NEW to, Goto(t, from, to)
  PROVE  /\ pc[t] = from /\ pc'[t] = to
         /\ \A u \in Tasks \ {t} : pc'[u] = pc[u]
BY DEF Goto, StoreInv

LEMMA SaveSettles ==
  ASSUME StoreInv, SettleInv, OneWriter, NEW t \in Tasks,
         SaveBegin(t) \/ SaveGoesOn(t) \/ SaveReturn(t)
  PROVE  SettleInv' /\ OneWriter'
<1> USE DEF OneWriter, HasFlash, AtWork
<1>0. cfg' = cfg
  BY SaveKeepsStore
<1>1. CASE SaveBegin(t)
  <2>1. pc[t] = "idle" /\ pc'[t] = "fill" /\ \A u \in Tasks \ {t} : pc'[u] = pc[u]
    BY <1>1, Moves DEF SaveBegin
  <2>2. UNCHANGED <<cfg, changed, buf, flash>>
    BY <1>1 DEF SaveBegin
  <2> QED
    BY <2>1, <2>2 DEF SettleInv, Unless
<1>2. CASE SaveFill(t)
  <2>1. pc[t] = "fill" /\ pc'[t] = "copy" /\ \A u \in Tasks \ {t} : pc'[u] = pc[u]
    BY <1>2, Moves DEF SaveFill
  <2>2. UNCHANGED <<cfg, changed, flash>>
    BY <1>2 DEF SaveFill
  <2> QED
    BY <2>1, <2>2 DEF SettleInv, Unless
<1>3. CASE SaveCopy(t)
  <2>1. pc[t] = "copy" /\ pc'[t] = "copy_rest" /\ \A u \in Tasks \ {t} : pc'[u] = pc[u]
    BY <1>3, Moves DEF SaveCopy
  <2>2. UNCHANGED <<cfg, changed, flash>> /\ ~Busy
    BY <1>3 DEF SaveCopy
  <2>3. buf'.version /\ Written1(buf'.body)
    BY <1>3, ConfigAssumption DEF SaveCopy, Over, Written1, SettleInv
  <2> QED
    BY <2>1, <2>2, <2>3 DEF SettleInv, Unless, Busy
<1>4. CASE SaveCopyRest(t)
  <2>1. pc[t] = "copy_rest" /\ pc'[t] = "request" /\ \A u \in Tasks \ {t} : pc'[u] = pc[u]
    BY <1>4, Moves DEF SaveCopyRest
  <2>2. UNCHANGED <<cfg, changed, flash>>
    BY <1>4 DEF SaveCopyRest
  <2>3. buf' = [version |-> buf.version, body |-> Over(Rest, cfg, buf.body)]
    BY <1>4 DEF SaveCopyRest, StoreInv, Image
  <2>4. WrittenRest(buf'.body) /\ (Written1(buf.body) => Written1(buf'.body))
    BY <2>3, ConfigAssumption DEF Over, Written1, WrittenRest, Rest, SettleInv
  <2> QED
    BY <2>1, <2>2, <2>3, <2>4 DEF SettleInv, Unless
<1>5. CASE SaveErase(t)
  <2>1. pc[t] = "request" /\ pc'[t] = "erased" /\ \A u \in Tasks \ {t} : pc'[u] = pc[u]
    BY <1>5, Moves DEF SaveErase
  <2>2. UNCHANGED <<cfg, changed, buf>> /\ ~Busy
    BY <1>5 DEF SaveErase
  <2> QED
    BY <2>1, <2>2 DEF SettleInv, Unless, Busy
<1>6. CASE SaveFirstPage(t)
  <2>1. pc[t] = "erased" /\ pc'[t] = "first_page" /\ \A u \in Tasks \ {t} : pc'[u] = pc[u]
    BY <1>6, Moves DEF SaveFirstPage
  <2>2. UNCHANGED <<cfg, changed, buf>>
    BY <1>6 DEF SaveFirstPage
  <2>3. (buf.version /\ Written1(buf.body)) => (flash'.version /\ Written1(flash'.body))
    BY <1>6, ConfigAssumption DEF SaveFirstPage, Over, Written1
  <2> QED
    BY <2>1, <2>2, <2>3 DEF SettleInv, Unless
<1>7. CASE SaveRest(t)
  <2>1. pc[t] = "first_page" /\ pc'[t] = "written" /\ \A u \in Tasks \ {t} : pc'[u] = pc[u]
    BY <1>7, Moves DEF SaveRest
  <2>2. UNCHANGED <<cfg, changed, buf>>
    BY <1>7 DEF SaveRest
  <2>3. flash' = [version |-> flash.version, body |-> Over(Rest, buf.body, flash.body)]
    BY <1>7 DEF SaveRest, StoreInv, Image
  <2>4. flash.version /\ Written1(flash.body) /\ WrittenRest(buf.body) => Whole(flash')
    BY <2>3, ConfigAssumption DEF Over, Written1, WrittenRest, Rest, Whole
  <2> QED
    BY <2>1, <2>2, <2>4 DEF SettleInv, Unless
<1>8. CASE SaveReturn(t)
  <2>1. pc[t] = "written" /\ pc'[t] = "idle" /\ \A u \in Tasks \ {t} : pc'[u] = pc[u]
    BY <1>8, Moves DEF SaveReturn
  <2>2. UNCHANGED <<cfg, buf, flash>>
    BY <1>8 DEF SaveReturn
  <2> QED
    BY <2>1, <2>2 DEF SettleInv, Unless
<1> QED
  BY <1>1, <1>2, <1>3, <1>4, <1>5, <1>6, <1>7, <1>8 DEF SaveGoesOn

LEMMA StepSettles == TypeInv /\ SettlingInv /\ [Next]_vars => SettlingInv'
<1> SUFFICES ASSUME TypeInv, SettlingInv, [Next]_vars, ~cut'
             PROVE  SettleInv' /\ OneWriter'
  BY DEF SettlingInv
<1>0. ASSUME UNCHANGED configVars, UNCHANGED cut
      PROVE  SettleInv' /\ OneWriter'
  BY <1>0 DEF configVars, SettlingInv, SettleInv, OneWriter, HasFlash, AtWork, Unless, Whole
<1>1. ASSUME NEW t \in Tasks, Set(t)
      PROVE  SettleInv' /\ OneWriter'
  <2>1. /\ cfg' = [cfg EXCEPT ![op[t].section] =
                     Updated(op[t].section, op[t].read, op[t].edits)]
        /\ Updated(op[t].section, op[t].read, op[t].edits) # Erased
    BY <1>1, SetStores, GoodIsNotErased
  <2>2. UNCHANGED <<buf, flash, pc, cut>> /\ (changed => changed')
    BY <1>1 DEF Set, SetSection
  <2>3. \A s \in Sections : cfg[s] # Erased => cfg'[s] # Erased
    BY <2>1 DEF TypeInv, StoreInv, Body
  <2> QED
    BY <2>2, <2>3 DEF SettlingInv, SettleInv, OneWriter, HasFlash, AtWork, Unless
<1>2. ASSUME NEW t \in Tasks, SaveBegin(t) \/ SaveGoesOn(t) \/ SaveReturn(t), UNCHANGED cut
      PROVE  SettleInv' /\ OneWriter'
  BY <1>2, SaveSettles DEF SettlingInv, TypeInv
<1>3. CASE Restart
  <2>1. ~cut /\ Quiet
    BY <1>3 DEF Restart
  <2>2. /\ cfg' = Loaded(flash) /\ changed' = ~flash.version
        /\ flash' = flash /\ \A t \in Tasks : pc'[t] = "idle"
    BY <1>3 DEF Restart, Reboot
  <2>3. Whole(flash) \/ flash = ErasedImage
    BY <2>1 DEF SettlingInv, SettleInv, Unless, AtWork, Quiet
  <2>4. \A s \in Sections : Default[s] # Erased
    BY ClientsAssumption, NoFieldsAreGood, GoodIsNotErased
  <2>5. \A s \in Sections : cfg'[s] # Erased
    <3>1. CASE Whole(flash)
      BY <3>1, <2>2 DEF Loaded, Whole
    <3>2. CASE flash = ErasedImage
      BY <3>2, <2>2, <2>4 DEF Loaded, ErasedImage
    <3> QED
      BY <2>3, <3>1, <3>2
  <2>6. Whole(flash') \/ (flash' = ErasedImage /\ changed')
    <3>1. CASE Whole(flash)
      BY <3>1, <2>2
    <3>2. CASE flash = ErasedImage
      <4>1. flash.version = FALSE
        BY <3>2 DEF ErasedImage
      <4> QED
        BY <3>2, <4>1, <2>2
    <3> QED
      BY <2>3, <3>1, <3>2
  <2> QED
    BY <2>2, <2>5, <2>6 DEF SettleInv, OneWriter, HasFlash, AtWork, Unless
<1>4. CASE (\E x \in Posted : Post(x)) \/ (\E x \in Written : Write(x)) \/ Lease
           \/ SaveSkipped \/ UNCHANGED vars
  BY <1>0, <1>4 DEF Post, Write, Lease, SaveSkipped, Answer, vars, clientVars
<1>5. CASE \E t \in Tasks : Save(t) \/ SaveGoesOn(t) \/ SaveEnds(t)
  BY <1>2, <1>5 DEF Save, SaveGoesOn, SaveEnds, Answer, clientVars
<1> QED
  BY <1>1, <1>3, <1>4, <1>5 DEF Next

(***************************************************************************)
(* However many saves go through the one buffer at once, when the last of  *)
(* them has returned the flash holds a whole image.                        *)
(***************************************************************************)
THEOREM OverlappingSavesSettle == Spec => []ClientsSettle
<1>1. Init => SettlingInv
  BY InitSettled DEF SettlingInv
<1>2. SettlingInv => ClientsSettle
  BY DEF SettlingInv, SettleInv, ClientsSettle, SettlesWhole, Quiet, Unless, AtWork
<1> QED
  BY <1>1, <1>2, StepSettles, AlwaysTyped, PTL DEF Spec

-----------------------------------------------------------------------------
(* The forms alone *)

WatchdogOnly == Restarts \subseteq {"watchdog"}

Holds(b, sf) == b[sf[1]] # Erased /\ Value(sf[1], b[sf[1]], sf[2]) = saved[sf]
IsCopy(x) == x.version /\ x.body = cfg
FirstIsCopy(x) == x.version /\ \A s \in FirstPage : x.body[s] = cfg[s]

\* The form in hand: what it read is still there until it sets the section,
\* and what it set until it answers.
FormInv ==
  /\ \A t \in Tasks \ {Web} : pc[t] = "idle"
  /\ op[Web].do = "saving" <=> pc[Web] # "idle"
  /\ op[Web].do = "nothing" => op[Web].edits = NoFields
  /\ op[Web].do = "set" => op[Web].read = cfg[op[Web].section]
  /\ op[Web].do \in {"save", "saving"} =>
       \A f \in DOMAIN op[Web].edits :
         Value(op[Web].section, cfg[op[Web].section], f) = op[Web].edits[f]

\* A save copies the configuration as it stays until the save returns.
CopyInv ==
  /\ \A s \in Sections : cfg[s] # Erased
  /\ pc[Web] = "copy_rest" => FirstIsCopy(buf)
  /\ pc[Web] \in {"request", "erased", "first_page"} => IsCopy(buf)
  /\ pc[Web] = "first_page" => FirstIsCopy(flash)
  /\ pc[Web] = "written" => IsCopy(flash)
  /\ pc[Web] = "idle" /\ ~changed => IsCopy(flash)
  /\ pc[Web] \notin {"erased", "first_page"} => flash = ErasedImage \/ Whole(flash)

\* What was saved is in the configuration, but for what the form in hand
\* edits, and in flash until the flash is written again.
KeptInv ==
  /\ \A sf \in DOMAIN saved : sf = <<sf[1], sf[2]>> /\ sf[1] \in Sections
  /\ \A sf \in DOMAIN saved \ Edited(Web) : Holds(cfg, sf)
  /\ pc[Web] \notin {"erased", "first_page", "written"} =>
       \A sf \in DOMAIN saved : Holds(flash.body, sf)

AloneInv == ~mixed => FormInv /\ CopyInv /\ KeptInv

LEMMA InitAlone == Init => AloneInv
<1> SUFFICES ASSUME Init
             PROVE  FormInv /\ CopyInv /\ KeptInv
  BY DEF AloneInv
<1>1. /\ \A t \in Tasks : pc[t] = "idle" /\ op[t] = Idle
      /\ Web \in Tasks
      /\ DOMAIN saved = {}
  BY ClientsAssumption DEF Init, ConfigInit, NoFields
<1>2. FormInv /\ KeptInv
  BY <1>1 DEF FormInv, KeptInv, Idle
<1>3. SettleInv
  BY InitSettled
<1>4. \A s \in Sections : cfg[s] # Erased
  BY <1>3 DEF SettleInv
<1>5. flash = ErasedImage \/ Whole(flash)
  BY <1>1, <1>3 DEF SettleInv, Unless, AtWork
<1>6. ~changed => IsCopy(flash)
  BY DEF Init, ConfigInit, Loaded, IsCopy, ErasedImage
<1> QED
  BY <1>1, <1>2, <1>4, <1>5, <1>6 DEF CopyInv

\* Steps that leave the store and the form in hand alone.
LEMMA OthersKeepAlone ==
  ASSUME AloneInv, UNCHANGED configVars, op'[Web] = op[Web], saved' = saved, mixed' = mixed
  PROVE  AloneInv'
<1>1. UNCHANGED <<cfg, changed, buf, flash, pc>>
  BY DEF configVars
<1> QED
  BY <1>1 DEF AloneInv, FormInv, CopyInv, KeptInv, Holds, IsCopy, FirstIsCopy, Edited, Whole

LEMMA PostKeepsAlone ==
  ASSUME TypeInv, AloneInv, NEW x \in Posted, Post(x)
  PROVE  AloneInv'
<1> SUFFICES ASSUME ~mixed'
             PROVE  FormInv' /\ CopyInv' /\ KeptInv'
  BY DEF AloneInv
<1>1. FormInv /\ CopyInv /\ KeptInv
  BY DEF Post, AloneInv
<1>2. UNCHANGED <<cfg, changed, buf, flash, pc, saved>>
  BY DEF Post, configVars
<1>3. Web \in Tasks /\ op[Web].do = "nothing" /\ pc[Web] = "idle"
  BY ClientsAssumption DEF Post, Free
<1>4. op'[Web] = [do |-> "set", section |-> x.section, edits |-> x.edits,
                  read |-> cfg[x.section]]
  BY <1>3 DEF Post, Begin, TypeInv, OpsInv
<1>5. FormInv'
  BY <1>1, <1>2, <1>3, <1>4 DEF FormInv
<1>6. CopyInv'
  BY <1>1, <1>2 DEF CopyInv, IsCopy, FirstIsCopy, Whole
<1>7. KeptInv'
  <2>1. Edited(Web) = {}
    BY <1>1, <1>3 DEF FormInv, Edited, NoFields
  <2> QED
    BY <1>1, <1>2, <2>1 DEF KeptInv, Holds
<1> QED
  BY <1>5, <1>6, <1>7

LEMMA SetKeepsAlone ==
  ASSUME TypeInv, AloneInv, NEW t \in Tasks, Set(t)
  PROVE  AloneInv'
<1> SUFFICES ASSUME ~mixed'
             PROVE  FormInv' /\ CopyInv' /\ KeptInv'
  BY DEF AloneInv
<1> DEFINE s == op[Web].section
           v == Updated(s, op[Web].read, op[Web].edits)
<1>1. t = Web /\ ~mixed /\ FormInv /\ CopyInv /\ KeptInv
  BY DEF Set, AloneInv
<1>2. /\ op[Web].do = "set" /\ op[Web].read = cfg[s]
      /\ pc[Web] = "idle"
  BY <1>1 DEF Set, SetSection, FormInv
<1>3. /\ cfg' = [cfg EXCEPT ![s] = v] /\ v # Erased /\ s \in Sections
      /\ changed' = (changed \/ s \in Uncompared \/ cfg[s] # v)
      /\ UNCHANGED <<buf, flash, pc, saved>>
  BY <1>1, SetStores, GoodIsNotErased DEF Set, SetSection
<1>4. cfg' = [r \in Sections |-> IF r = s THEN v ELSE cfg[r]]
  BY <1>3 DEF TypeInv, StoreInv, Body
<1>5. op'[Web] = [op[Web] EXCEPT !.do = "save"]
  BY <1>1 DEF Set, TypeInv, OpsInv
<1>6. /\ op'[Web].do = "save" /\ op'[Web].section = s /\ op'[Web].edits = op[Web].edits
  BY <1>1, <1>5 DEF TypeInv, OpsInv, Client
<1>7. \A f \in DOMAIN op[Web].edits : Value(s, cfg'[s], f) = op[Web].edits[f]
  BY <1>3, <1>4, ValueOfUpdated
<1>8. FormInv'
  BY <1>1, <1>2, <1>3, <1>6, <1>7 DEF FormInv
<1>9. CopyInv'
  <2>1. ~changed' => cfg' = cfg /\ ~changed
    BY <1>3, <1>4 DEF TypeInv, StoreInv, Body
  <2>2. \A r \in Sections : cfg'[r] # Erased
    BY <1>1, <1>3, <1>4 DEF CopyInv
  <2> QED
    BY <1>1, <1>2, <1>3, <2>1, <2>2 DEF CopyInv, IsCopy, FirstIsCopy, Whole
<1>10. KeptInv'
  <2>1. Edited(Web)' = Edited(Web)
    BY <1>6 DEF Edited
  <2>2. ASSUME NEW sf \in DOMAIN saved \ Edited(Web)
        PROVE  Holds(cfg, sf)'
    <3>1. Holds(cfg, sf) /\ sf[1] \in Sections
      BY <1>1 DEF KeptInv
    <3>2. CASE sf[1] # s
      BY <1>3, <1>4, <3>1, <3>2 DEF Holds
    <3>3. CASE sf[1] = s
      <4>1. Value(s, v, sf[2]) = IF sf[2] \in DOMAIN op[Web].edits THEN op[Web].edits[sf[2]]
                                 ELSE Value(s, cfg[s], sf[2])
        BY <1>2, ValueOfUpdated
      <4>2. sf[2] \notin DOMAIN op[Web].edits
        BY <3>3, <2>2, <1>1 DEF Edited, KeptInv
      <4> QED
        BY <1>3, <1>4, <3>1, <3>3, <4>1, <4>2 DEF Holds
    <3> QED
      BY <3>2, <3>3
  <2> QED
    BY <1>1, <1>3, <2>1, <2>2 DEF KeptInv, Holds
<1> QED
  BY <1>8, <1>9, <1>10

\* Web is the only task inside a save.
LEMMA SaveKeepsAlone ==
  ASSUME TypeInv, FormInv, CopyInv, KeptInv, NEW t \in Tasks, SaveGoesOn(t)
  PROVE  FormInv' /\ CopyInv' /\ KeptInv'
<1> USE DEF IsCopy, FirstIsCopy, Whole
<1>0. UNCHANGED clientVars /\ StoreInv
  BY DEF SaveGoesOn, TypeInv
<1>a. UNCHANGED <<op, saved>> /\ Edited(Web)' = Edited(Web) /\ Web \in Tasks
  BY <1>0, ClientsAssumption DEF clientVars, Edited
<1>b. ASSUME NEW from, NEW to, Goto(t, from, to), from # "idle", to # "idle", UNCHANGED cfg
      PROVE  /\ pc[Web] = from /\ pc'[Web] = to
             /\ FormInv'
  <2>1. pc[t] = from /\ pc'[t] = to /\ \A u \in Tasks \ {t} : pc'[u] = pc[u]
    BY <1>0, <1>b, Moves
  <2>2. t = Web
    BY <1>b, <2>1 DEF FormInv
  <2> QED
    BY <1>a, <1>b, <2>1, <2>2 DEF FormInv
<1>c. \A sf \in DOMAIN saved :
        /\ (cfg' = cfg => (Holds(cfg, sf) <=> Holds(cfg, sf)'))
        /\ (flash' = flash => (Holds(flash.body, sf) <=> Holds(flash.body, sf)'))
  BY <1>a DEF Holds
<1>1. CASE SaveFill(t)
  <2>1. UNCHANGED <<cfg, changed, flash>>
    BY <1>1 DEF SaveFill
  <2>2. pc[Web] = "fill" /\ pc'[Web] = "copy" /\ FormInv'
    BY <1>1, <1>b DEF SaveFill
  <2>3. CopyInv'
    BY <2>1, <2>2 DEF CopyInv
  <2>4. KeptInv'
    BY <1>a, <1>c, <2>1, <2>2 DEF KeptInv
  <2> QED
    BY <2>2, <2>3, <2>4
<1>2. CASE SaveCopy(t)
  <2>1. UNCHANGED <<cfg, changed, flash>>
    BY <1>2 DEF SaveCopy
  <2>2. pc[Web] = "copy" /\ pc'[Web] = "copy_rest" /\ FormInv'
    BY <1>2, <1>b DEF SaveCopy
  <2>3. FirstIsCopy(buf)'
    BY <1>2, <2>1, ConfigAssumption DEF SaveCopy, Over
  <2>4. CopyInv'
    BY <2>1, <2>2, <2>3 DEF CopyInv
  <2>5. KeptInv'
    BY <1>a, <1>c, <2>1, <2>2 DEF KeptInv
  <2> QED
    BY <2>2, <2>4, <2>5
<1>3. CASE SaveCopyRest(t)
  <2>1. UNCHANGED <<cfg, changed, flash>>
    BY <1>3 DEF SaveCopyRest
  <2>2. pc[Web] = "copy_rest" /\ pc'[Web] = "request" /\ FormInv'
    BY <1>3, <1>b DEF SaveCopyRest
  <2>3. buf' = [version |-> buf.version, body |-> Over(Rest, cfg, buf.body)]
    BY <1>0, <1>3 DEF SaveCopyRest, StoreInv, Image
  <2>4. Over(Rest, cfg, buf.body) = cfg
    BY <1>0, <2>2, ConfigAssumption DEF Over, Rest, CopyInv, StoreInv, Body
  <2>5. IsCopy(buf)'
    BY <2>1, <2>2, <2>3, <2>4 DEF CopyInv
  <2>6. CopyInv'
    BY <2>1, <2>2, <2>5 DEF CopyInv
  <2>7. KeptInv'
    BY <1>a, <1>c, <2>1, <2>2 DEF KeptInv
  <2> QED
    BY <2>2, <2>6, <2>7
<1>4. CASE SaveErase(t)
  <2>1. UNCHANGED <<cfg, changed, buf>>
    BY <1>4 DEF SaveErase
  <2>2. pc[Web] = "request" /\ pc'[Web] = "erased" /\ FormInv'
    BY <1>4, <1>b DEF SaveErase
  <2>3. CopyInv'
    BY <2>1, <2>2 DEF CopyInv
  <2>4. KeptInv'
    BY <1>a, <1>c, <2>1, <2>2 DEF KeptInv
  <2> QED
    BY <2>2, <2>3, <2>4
<1>5. CASE SaveFirstPage(t)
  <2>1. UNCHANGED <<cfg, changed, buf>>
    BY <1>5 DEF SaveFirstPage
  <2>2. pc[Web] = "erased" /\ pc'[Web] = "first_page" /\ FormInv'
    BY <1>5, <1>b, <2>1 DEF SaveFirstPage
  <2>3. FirstIsCopy(flash)'
    BY <1>5, <2>1, <2>2, ConfigAssumption DEF SaveFirstPage, Over, CopyInv
  <2>4. CopyInv'
    BY <2>1, <2>2, <2>3 DEF CopyInv
  <2>5. KeptInv'
    BY <1>a, <1>c, <2>1, <2>2 DEF KeptInv
  <2> QED
    BY <2>2, <2>4, <2>5
<1>6. CASE SaveRest(t)
  <2>1. UNCHANGED <<cfg, changed, buf>>
    BY <1>6 DEF SaveRest
  <2>2. pc[Web] = "first_page" /\ pc'[Web] = "written" /\ FormInv'
    BY <1>6, <1>b, <2>1 DEF SaveRest
  <2>3. flash' = [version |-> flash.version, body |-> Over(Rest, buf.body, flash.body)]
    BY <1>0, <1>6 DEF SaveRest, StoreInv, Image
  <2>4. Over(Rest, buf.body, flash.body) = cfg
    BY <1>0, <2>2, ConfigAssumption DEF Over, Rest, CopyInv, StoreInv, Body
  <2>5. IsCopy(flash)'
    BY <2>1, <2>2, <2>3, <2>4 DEF CopyInv
  <2>6. CopyInv'
    BY <2>1, <2>2, <2>5 DEF CopyInv
  <2>7. KeptInv'
    BY <1>a, <1>c, <2>1, <2>2 DEF KeptInv
  <2> QED
    BY <2>2, <2>6, <2>7
<1> QED
  BY <1>1, <1>2, <1>3, <1>4, <1>5, <1>6 DEF SaveGoesOn

\* A form is answered when the flash holds the configuration.
LEMMA AnswerKeepsAlone ==
  ASSUME TypeInv, FormInv, CopyInv, KeptInv, Answer(Web), IsCopy(flash),
         op[Web].do \in {"save", "saving"},
         UNCHANGED <<cfg, buf, flash>>, pc'[Web] = "idle",
         \A t \in Tasks \ {Web} : pc'[t] = "idle"
  PROVE  FormInv' /\ CopyInv' /\ KeptInv'
<1>1. Web \in Tasks /\ op'[Web] = Idle /\ op[Web].section \in Sections
  BY ClientsAssumption DEF Answer, TypeInv, OpsInv, Client
<1>2. FormInv'
  BY <1>1 DEF FormInv, Idle
<1>3. CopyInv'
  BY DEF CopyInv, IsCopy, FirstIsCopy, Whole
<1>4. /\ DOMAIN saved' = DOMAIN saved \cup Edited(Web)
      /\ \A sf \in DOMAIN saved' :
           saved'[sf] = IF sf \in Edited(Web) THEN op[Web].edits[sf[2]] ELSE saved[sf]
  BY DEF Answer
<1>5. ASSUME NEW sf \in DOMAIN saved'
      PROVE  sf = <<sf[1], sf[2]>> /\ sf[1] \in Sections /\ Holds(cfg, sf)'
  <2>1. CASE sf \in Edited(Web)
    <3>1. sf = <<sf[1], sf[2]>> /\ sf[1] = op[Web].section /\ sf[2] \in DOMAIN op[Web].edits
      BY <2>1 DEF Edited
    <3>2. cfg[sf[1]] # Erased /\ Value(sf[1], cfg[sf[1]], sf[2]) = op[Web].edits[sf[2]]
      BY <1>1, <3>1 DEF FormInv, CopyInv
    <3> QED
      BY <1>1, <1>4, <1>5, <2>1, <3>1, <3>2 DEF Holds
  <2>2. CASE sf \notin Edited(Web)
    <3>1. sf \in DOMAIN saved /\ Holds(cfg, sf) /\ saved'[sf] = saved[sf]
      BY <1>4, <1>5, <2>2 DEF KeptInv
    <3> QED
      BY <3>1 DEF KeptInv, Holds
  <2> QED
    BY <2>1, <2>2
<1>6. KeptInv'
  <2>1. flash'.body = cfg'
    BY DEF IsCopy
  <2> QED
    BY <1>5, <2>1 DEF KeptInv, Holds
<1> QED
  BY <1>2, <1>3, <1>6

\* Without power failures a restart finds the flash whole.
LEMMA RestartKeepsAlone ==
  ASSUME WatchdogOnly, TypeInv, AloneInv, Restart
  PROVE  AloneInv'
<1> SUFFICES ASSUME ~mixed'
             PROVE  FormInv' /\ CopyInv' /\ KeptInv'
  BY DEF AloneInv
<1>1. FormInv /\ CopyInv /\ KeptInv
  BY DEF Restart, AloneInv
<1>2. /\ ~Busy /\ flash' = flash /\ cfg' = Loaded(flash) /\ changed' = ~flash.version
      /\ pc' = [t \in Tasks |-> "idle"]
      /\ op' = [t \in Tasks |-> Idle]
  BY DEF Restart, Reboot, WatchdogOnly
<1>3. Web \in Tasks /\ pc[Web] \notin {"erased", "first_page"} /\ pc'[Web] = "idle"
  BY <1>2, ClientsAssumption DEF Busy
<1>4. flash = ErasedImage \/ Whole(flash)
  BY <1>1, <1>3 DEF CopyInv
<1>5. FormInv'
  BY <1>2, <1>3 DEF FormInv, Idle
<1>6. CopyInv'
  <2>1. \A s \in Sections : cfg'[s] # Erased
    <3>1. CASE Whole(flash)
      BY <3>1, <1>2 DEF Loaded, Whole
    <3>2. CASE flash = ErasedImage
      <4>1. cfg' = Default
        BY <3>2, <1>2 DEF Loaded, ErasedImage
      <4> QED
        BY <4>1, ClientsAssumption, NoFieldsAreGood, GoodIsNotErased
    <3> QED
      BY <1>4, <3>1, <3>2
  <2>2. ~changed' => IsCopy(flash)'
    BY <1>2 DEF IsCopy, Loaded
  <2>3. (flash = ErasedImage \/ Whole(flash))'
    BY <1>2, <1>4 DEF Whole
  <2> QED
    BY <1>3, <2>1, <2>2, <2>3 DEF CopyInv
<1>7. ASSUME NEW sf \in DOMAIN saved'
      PROVE  /\ sf = <<sf[1], sf[2]>> /\ sf[1] \in Sections
             /\ Holds(cfg, sf)' /\ Holds(flash.body, sf)'
  <2>1. sf \in DOMAIN saved \ Edited(Web) /\ saved'[sf] = saved[sf]
    BY DEF Restart
  <2>2. sf = <<sf[1], sf[2]>> /\ sf[1] \in Sections
    BY <1>1, <2>1 DEF KeptInv
  <2>3. Holds(flash.body, sf)
    <3>1. CASE pc[Web] = "written"
      BY <1>1, <2>1, <3>1 DEF KeptInv, CopyInv, IsCopy
    <3>2. CASE pc[Web] # "written"
      BY <1>1, <1>3, <2>1, <3>2 DEF KeptInv
    <3> QED
      BY <3>1, <3>2
  <2>4. flash # ErasedImage
    BY <2>2, <2>3 DEF Holds, ErasedImage
  <2>5. cfg' = flash.body
    BY <1>2, <1>4, <2>4 DEF Loaded, Whole
  <2> QED
    BY <1>2, <2>1, <2>2, <2>3, <2>5 DEF Holds
<1>8. KeptInv'
  BY <1>7 DEF KeptInv
<1> QED
  BY <1>5, <1>6, <1>8

LEMMA StepKeepsAlone ==
  ASSUME WatchdogOnly, TypeInv, AloneInv, [Next]_vars
  PROVE  AloneInv'
<1>0. Web \in Tasks /\ Cli \in Tasks /\ Net \in Tasks /\ Web # Cli /\ Web # Net
  BY ClientsAssumption
<1>1. CASE \E x \in Posted : Post(x)
  BY <1>1, PostKeepsAlone
<1>2. CASE (\E x \in Written : Write(x)) \/ Lease
  <2>1. UNCHANGED <<configVars, saved, mixed>> /\ op'[Web] = op[Web]
    BY <1>0, <1>2 DEF Write, Lease, Begin, TypeInv, OpsInv
  <2> QED
    BY <2>1, OthersKeepAlone
<1>3. CASE \E t \in Tasks : Set(t)
  BY <1>3, SetKeepsAlone
<1>4. ASSUME NEW t \in Tasks, Save(t), ~mixed'
      PROVE  FormInv' /\ CopyInv' /\ KeptInv'
  <2>1. t = Web /\ FormInv /\ CopyInv /\ KeptInv /\ op[Web].do = "save"
    BY <1>4, <1>0 DEF Save, AloneInv
  <2>2. pc[Web] = "idle" /\ pc'[Web] = "fill" /\ \A u \in Tasks \ {Web} : pc'[u] = pc[u]
    BY <1>4, <2>1, Moves DEF Save, SaveBegin, TypeInv
  <2>3. UNCHANGED <<cfg, changed, buf, flash, saved>>
    BY <1>4 DEF Save, SaveBegin
  <2>4. /\ op'[Web].do = "saving" /\ op'[Web].section = op[Web].section
        /\ op'[Web].edits = op[Web].edits
    BY <1>4, <2>1, <1>0 DEF Save, TypeInv, OpsInv, Client
  <2>5. FormInv'
    BY <2>1, <2>2, <2>3, <2>4 DEF FormInv
  <2>6. CopyInv'
    BY <2>1, <2>2, <2>3 DEF CopyInv, IsCopy, FirstIsCopy, Whole
  <2>7. KeptInv'
    BY <2>1, <2>2, <2>3, <2>4 DEF KeptInv, Holds, Edited
  <2> QED
    BY <2>5, <2>6, <2>7
<1>5. ASSUME NEW t \in Tasks, SaveGoesOn(t)
      PROVE  AloneInv'
  BY <1>5, SaveKeepsAlone DEF AloneInv, SaveGoesOn, clientVars
<1>6. ASSUME NEW t \in Tasks, SaveEnds(t), ~mixed'
      PROVE  FormInv' /\ CopyInv' /\ KeptInv'
  <2>1. FormInv /\ CopyInv /\ KeptInv
    BY <1>6 DEF SaveEnds, Answer, AloneInv
  <2>2. pc[t] = "written" /\ pc'[t] = "idle" /\ \A u \in Tasks \ {t} : pc'[u] = pc[u]
    BY <1>6, Moves DEF SaveEnds, SaveReturn, TypeInv
  <2>3. t = Web
    BY <2>1, <2>2 DEF FormInv
  <2>4. IsCopy(flash) /\ op[Web].do = "saving" /\ \A u \in Tasks \ {Web} : pc'[u] = "idle"
    BY <2>1, <2>2, <2>3 DEF FormInv, CopyInv
  <2>5. UNCHANGED <<cfg, buf, flash>> /\ Answer(Web)
    BY <1>6, <2>3 DEF SaveEnds, SaveReturn
  <2> QED
    BY <2>1, <2>2, <2>3, <2>4, <2>5, AnswerKeepsAlone
<1>7. ASSUME SaveSkipped, ~mixed'
      PROVE  FormInv' /\ CopyInv' /\ KeptInv'
  <2>1. FormInv /\ CopyInv /\ KeptInv
    BY <1>7 DEF SaveSkipped, Answer, AloneInv
  <2>2. op[Web].do = "save" /\ ~changed /\ Answer(Web) /\ UNCHANGED <<cfg, buf, flash, pc>>
    BY <1>7 DEF SaveSkipped, configVars
  <2>3. pc[Web] = "idle" /\ IsCopy(flash)
    BY <2>1, <2>2 DEF FormInv, CopyInv
  <2>4. \A u \in Tasks \ {Web} : pc[u] = "idle"
    BY <2>1 DEF FormInv
  <2> QED
    BY <2>1, <2>2, <2>3, <2>4, AnswerKeepsAlone
<1>8. CASE Restart
  BY <1>8, RestartKeepsAlone
<1>9. CASE UNCHANGED vars
  BY <1>9, OthersKeepAlone DEF vars, clientVars
<1> QED
  BY <1>1, <1>2, <1>3, <1>4, <1>5, <1>6, <1>7, <1>8, <1>9 DEF Next, AloneInv

(***************************************************************************)
(* Used alone, the forms accumulate in flash: what each was answered for   *)
(* stays there, across restarts that are not power failures.               *)
(***************************************************************************)
THEOREM FormsAccumulate ==
  ASSUME WatchdogOnly
  PROVE  Spec => []AccumulateAlone
<1>1. TypeInv /\ AloneInv /\ [Next]_vars => AloneInv'
  BY StepKeepsAlone
<1>2. AloneInv => AccumulateAlone
  <2>1. ASSUME AloneInv, ~mixed, Quiet, NEW sf \in DOMAIN saved
        PROVE  Holds(flash.body, sf)
    <3>1. pc[Web] = "idle"
      BY <2>1, ClientsAssumption DEF Quiet
    <3> QED
      BY <2>1, <3>1 DEF AloneInv, KeptInv
  <2> QED
    BY <2>1 DEF AccumulateAlone, Accumulated, Holds
<1> QED
  BY <1>1, <1>2, InitAlone, AlwaysTyped, PTL DEF Spec
=============================================================================
