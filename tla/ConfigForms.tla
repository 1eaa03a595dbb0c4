----------------------------- MODULE ConfigForms -----------------------------
(***************************************************************************)
(* What the forms of the web pages (src/src/http-server/http_utils.c) and  *)
(* the commands "config write" (src/src/cli-task/cli_task.c) may put into  *)
(* which section of system_config_t.                                       *)
(*                                                                         *)
(* The fields of a section are integers.  A field is <<element, name,      *)
(* position>>: the Modbus sections hold an array of requests or memory     *)
(* blocks (element 0, 1, ...) after a header (element Header), and each of *)
(* those an array of tag handles.  An address or a text is one integer.    *)
(*                                                                         *)
(* The content of a section is given by the fields in which it differs     *)
(* from the factory defaults: a function from these to their values.       *)
(***************************************************************************)
EXTENDS Integers

CONSTANTS MODBUS_REQUESTS_MAX,   \* also MODBUS_SERVER_MEMORY_BLOCKS_MAX
          MODBUS_MAX_REG_COUNT,
          Addresses              \* the addresses and texts in use, 0 the factory's

ASSUME FormsAssumption == /\ MODBUS_REQUESTS_MAX \in Nat
                          /\ MODBUS_MAX_REG_COUNT \in Nat
                          /\ 0 \in Addresses /\ Addresses \subseteq Int

Header == -1
Element == 0 .. MODBUS_REQUESTS_MAX - 1
Position == 0 .. MODBUS_MAX_REG_COUNT - 1
Flag == {0, 1}
Uint8 == 0 .. 255
Uint16 == 0 .. 65535
Baud == 9600 .. 921600
Port == {p \in Uint16 : p >= 1024}

STATIC == 1   \* NETINFO_STATIC
DHCP == 2     \* NETINFO_DHCP

SerialLimits == [baud |-> Baud, databits |-> 5 .. 8, parity |-> 0 .. 2, stopbits |-> 1 .. 2,
                 flow_control_cts |-> Flag, flow_control_rts |-> Flag]

\* What the users of a configuration rely on: arrays are as long as count
\* says, an identifier selects one of two UARTs, an enumeration is in range.
\* Nothing is asked of dhcp, which they compare with NETINFO_DHCP only.
Limits ==
  [device |-> [device_id |-> Addresses, filter_level |-> 0 .. 3, include_timestamp |-> Flag,
     include_task_name |-> Flag, use_colors |-> Flag],
   net_info |-> [mac |-> Addresses, ip |-> Addresses, sn |-> Addresses, gw |-> Addresses,
     dns |-> Addresses, dhcp |-> Int],
   serial0 |-> SerialLimits,
   serial1 |-> SerialLimits,
   serial_to_tcp_mode |-> [enable |-> Flag, serial_id |-> 0 .. 1, mode |-> 0 .. 1,
     local_port |-> Uint16, timeout_s |-> Uint16, keepalive_s |-> Uint16,
     max_connections |-> Uint8, remote_ip |-> Addresses, remote_port |-> Uint16],
   modbus_rtu_client |-> [enable |-> Flag, serial_id |-> 0 .. 1],
   modbus_rtu_server |-> [enable |-> Flag, serial_id |-> 0 .. 1, server_address |-> 0 .. 247],
   modbus_tcp_client |-> [enable |-> Flag, remote_ip |-> Addresses, remote_port |-> Uint16],
   modbus_tcp_server |-> [enable |-> Flag, port |-> Uint16, server_address |-> 0 .. 247]]

FactorySerial == [baud |-> 115200, databits |-> 8, parity |-> 0, stopbits |-> 1,
                  flow_control_cts |-> 0, flow_control_rts |-> 0]

RequestLimits ==
  [enabled |-> Flag, slave_address |-> 0 .. 247, data_type |-> 0 .. 3, operation |-> 0 .. 1,
   start_address |-> Uint16, count |-> 1 .. MODBUS_MAX_REG_COUNT, encoding |-> 0 .. 3]
BlockLimits ==
  [enabled |-> Flag, data_type |-> 0 .. 3, writable |-> Flag, start_address |-> Uint16,
   count |-> 1 .. MODBUS_MAX_REG_COUNT, encoding |-> 0 .. 3]
ElementLimits ==
  [modbus_rtu_client |-> RequestLimits, modbus_tcp_client |-> RequestLimits,
   modbus_rtu_server |-> BlockLimits, modbus_tcp_server |-> BlockLimits]

Fields ==
  [section \in DOMAIN Limits |->
     {<<Header, n, 0>> : n \in DOMAIN Limits[section]} \cup
     IF section \in DOMAIN ElementLimits
     THEN {<<e, n, 0>> : e \in Element, n \in DOMAIN ElementLimits[section]} \cup
          {<<e, "tag_handles", i>> : e \in Element, i \in Position}
     ELSE {}]

NoFields == [f \in {} |-> 0]

\* config_set_default
FactoryHeader ==
  [device |-> [device_id |-> 0, filter_level |-> 2, include_timestamp |-> 1,
     include_task_name |-> 1, use_colors |-> 1],
   net_info |-> [mac |-> 0, ip |-> 0, sn |-> 0, gw |-> 0, dns |-> 0, dhcp |-> STATIC],
   serial0 |-> FactorySerial,
   serial1 |-> FactorySerial,
   serial_to_tcp_mode |-> [enable |-> 0, serial_id |-> 1, mode |-> 0, local_port |-> 5000,
     timeout_s |-> 30, keepalive_s |-> 5, max_connections |-> 1, remote_ip |-> 0,
     remote_port |-> 5001],
   modbus_rtu_client |-> [enable |-> 0, serial_id |-> 1],
   modbus_rtu_server |-> [enable |-> 0, serial_id |-> 1, server_address |-> 1],
   modbus_tcp_client |-> [enable |-> 0, remote_ip |-> 0, remote_port |-> 502],
   modbus_tcp_server |-> [enable |-> 0, port |-> 502, server_address |-> 1]]
FactoryElement ==
  [enabled |-> 0, slave_address |-> 1, data_type |-> 3, operation |-> 0, writable |-> 0,
   start_address |-> 0, count |-> 1, encoding |-> 0]
Factory(section, field) ==
  CASE field[2] = "tag_handles" -> 255
    [] field[1] = Header -> FactoryHeader[section][field[2]]
    [] OTHER -> FactoryElement[field[2]]

\* The value of a field, and a content with some fields set.
Value(section, content, field) ==
  IF field \in DOMAIN content THEN content[field] ELSE Factory(section, field)
Updated(section, content, edits) ==
  LET to(f) == IF f \in DOMAIN edits THEN edits[f] ELSE content[f]
  IN  [f \in {g \in DOMAIN content \cup DOMAIN edits : to(g) # Factory(section, g)} |-> to(f)]

\* Nor of a tag handle: tag_db_read, tag_db_write and tag_db_get_metadata
\* refuse what is no handle themselves.
Within(section, field, v) ==
  CASE field[2] = "tag_handles" -> TRUE
    [] field[1] = Header -> v \in Limits[section][field[2]]
    [] OTHER -> v \in ElementLimits[section][field[2]]

-----------------------------------------------------------------------------
(***************************************************************************)
(* A form: the section it edits, whether a parameter must name an element, *)
(* the parameters taken as a flag whatever their number, those taken from  *)
(* a range, and whether it takes tag handles.  A parameter is named by the *)
(* field it sets.                                                          *)
(***************************************************************************)
Form(section, keyed, flags, takes, mapped) ==
  [section |-> section, keyed |-> keyed, flags |-> flags, takes |-> takes, mapped |-> mapped]
Plain(section, flags, takes) == Form(section, FALSE, flags, takes, FALSE)
Mapping(section, flags, takes) == Form(section, TRUE, flags, takes, TRUE)

handle_set_network ==
  Plain("net_info", {}, [mac |-> Addresses, ip |-> Addresses, sn |-> Addresses,
                         gw |-> Addresses, dns |-> Addresses, dhcp |-> Uint8])

\* Parameter uart selects the section.
handle_set_serial(section) ==
  Plain(section, {"flow_control_cts", "flow_control_rts"},
        [baud |-> Baud, databits |-> 5 .. 8, parity |-> 0 .. 2, stopbits |-> 1 .. 2])

handle_set_s2tcp ==
  Plain("serial_to_tcp_mode", {"enable"},
        [serial_id |-> 0 .. 1, mode |-> 0 .. 1, local_port |-> Port, timeout_s |-> 1 .. 3600,
         keepalive_s |-> 1 .. 600, max_connections |-> 1 .. 4, remote_ip |-> Addresses,
         remote_port |-> Port])

handle_set_modbus_client == Plain("modbus_rtu_client", {"enable"}, [serial_id |-> 0 .. 1])

Request == [slave_address |-> 1 .. 247, data_type |-> 0 .. 3, operation |-> 0 .. 1,
            start_address |-> Uint16, count |-> 1 .. MODBUS_MAX_REG_COUNT, encoding |-> 0 .. 3]
handle_set_modbus_datapoint == Mapping("modbus_rtu_client", {"enabled"}, Request)

handle_set_modbus_server ==
  Plain("modbus_rtu_server", {"enable"}, [serial_id |-> 0 .. 1, server_address |-> 1 .. 247])

\* Were it like this, a block could be longer than its array (ClientsTypeOK).
BlockUnbounded == [data_type |-> 0 .. 3, start_address |-> Uint16,
                   count |-> 1 .. MODBUS_MAX_REG_COUNT + 1, encoding |-> 0 .. 3]

Block == [data_type |-> 0 .. 3, start_address |-> Uint16,
          count |-> 1 .. MODBUS_MAX_REG_COUNT, encoding |-> 0 .. 3]
handle_set_modbus_server_memory_block ==
  Mapping("modbus_rtu_server", {"enabled", "writable"}, Block)

handle_set_modbus_tcp_client ==
  Plain("modbus_tcp_client", {"enable"}, [remote_ip |-> Addresses, remote_port |-> Uint16 \ {0}])
handle_set_modbus_tcp_datapoint == Mapping("modbus_tcp_client", {"enabled"}, Request)

handle_set_modbus_tcp_server ==
  Plain("modbus_tcp_server", {"enable"}, [port |-> Uint16 \ {0}, server_address |-> 1 .. 247])
handle_set_modbus_tcp_server_memory_block ==
  Mapping("modbus_tcp_server", {"enabled", "writable"}, Block)

predefined_set_cgi_processor ==
  {handle_set_network, handle_set_serial("serial0"), handle_set_serial("serial1"),
   handle_set_s2tcp, handle_set_modbus_client, handle_set_modbus_datapoint,
   handle_set_modbus_server, handle_set_modbus_server_memory_block,
   handle_set_modbus_tcp_client, handle_set_modbus_tcp_datapoint,
   handle_set_modbus_tcp_server, handle_set_modbus_tcp_server_memory_block}

-----------------------------------------------------------------------------
\* "config write serial0|serial1|network|s2tcp|device": one field each.
WriteSerial(section) == handle_set_serial(section)
WriteNetwork ==
  Plain("net_info", {}, [ip |-> Addresses, sn |-> Addresses, gw |-> Addresses,
                         dns |-> Addresses, dhcp |-> 1 .. 2])
WriteS2tcp == handle_set_s2tcp
WriteDevice ==
  Plain("device", {"include_timestamp", "include_task_name", "use_colors"},
        [device_id |-> Addresses, filter_level |-> 0 .. 3])

ConfigWrite == {WriteSerial("serial0"), WriteSerial("serial1"), WriteNetwork, WriteS2tcp,
                WriteDevice}

-----------------------------------------------------------------------------
Params(form) ==
  {<<n, 0>> : n \in form.flags \cup DOMAIN form.takes} \cup
  IF form.mapped THEN {<<"tag_handles", i>> : i \in Position} ELSE {}

\* A parameter out of range is left alone.
Taken(form, p, v) ==
  \/ p[1] \in form.flags
  \/ p[1] \in DOMAIN form.takes /\ v \in form.takes[p[1]]
  \/ p[1] = "tag_handles" /\ v \in Uint8

Stored(form, p, v) == IF p[1] \in form.flags THEN (IF v = 0 THEN 0 ELSE 1) ELSE v

\* The fields that a request sets: sent maps parameters to numbers, element
\* is dp_idx, block_idx or Header.
Edits(form, element, sent) ==
  LET taken == {p \in DOMAIN sent : Taken(form, p, sent[p])}
  IN  [f \in {<<element, p[1], p[2]>> : p \in taken} |->
         Stored(form, <<f[2], f[3]>>, sent[<<f[2], f[3]>>])]

\* Requests that are not refused, as what they set: [section, edits].
Effects(requests) ==
  {x \in {[section |-> r.form.section, edits |-> Edits(r.form, r.element, r.sent)] :
            r \in {q \in requests : IF q.form.keyed THEN q.element \in Element
                                                  ELSE q.element = Header}}
     : DOMAIN x.edits # {}}
=============================================================================
