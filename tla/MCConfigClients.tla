--------------------------- MODULE MCConfigClients ---------------------------
(***************************************************************************)
(* Instances of ConfigClients for TLC: every form and command with each    *)
(* of its parameters alone, and every form with all of them, valid and     *)
(* not.  A behaviour works on one section.                                 *)
(***************************************************************************)
EXTENDS ConfigClients

MCSections == DOMAIN Limits
MCFirstPage == MCSections \ DOMAIN ElementLimits

MCDefault == [s \in MCSections |-> NoFields]
MCIsContent(s, v) == v # Erased
MCConfigured == {[MCDefault EXCEPT !["net_info"] = [f \in {Mode} |-> DHCP]]}

\* For each parameter a number that is taken, and one that is refused.
Numbers(n) ==
  CASE n = "dhcp" -> {STATIC, -1}
    [] n \in {"baud", "local_port", "remote_port", "port"} -> {9600, 1000000}
    [] n = "databits" -> {4, 7}
    [] n \in {"stopbits", "slave_address", "server_address", "max_connections"} -> {0, 2}
    [] n = "count" -> {MODBUS_MAX_REG_COUNT, MODBUS_MAX_REG_COUNT + 1}
    [] n = "tag_handles" -> {1, 200, 256}
    [] OTHER -> {1, -1}

Sent(form) == UNION {{[p \in {q} |-> v] : v \in Numbers(q[1])} : q \in Params(form)}
              \cup {[p \in Params(form) |-> IF p[1] = "baud" THEN 9600 ELSE 2]}
MCRequests == UNION {{[form |-> fm, element |-> e, sent |-> x] :
                        e \in {Header, 0, MODBUS_REQUESTS_MAX}, x \in Sent(fm)}
                     : fm \in predefined_set_cgi_processor}
MCCommands == UNION {UNION {{[form |-> fm, element |-> Header, sent |-> [p \in {q} |-> v]] :
                               v \in Numbers(q[1])} : q \in Params(fm)}
                     : fm \in ConfigWrite}
MCWork == {{s} : s \in MCSections}
WorkNetwork == {{"net_info"}}
WorkRtu == {{"modbus_rtu_client"}}
=============================================================================
