SPECIFICATION Spec
CONSTANTS
    Listeners = {l1}
    Kinds = {"tcp_client", "tcp_server", "s2tcp_client", "s2tcp_server", "http"}
    Retries = 1
    Addresses = {a1, a2}
    NoAddress = none
INVARIANT BadBeforeReconnecting
