------------------------ MODULE MCPowerStreamingClient ------------------------
EXTENDS PowerStreamingClient
ServersValue == <<"node1">>
KindsValue == [s \in {"node1"} |-> {"gpu", "cpu"}]
=============================================================================
