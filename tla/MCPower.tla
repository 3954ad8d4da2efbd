------------------------------- MODULE MCPower -------------------------------
EXTENDS Power

CONSTANTS a1, a2

TwoApps == {a1, a2}
TwoAgents == <<"display-service", "net_manager">>
=============================================================================
