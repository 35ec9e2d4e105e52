------------------------------- MODULE MCRelay -------------------------------
EXTENDS Relay
MCPeriods == {<<3, 3>>}
=============================================================================
