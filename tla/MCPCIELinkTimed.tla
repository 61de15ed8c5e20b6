-------------------------- MODULE MCPCIELinkTimed ---------------------------
EXTENDS PCIELinkTimed
=============================================================================
