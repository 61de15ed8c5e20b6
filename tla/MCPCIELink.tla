----------------------------- MODULE MCPCIELink -----------------------------
EXTENDS PCIELink
=============================================================================
