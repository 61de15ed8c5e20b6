--------------------------- MODULE MCCXLHostXBar ---------------------------
EXTENDS CXLHostXBar

Sent(S, cmds, type, lines) ==
  {[src |-> c, cmd |-> cmd, line |-> l, type |-> type, at |-> c] :
     c \in S, cmd \in cmds, l \in lines}

\* The caches use every command on the host's memory and read or write back
\* the device's; the I/O cache has DMA writes and their writebacks; the device
\* takes lines of the host and checks lines of its own.
MCTraffic ==
  Sent(Caches, Cmds, "Default", HostLines)
    \cup Sent(Caches, {"ReadSharedReq", "WritebackDirty"}, "Default", DevLines)
    \cup Sent({Io}, {"ReadExReq", "WritebackDirty"}, "Default", HostLines)
    \cup Sent({Io}, {"ReadExReq"}, "CXLcache", HostLines)
    \cup Sent({Io}, {"ReadSharedReq"}, "HostBiasCheck", DevLines)
=============================================================================
