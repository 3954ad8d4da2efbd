--------------------------- MODULE MCPropService ---------------------------
(* Instances of PropService for TLC.                                        *)
EXTENDS PropService

CONSTANTS ro, netChange, net, persist, ctl, bad, c1, c2

MCRo == {ro}
MCNet == {netChange, net}
MCPersist == {persist}
MCCtl == {ctl}
MCBad == {bad}
MCValues == {Zero, One}
MCCalls2 == {c1, c2}

\* A .prop file has a read-only property and a default of the persistent one.
MCBootSets == << <<ro, One>>, <<persist, Zero>> >>
\* A user has changed the persistent one.
MCInstalled == [n \in {persist} |-> One]
=============================================================================
