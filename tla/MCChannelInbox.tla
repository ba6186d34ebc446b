--------------------------- MODULE MCChannelInbox ---------------------------
EXTENDS ChannelInbox

CONSTANTS m1, m2, m3, s1, s2

\* s1 waits for its answers; s2 may write, and be repeated, at any time.
MCFrom == [m \in Message |-> IF m \in {m1, m3} THEN s1 ELSE s2]

MCBatches == << <<m1, m2>>, <<m3, Custom, Notice>> >>

=============================================================================
