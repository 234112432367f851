--------------------------- MODULE MCRmppReceiver ---------------------------
EXTENDS RmppReceiver

CONSTANTS c1, c2, k1

\* Three segments, not announced; two, announced; one less or one more than
\* announced; a request.
Messages ==
    {[segs |-> 3, total |-> 0, response |-> TRUE],
     [segs |-> 2, total |-> 2, response |-> TRUE],
     [segs |-> 2, total |-> 3, response |-> TRUE],
     [segs |-> 3, total |-> 2, response |-> TRUE],
     [segs |-> 1, total |-> 1, response |-> FALSE]}
=============================================================================
