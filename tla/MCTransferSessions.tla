------------------------- MODULE MCTransferSessions -------------------------
EXTENDS TransferSessions, TLC

CONSTANT Main     \* the stream that is followed to its end

\* The other streams send one message: a header that competes for a ticket.
MCMaxSent == [s \in Streams |-> IF s = Main THEN 3 ELSE 1]

\* Streams are interchangeable when none of them is Main.
StreamSymmetry == Permutations(Streams)

=============================================================================
