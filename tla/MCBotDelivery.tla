--------------------------- MODULE MCBotDelivery ---------------------------
EXTENDS BotDelivery, TLC

CONSTANTS d1, d2

\* A lossless song, sent as it is (a document) or encoded to opus: the two
\* qualities share the source.
MCProfiles == {
    [key |-> "source:flac", source |-> "source.flac", out |-> "out.flac",
     original |-> TRUE, document |-> TRUE],
    [key |-> "opus", source |-> "source.flac", out |-> "out.ogg",
     original |-> FALSE, document |-> FALSE]}

\* Trouble for the first without end: more than RetriesRunOut allows it.
MCTrouble == d1 :> 7 @@ d2 :> 1

=============================================================================
