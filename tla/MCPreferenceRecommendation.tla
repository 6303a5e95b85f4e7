--------------------- MODULE MCPreferenceRecommendation ---------------------
(* Instances of PreferenceRecommendation for TLC.                          *)
EXTENDS PreferenceRecommendation

\* The server and its stores fail; the network and Python fail, and Python may
\* be slow; much fails, but nothing is repeated or slow.
Environments ==
  { {"queueAck", "dbRead", "dbWrite", "crash"},
    {"queueAdd", "postLost", "postTimeout", "callbackLost", "slow"},
    {"queueAdd", "dbRead", "dbWrite", "postLost", "callbackLost"} }
=============================================================================
