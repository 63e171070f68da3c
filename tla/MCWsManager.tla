---------------------------- MODULE MCWsManager ----------------------------
EXTENDS WsManager

CONSTANTS w1, w2
MCAddresses == <<w1, w2>>
=============================================================================
