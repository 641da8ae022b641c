---------------------------- MODULE MCHandshake ----------------------------
(* Options for Handshake: window bits unset and small, and lists of        *)
(* subprotocols with none, one and two in common.                          *)
EXTENDS Handshake

AllOptions ==
    [Enabled : BOOLEAN, ServerContextTakeover : BOOLEAN, ClientContextTakeover : BOOLEAN,
     ServerMaxWindowBits : {0, 9}, ClientMaxWindowBits : {0, 10}, Threshold : {0}]

ClientLists == {<<>>, <<"p">>, <<"q", "p">>}
ServerLists == {<<>>, <<"p", "q">>, <<"r">>}
=============================================================================
