----------------------------- MODULE MCbdServer -----------------------------
(* Constant values for the TLC runs of bdServer. *)
EXTENDS bdServer

(* Packets of one and two messages that put every kind next to the ones    *)
(* whose handling it could disturb.                                        *)
MCPackets == {<<"reply", "silent">>, <<"ticket", "silent">>,
              <<"empty", "reply">>, <<"silent", "stop">>}

(* Only the requests that decide whether an answer is sent.                *)
MCRequests == {<<"silent", "reply">>, <<"ticket">>}

MCRecvSizes == {1, 3}
MCRecvAll   == {4}
=============================================================================
