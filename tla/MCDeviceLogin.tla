---------------------------- MODULE MCDeviceLogin ----------------------------
(* Two logins of the same machine name, an environment key and its tokens,  *)
(* the server and one token command at a time.                              *)
EXTENDS DeviceLogin, TLC

CONSTANTS server, cli, n1, n2, k, x, a, b

MCNamesFor == [d \in {a, b} |-> <<n1, n2>>]

MCCommands == {<<"create", k>>, <<"revoke", k>>, <<"revoke", n1>>, <<"grant", n1>>}

MCSymmetry == Permutations({a, b})
=============================================================================
