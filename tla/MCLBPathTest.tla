---------------------------- MODULE MCLBPathTest ----------------------------
(* LBPathTest for TLC: two interfaces with one or two tests each. *)
EXTENDS LBPathTest

MCTestColls ==
    {<<a, b>> : a \in {<<"ping">>, <<"ttl", "user">>},
                b \in {<<>>, <<"ping", "ttl">>, <<"user", "ping">>}}
=============================================================================
