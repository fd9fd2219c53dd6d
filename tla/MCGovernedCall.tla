--------------------------- MODULE MCGovernedCall ---------------------------
(* Operations that share nothing but the environment run alone; tools, by  *)
(* the loop detector, and contracts, by the session's events, run in pairs. *)
EXTENDS GovernedCall

MCMixes == {<<"create">>, <<"agt">>, <<"tool", "tool">>, <<"tool", "watch">>,
            <<"contract", "contract">>}

=============================================================================
