------------------------------- MODULE MCLeave -------------------------------
(***************************************************************************)
(* Instances of Leave: chains that turn round and grow an administrator's  *)
(* step in the middle while requests are under way.                        *)
(***************************************************************************)
EXTENDS Leave, TLC

CONSTANTS w1, w2

MCWorker == {w1, w2}
MCChain == {<<"hr", "manager">>, <<"manager", "admin", "hr">>}

\* Workers are interchangeable; the properties are invariants and step properties.
MCSymmetry == Permutations(MCWorker)

============================================================================
