---------------------------- MODULE MC_MSSignal ----------------------------
(* Instantiation of MSSignal for TLC: two caller threads, two client ids  *)
(* and one id the SFU uses for the request it pushes.                      *)
EXTENDS MSSignal

MC_ClientIds == {1, 2}
\* ids the SFU chooses independently of the client: disjoint here
MC_ServerIdsDisjoint == {3}
\* the SFU numbers its requests from 1 as the client does (spec 3: ids are
\* chosen by each side), so an id of a pushed request can equal a pending one
MC_ServerIdsOverlap == {1}
=============================================================================
