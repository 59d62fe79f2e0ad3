------------------------------- MODULE MCScma -------------------------------
(* Model values for TLC: requesters r and q, hosts v and w, leaders l and k. *)
EXTENDS ScmaStateMachine

CONSTANTS r, q, v, w, l, k

\* Host tables: a requester and one or two hosts, two that both ask, only the
\* requester itself, or nobody.
Pair == {{r, v}}
Triple == {{r, v, w}}
Emptying == {{r, v}, {}}
Contested == {{r, q}, {r}, {}}
=============================================================================
