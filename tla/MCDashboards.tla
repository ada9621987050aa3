---------------------------- MODULE MCDashboards -----------------------------
(* Dashboards on a small instance for TLC. *)
EXTENDS Dashboards

CONSTANTS alFalah, anNur

\* Both mosques have a request with an approval to begin with.
BegunRequests == [m \in Masjid |-> 1]

\* The service lists both mosques, one, or none.
MasjidLists == {{}, {anNur}, Masjid}
=============================================================================
