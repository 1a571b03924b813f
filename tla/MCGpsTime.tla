------------------------------ MODULE MCGpsTime ------------------------------
(* Small instances of GpsTime for TLC: short days and short months. *)
EXTENDS GpsTime, TLC

CONSTANTS n1, n2, x, f, g

Symmetry == Permutations({n1, n2})

Mixed == n1 :> "nmea" @@ n2 :> "nmea" @@ x :> "tracer" @@ f :> "flytec" @@ g :> "gdl90"

\* The last day of a month, a month of three days, and the first day of the next.
ShortMonths == [n \in Days |-> <<4, 1, 2, 3, 1>>[n + 1]]

\* Which receivers are late: none, all, or one or two of those that count days; the
\* other choices are left out to keep the instance small.
Lags == {{}, Dev, {n1}, {n2}, {x}, {f}, {n1, f}, {n2, f}}

MCInit == Init /\ lag \in Lags

MCSpec == MCInit /\ [][Next]_vars
==============================================================================
