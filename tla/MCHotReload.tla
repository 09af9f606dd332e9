----------------------------- MODULE MCHotReload -----------------------------
EXTENDS HotReload

CONSTANTS a, b, e1, none

MCLive == {a, b}

\* Probes need two failures, traffic one; only probes bring it back.
Strict == [down |-> 2, up |-> 1, passiveDown |-> 1, passiveUp |-> 0]
\* The other way round, with passive recovery.
Lenient == [down |-> 1, up |-> 2, passiveDown |-> 2, passiveUp |-> 1]

Conf(ls, check) == [listeners |-> ls, check |-> check, eps |-> {e1}]

MCConfigs == {Conf({a, b}, Strict), Conf({b}, Strict), Conf({a, b}, none),
              Conf({a, b}, Lenient)}
==============================================================================
