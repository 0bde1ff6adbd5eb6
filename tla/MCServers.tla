----------------------------- MODULE MCServers -----------------------------
(* Two servers, one of them out of service or busy, and three filters.     *)
EXTENDS Servers

Server(country, owned, p2p, load, ipv4, active) ==
  [country |-> country, owned |-> owned, p2p |-> p2p, load |-> load, ipv4 |-> ipv4,
   active |-> active]

McCatalogue == {Server("SE", TRUE, FALSE, 9, "a", TRUE), Server("CH", FALSE, TRUE, 1, "b", FALSE)}

Filter(country, owned, p2p, load) ==
  [country |-> country, owned_only |-> owned, p2p |-> p2p, max_load |-> load]

McFilters == {Filter(None, None, None, None), Filter("CH", TRUE, FALSE, 5)}

\* The criteria are independent: filtering by all is filtering by one after
\* the other, in any order (base.py:331-371).
ASSUME FiltersCompose ==
  \A S \in SUBSET McCatalogue, f \in McFilters :
    Filtered(S, f) =
      Filtered(Filtered(Filtered(Filtered(S, Filter(None, None, None, f.max_load)),
                                 Filter(None, None, f.p2p, None)),
                        Filter(None, f.owned_only, None, None)),
               Filter(f.country, None, None, None))
=============================================================================
