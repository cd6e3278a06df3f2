----------------------------- MODULE HostOrder -----------------------------
(* The order a rebalance publishes nodes and pools in (zencached_worker.go). *)
EXTENDS Naturals, Sequences, FiniteSets

(* sort.Sort with Less on the host alone: insertion sort on lists of up to  *)
(* 12, which keeps nodes of one host in the order they were discovered.     *)
Place(hosts, j) ==
    Cardinality({i \in DOMAIN hosts : hosts[i] < hosts[j] \/ (hosts[i] = hosts[j] /\ i <= j)})

Position(hosts, k) == CHOOSE j \in DOMAIN hosts : Place(hosts, j) = k

SortByHost(seq, host) ==
    LET hosts == [i \in DOMAIN seq |-> host[seq[i]]]
    IN  [k \in DOMAIN seq |-> seq[Position(hosts, k)]]
=============================================================================
