CONSTANTS
    n1 = n1
    n3 = n3
    Addrs = {a1, a2, a3}
    Names = {n1, n2, n3}
    Starts = {s1}
    Orders <- TwoOrders
    MaxHosts = 3
SYMMETRY AddrSymmetry
SPECIFICATION Spec
INVARIANTS TypeOK NoDuplicates IndicesKnown HostsUnique Sorted PrioritiesCurrent ClientSound
PROPERTIES IndexStable IndexSpec UpdatesExact
