------------------------------ MODULE MCTraffic ------------------------------
(* Two routes of a Gateway with two listeners, for TLC. *)
EXTENDS Traffic

B(v, w) == [service |-> v, weight |-> w]

Plain(conditions, backends) ==
  [matches |-> {conditions}, regex |-> FALSE, filter |-> "none", backends |-> backends]

Route(hosts, sections, rules) == [hosts |-> hosts, sections |-> sections, rules |-> rules]

Both == {"l1", "l2"}

X == Plain({{"x"}}, <<B("s1", 1), B("s2", 2)>>)
Y == Plain({{"x", "y"}}, <<B("s3", 2), B("s2", 0)>>)

MCSpecs ==
  [r1 |-> {None,
           Route({}, Both, <<X, Y>>),
           Route({"a"}, Both, <<Y>>),
           Route({}, Both, <<Y, [X EXCEPT !.filter = "redirect"]>>),
           Route({}, Both, <<[X EXCEPT !.filter = "mirror"]>>),
           Route({"b"}, {"l1"}, <<[X EXCEPT !.backends = <<B("s1", 0), B("s2", 0)>>], X>>)},
   r2 |-> {None,
           Route({}, {"l2"}, <<Plain({{"y"}}, <<B("s3", 1), B("s1", 1)>>)>>),
           Route({"a", "b"}, Both, <<Plain({{"x"}, {"x", "y"}}, <<B("s2", 1)>>)>>),
           Route({}, {}, <<X>>),
           Route({}, {"l1"}, <<Plain({{"x"}}, <<B("s2", 1), B("s2", 0)>>)>>),
           Route({}, Both, <<[Y EXCEPT !.regex = TRUE]>>),
           Route({}, Both, <<[Y EXCEPT !.filter = "extension"]>>)}]

MCStatuses == [s1 |-> {"granted"}, s2 |-> {"granted", "refused"}, s3 |-> {"granted", "missing"}]

MCHosts == [l1 |-> {"a"}, l2 |-> None]

MCRequests == [host : {"a", "b"}, path : {"x", "y"}]

=============================================================================
