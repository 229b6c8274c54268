----------------------------- MODULE MCConnect ------------------------------
(* Connect for TLC: a tunnel beside the other uses of the client, and starts *)
(* at and beyond the limits of what either side accepts.                     *)
EXTENDS Connect

CONSTANTS c1, c2

Args0 == [bench |-> "none", probe |-> FALSE, retries |-> 1, delay |-> 1000, target |-> 0,
          runs |-> 1, duration |-> 10, payload |-> 0]
BenchArgs == [Args0 EXCEPT !.bench = "upload"]
MCServerConfig == ServerDefaults
MCServerToken == Generated("token", 32)
TwoLines == [lines |-> <<<<"token">>, <<"rest">>>>, bytes |-> 70]
BenchLine == [lines |-> <<<<"token">>, <<"bench", "upload", 10, 1200>>>>, bytes |-> 85]

Good == [config |-> ClientDefaults, token |-> MCServerToken, args |-> Args0]
AtLimits == [Good EXCEPT !.config.mtu = MaxMtu,
               !.args = [BenchArgs EXCEPT !.bench = "stream-packet-download", !.target = 10000]]

MCClients == {c1, c2}
Pair(first, second) == [c \in MCClients |-> IF c = c1 THEN first ELSE second]
MCScenarios ==
  {Pair(Good, [Good EXCEPT !.args.probe = TRUE]),
   Pair(Good, AtLimits),
   Pair(Good, [Good EXCEPT !.token = Generated("other", 32), !.args.runs = 0]),
   Pair([Good EXCEPT !.args.retries = 2], [Good EXCEPT !.args.retries = 0]),
   Pair([Good EXCEPT !.args = [BenchArgs EXCEPT !.runs = 2]],
        [Good EXCEPT !.config.mtu = MaxMtu + 1]),
   Pair([Good EXCEPT !.token = Generated("short", 15)], [Good EXCEPT !.token = TwoLines]),
   Pair([Good EXCEPT !.token = BenchLine], [Good EXCEPT !.config.prefix = 33]),
   Pair([Good EXCEPT !.token = Generated("long", 509)],
        [Good EXCEPT !.args = [BenchArgs EXCEPT !.duration = 0]])}
MCMaxConns == [c \in MCClients |-> IF c = c1 THEN 2 ELSE 1]
MCCapacities == {60, 1200, 1400}
=============================================================================
