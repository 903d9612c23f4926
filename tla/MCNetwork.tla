------------------------------ MODULE MCNetwork ------------------------------
EXTENDS Network

V4(n)     == [v6 |-> FALSE, port |-> 1, ip |-> n]
Compat(n) == [v6 |-> TRUE, port |-> 1, ip |-> n]
V6(n)     == [v6 |-> TRUE, port |-> 1, ip |-> 2 * MappedBase + n]

SavedRow(a, time, services, failures) ==
  [addr |-> a, time |-> time, services |-> services, failures |-> failures, readable |-> TRUE]
Entry(a, time, services) == [addr |-> a, time |-> time, services |-> services]

Good == [command |-> "version", fault |-> "none", version |-> ProtocolVersion + 1, own |-> FALSE, services |-> {"network"}]
Old  == [command |-> "version", fault |-> "none", version |-> ProtocolMinimum - 1, own |-> FALSE, services |-> {}]
Mine == [command |-> "version", fault |-> "none", version |-> ProtocolVersion, own |-> TRUE, services |-> {"network"}]
Faulty(f) == [Good EXCEPT !.fault = f]
Stray == [Good EXCEPT !.command = "ping"]

Quiet == [inbound |-> 0, outbound |-> 1, peers |-> <<>>, seeds |-> {}, file |-> <<SavedRow(V4(1), 0, {}, 0)>>,
          dials |-> 1, horizon |-> 3, messages |-> 2, hosts |-> {}, addresses |-> {V4(1), V4(2)}, inputs |-> {},
          book |-> {}, faults |-> {}, versions |-> {Good}, services |-> {"network"}, preferable |-> {"network"}, protocol |-> "any"]

\* One peer over several ping intervals: it answers, chatters or is silent.
Pinging == [Quiet EXCEPT !.horizon = 13, !.messages = 3, !.inputs = {"other"}]
Ponging == [Quiet EXCEPT !.horizon = 9, !.messages = 3, !.inputs = {"other", "pong"}]

\* Peers come and go in both directions while the node dials.
Crowd == [Quiet EXCEPT !.inbound = 1, !.outbound = 1, !.dials = 3, !.horizon = 2, !.messages = 1,
                       !.file = <<SavedRow(V4(1), 0, {}, 0), SavedRow(V6(2), 0, {}, 1)>>,
                       !.hosts = {V4(3)}, !.addresses = {V4(1), V6(2), V4(3)}, !.inputs = {"other"},
                       !.faults = {"magic"}, !.versions = {Good, Old, Mine}]
Manual == [Quiet EXCEPT !.outbound = 2, !.dials = 2, !.horizon = 2, !.messages = 1,
                        !.addresses = {V4(1)}, !.inputs = {"breaks", "sync", "onetry"}, !.faults = {"checksum", "payload"}, !.versions = {Good, Stray, Faulty("payload"), Faulty("magic")}]

\* A seednode, which sends addresses, and nodes learned from it.
Seeding == [Quiet EXCEPT !.outbound = 1, !.seeds = {V4(5)}, !.file = <<>>, !.dials = 2, !.horizon = 4, !.messages = 2,
                         !.addresses = {V4(5)},
                         !.book = {<<Entry(V4(1), 0, {})>>, <<Entry(V4(1), 1, {"network"}), Entry(V4(2), 3, {})>>}]

\* The table: addresses heard, added, removed and saved.
Booking == [Quiet EXCEPT !.inbound = 1, !.outbound = 0, !.hosts = {V4(1)}, !.horizon = 2, !.messages = 2,
                         !.file = <<SavedRow(V4(1), 0, {}, 0), SavedRow(V4(2), 0, {"network"}, 9)>>,
                         !.addresses = {V4(1), Compat(1)}, !.inputs = {"add", "remove", "sync"},
                         !.book = {<<Entry(V4(2), 1, {}), Entry(V6(3), 0, {"network"})>>, <<Entry(Compat(1), 3, {})>>}]
\* Saves, stops, crashes and restarts.
Rebooting == [Booking EXCEPT !.inputs = {"stop", "crash", "breaks"}, !.addresses = {V4(1)}, !.horizon = 3, !.messages = 1]
Protocol6 == [Booking EXCEPT !.protocol = "ipv6", !.outbound = 2, !.inbound = 0, !.horizon = 2,
                             !.file = <<SavedRow(V6(1), 0, {}, 0), SavedRow(V4(1), 0, {}, 0), SavedRow(Compat(1), 0, {"network"}, 0)>>,
                             !.inputs = {"breaks"}, !.dials = 2, !.messages = 1]

AllWorlds == {Pinging, Ponging, Crowd, Manual, Seeding, Booking, Rebooting, Protocol6}

\* A node told to connect to one peer only.
ConnectOnly == {[Quiet EXCEPT !.peers = <<V4(2)>>, !.outbound = 2, !.dials = 2]}
=============================================================================
