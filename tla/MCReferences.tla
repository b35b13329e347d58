---------------------------- MODULE MCReferences ----------------------------
(* The worlds References is checked on: rings that a deferred field breaks, a ring that     *)
(* nothing breaks, two deferred fields, chains, and names that cross namespaces, under a     *)
(* driftMode that looks at settled resources again and one that does not.                    *)
EXTENDS References, DcimKinds, IpamKinds

\* The part of the registry these worlds use.
Used ==
  [Device |-> dcimDeviceDescriptor, Interface |-> dcimInterfaceDescriptor,
   Location |-> dcimLocationDescriptor, Region |-> dcimRegionDescriptor,
   IPAddress |-> ipamIPAddressDescriptor]

In(kind, ns) == [kind |-> kind, ns |-> ns]

\* Resources that start with all the references they may make, under driftMode Correct.
World(nodes, names, open, changes) ==
  [world |-> [n \in DOMAIN nodes |-> [kind |-> nodes[n].kind, ns |-> nodes[n].ns,
                                     drift |-> "Correct", names |-> names[n]]],
   begins |-> [n \in DOMAIN nodes |-> DOMAIN names[n]],
   granted |-> open, edits |-> changes]

\* The same world on an endpoint with driftMode Off.
Off(c) == [c EXCEPT !.world = [n \in DOMAIN @ |-> [@[n] EXCEPT !.drift = "Off"]]]

\* The same world, where n's references are still to be written.
Later(c, n) == [c EXCEPT !.begins[n] = {}]

\* An address on an interface of the device whose primary address it is.
Primary ==
  World([a |-> In("Device", "x"), b |-> In("Interface", "x"), c |-> In("IPAddress", "x")],
        [a |-> [primaryIP4Ref |-> "c"], b |-> [deviceRef |-> "a"], c |-> [assignedObject |-> "b"]],
        {}, 2)

\* Two interfaces of one device, each naming the other.
Lag ==
  World([a |-> In("Device", "x"), b |-> In("Interface", "x"), c |-> In("Interface", "x")],
        [a |-> Nothing, b |-> [deviceRef |-> "a", lagRef |-> "c"],
         c |-> [deviceRef |-> "a", bridgeRef |-> "b"]],
        {}, 1)

\* Regions that are each other's parent, and a third below one of them.
Ring ==
  World([a |-> In("Region", "x"), b |-> In("Region", "x"), c |-> In("Region", "x")],
        [a |-> [parentRef |-> "b"], b |-> [parentRef |-> "a"], c |-> [parentRef |-> "a"]],
        {}, 2)

\* A region's parent is in another namespace, and that one's is back in the first's.
Across ==
  World([a |-> In("Region", "x"), b |-> In("Region", "y"), c |-> In("Region", "x")],
        [a |-> [parentRef |-> "b"], b |-> [parentRef |-> "c"], c |-> Nothing],
        {"y"}, 2)

\* A device and its two primary addresses.
Pair ==
  World([a |-> In("Device", "x"), b |-> In("IPAddress", "x"), c |-> In("IPAddress", "x")],
        [a |-> [primaryIP4Ref |-> "b", primaryIP6Ref |-> "c"], b |-> Nothing, c |-> Nothing],
        {}, 1)

\* Locations nested one deeper than the walk goes.
Chain ==
  World([a |-> In("Location", "x"), b |-> In("Location", "x"), c |-> In("Location", "x"),
         d |-> In("Location", "x")],
        [a |-> [parentRef |-> "b"], b |-> [parentRef |-> "c"], c |-> [parentRef |-> "d"],
         d |-> Nothing],
        {}, 1)

\* With the last link written later the chain grows two targets away from its foot, which nothing
\* tells it of.
AllCases ==
  {Primary, Lag, Ring, Across, Pair, Chain, Off(Later(Chain, "c")), Off(Pair), Off(Ring)}
=============================================================================
