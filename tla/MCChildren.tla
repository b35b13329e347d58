----------------------------- MODULE MCChildren -----------------------------
(* A virtual machine with two interfaces and an address; two of the keys slug alike. *)
EXTENDS Children

AllEntries == {"eth0", "ETH0", "eth1", "ip"}

\* A list that grows, one that shrinks, and one whose keys collide after an edit, each with and
\* without a resync of what has settled.
First == [declared : {{}, {"eth0", "eth1"}}, drift : {"Correct", "Off"}]

Kinds == [e \in AllEntries |-> IF e = "ip" THEN "IPAddress" ELSE "VMInterface"]

Names == [eth0 |-> "vm-eth0", ETH0 |-> "vm-eth0", eth1 |-> "vm-eth1", ip |-> "vm-eth0-ip"]
=============================================================================
