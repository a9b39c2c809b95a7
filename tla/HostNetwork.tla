---------------------------- MODULE HostNetwork ----------------------------
(***************************************************************************)
(* What GET /system/interfaces and GET /system/discover say of the host:   *)
(* app/api/system.py.  A request reads up to six files of /proc/net, one   *)
(* after the other, while the kernel changes what they show.               *)
(*                                                                         *)
(* An address has two bytes of HalfWidth bits, and is the set of its ones. *)
(* The kernel is modelled as its tables and the files it makes of them; in *)
(* route, the bytes of a number come in the order of a little-endian host. *)
(* The splitting of lines and the choice of the mount that _proc reads are *)
(* left out.                                                               *)
(***************************************************************************)
EXTENDS Integers, Sequences, FiniteSets, SequencesExt

CONSTANTS
    Interface,    \* names of network interfaces
    Lo,           \* the loopback interface
    Class,        \* what the name of an interface alone says of its type
    Radio,        \* the wireless ones
    Address,      \* addresses that interfaces and neighbours may have
    PrefixLen,    \* lengths of the networks that addresses are given in
    HalfWidth,    \* bits of a byte
    MaxAddresses, \* addresses the host may be found with
    MaxChanges    \* changes of the kernel's tables during a request

Virtual == {"loopback", "veth", "docker-bridge", "bridge"}

Width == 2 * HalfWidth
Bits == 0..(Width - 1)   \* the last is the highest

ASSUME NetworkAssumption ==
    /\ Lo \in Interface /\ Radio \subseteq Interface
    /\ Class \in [Interface -> Virtual \union {"none"}]
    /\ HalfWidth \in Nat \ {0}
    /\ Address \subseteq SUBSET Bits
    /\ PrefixLen \subseteq 1..Width
    /\ MaxAddresses \in Nat /\ MaxChanges \in Nat

VARIABLES
    link,      \* the interfaces there are
    busy,      \* those that have sent or received a packet
    own,       \* the addresses of the host, each with its interface and network
    routes,    \* the routing table, in the order in which the kernel lists it
    hosts,     \* the neighbours in the ARP table
    at,        \* the file to be read next
    got,       \* what the request has made of the files it has read
    listed,    \* the interfaces it has answered with
    found,     \* or the hosts
    changes,   \* changes since the request began
    was,       \* facts that were true at some time since then
    held       \* addresses that were beyond doubt all the time since then

kernel == <<link, busy, own, routes, hosts>>
history == <<was, held>>
request == <<at, got, listed, found>>
vars == <<kernel, request, changes, history>>

Route == [iface : Interface, net : SUBSET Bits, len : 0..Width]
Owned == [addr : Address, iface : Interface, len : PrefixLen]
ArpState == {"incomplete", "complete", "permanent", "failed"}
Neighbour == [addr : Address, iface : Interface, state : ArpState]

-----------------------------------------------------------------------------
\* The kernel's tables.  An address brings a route to its network unless it is all of it.

MaskOf(len) == (Width - len)..(Width - 1)
NetOf(a, len) == a \intersect MaskOf(len)
Covers(r, a) == NetOf(a, r.len) = r.net

OnLink(o) == [iface |-> o.iface, net |-> NetOf(o.addr, o.len), len |-> o.len]
Default(i) == [iface |-> i, net |-> {}, len |-> 0]
RoutesOf(owned) == {OnLink(o) : o \in {p \in owned : p.len < Width}}

\* Of two numbers that one is the smaller which lacks the highest bit in which they differ.
Below(m, n) == \E k \in n \ m : \A j \in m \ n : j < k

\* Routes are listed by network, and of two prefixes the longer one first.
Precedes(r, s) == Below(r.net, s.net) \/ (r.net = s.net /\ r.len > s.len)
Listings(S) ==
    {s \in SetToSeqs(S) : \A j, k \in DOMAIN s : j < k => ~Precedes(s[k], s[j])}

-----------------------------------------------------------------------------
\* The files.

SwapBytes(n) == {IF k < HalfWidth THEN k + HalfWidth ELSE k - HalfWidth : k \in n}

RouteFile == [k \in DOMAIN routes |->
    [iface |-> routes[k].iface, dest |-> SwapBytes(routes[k].net),
     mask |-> SwapBytes(MaskOf(routes[k].len))]]

\* The leaves of the trie, each with what its lines say: the host's own first, then a network.
Under(a) == (IF \E o \in own : o.addr = a THEN <<"local">> ELSE <<>>)
            \o (IF \E r \in Range(routes) : r.net = a THEN <<"other">> ELSE <<>>)
FibTrieFile ==
    {[addr |-> a, under |-> Under(a)] :
        a \in {o.addr : o \in own} \union {r.net : r \in Range(routes)}}

-----------------------------------------------------------------------------
\* The parsers.

route_hex_to_be_int(h) == {IF k < HalfWidth THEN k + HalfWidth ELSE k - HalfWidth : k \in h}

\* The first loop of _parse_iface_ips: prev_ip lasts for the line right under the leaf, which
\* has to be "/32 host LOCAL".
LocalIps(file) == {l.addr : l \in {m \in file : m.under # <<>> /\ m.under[1] = "local"}}

\* 127., .0 and .255 are left out.
Low == 0..(HalfWidth - 1)
Loopback == HalfWidth..(Width - 2)
Eligible(a) == a \ Low # Loopback /\ a \intersect Low \notin {{}, Low}

\* Mutant: the mask is taken from the column before it, the metric.
IfaceNetsOffByOne(file) ==
    [k \in DOMAIN file |-> [iface |-> file[k].iface,
                            net |-> route_hex_to_be_int(file[k].dest), mask |-> {}]]

IfaceNets(file) ==
    [k \in DOMAIN file |-> [iface |-> file[k].iface,
                            net |-> route_hex_to_be_int(file[k].dest),
                            mask |-> route_hex_to_be_int(file[k].mask)]]

SameUnder(mask, a, b) == a \intersect mask = b \intersect mask

\* Mutant: reverse=True is missing.
ComesAscending(nets, j, k) ==
    LET m == Cardinality(nets[j].mask) n == Cardinality(nets[k].mask)
    IN  m < n \/ (m = n /\ j <= k)

\* The most specific mask first, in a stable sort; the first match wins.
Comes(nets, j, k) ==
    LET m == Cardinality(nets[j].mask) n == Cardinality(nets[k].mask)
    IN  m > n \/ (m = n /\ j <= k)

Assigned(nets, a) ==
    LET matches == {k \in DOMAIN nets : SameUnder(nets[k].mask, a, nets[k].net)}
    IN  {nets[k].iface : k \in {j \in matches : \A m \in matches : Comes(nets, j, m)}}

classify(i, wireless) ==
    CASE Class[i] # "none" -> Class[i]
      [] Class[i] = "none" /\ i \in wireless -> "wifi"
      [] OTHER -> "ethernet"

-----------------------------------------------------------------------------
\* What is true of the host.

Now == [here |-> link, gone |-> Interface \ link,
        up |-> {Lo} \union {r.iface : r \in Range(routes)},
        down |-> Interface \ ({Lo} \union {r.iface : r \in Range(routes)}),
        busy |-> busy, silent |-> Interface \ busy,
        own |-> {o.addr : o \in own},
        via |-> {v \in Interface \X Address :
                    \E r \in Range(routes) : r.iface = v[1] /\ Covers(r, v[2])},
        hosts |-> hosts]

\* The most specific route to the address is its own, and no other interface has as good a one.
Sure == {o \in own :
            /\ o.iface \in link /\ Eligible(o.addr) /\ o.len < Width
            /\ \A r \in Range(routes) :
                   r.iface # o.iface /\ Covers(r, o.addr) => r.len < o.len}

Init ==
    /\ link \in {Interface \ ({i} \ {Lo}) : i \in Interface} /\ busy = {Lo}
    /\ \/ /\ at = "flags_wireless" /\ hosts = {}
          /\ own \in {Range(f) : f \in UNION {[1..n -> Owned] : n \in 0..MaxAddresses}}
          /\ \A o, p \in own : o.iface \in link /\ (o.addr = p.addr => o = p)
          /\ \E d \in {{}} \union {{Default(i)} : i \in link \ {Lo}} :
                 routes \in Listings(RoutesOf(own) \union d)
       \/ /\ at = "arp_wireless" /\ own = {} /\ routes = <<>>
          /\ hosts \in {{}} \union {{n} : n \in {m \in Neighbour : m.iface \in link}}
    /\ got = [radio |-> {}, routed |-> {}, up |-> {}, running |-> {}, ips |-> {}, map |-> {}]
    /\ listed = {} /\ found = {} /\ changes = 0
    /\ was = Now /\ held = Sure

-----------------------------------------------------------------------------
\* Changes of the kernel's tables between two reads.

Changed ==
    /\ at # "answered" /\ changes < MaxChanges
    /\ changes' = changes + 1
    /\ LET now == Now' IN was' = [f \in DOMAIN was |-> was[f] \union now[f]]
    /\ held' = held \intersect Sure'
    /\ UNCHANGED request

\* The routes that stay keep their order.
Reroute(S) ==
    routes' \in {s \in Listings(S) : SelectSeq(s, LAMBDA r : r \in Range(routes))
                                     = SelectSeq(routes, LAMBDA r : r \in S)}

AddressAdded(o) ==
    /\ o.iface \in link /\ \A p \in own : p.addr # o.addr
    /\ own' = own \union {o}
    /\ Reroute(Range(routes) \union RoutesOf({o}))
    /\ UNCHANGED <<link, busy, hosts>>
    /\ Changed

AddressRemoved(o) ==
    /\ o \in own
    /\ own' = own \ {o}
    /\ Reroute(Range(routes) \ (RoutesOf({o}) \ RoutesOf(own')))
    /\ UNCHANGED <<link, busy, hosts>>
    /\ Changed

DefaultMoved(i) ==
    /\ i \in link
    /\ Reroute({r \in Range(routes) : r.len > 0} \union {Default(i)})
    /\ UNCHANGED <<link, busy, own, hosts>>
    /\ Changed

LinkRemoved(i) ==
    /\ i \in link \ {Lo}
    /\ link' = link \ {i} /\ busy' = busy \ {i}
    /\ own' = {o \in own : o.iface # i}
    /\ Reroute({r \in Range(routes) : r.iface # i})
    /\ hosts' = {n \in hosts : n.iface # i}
    /\ Changed

LinkAdded(i) ==
    /\ i \notin link
    /\ link' = link \union {i}
    /\ UNCHANGED <<busy, own, routes, hosts>>
    /\ Changed

Traffic(i) ==
    /\ i \in link \ busy
    /\ busy' = busy \union {i}
    /\ UNCHANGED <<link, own, routes, hosts>>
    /\ Changed

\* Of no concern to a request that does not read the ARP table.
NeighbourSeen(n) ==
    /\ at \in {"arp_wireless", "arp"} /\ n.iface \in link
    /\ hosts' = {m \in hosts : m.addr # n.addr \/ m.iface # n.iface} \union {n}
    /\ UNCHANGED <<link, busy, own, routes>>
    /\ Changed

-----------------------------------------------------------------------------
\* The requests.

Read(file, next, result) ==
    /\ at = file /\ at' = next
    /\ got' = result
    /\ UNCHANGED <<kernel, listed, found, changes, history>>

\* Mutant: the names are taken from dev.
parse_dev_names_as_wireless ==
    \/ Read("flags_wireless", "route", [got EXCEPT !.radio = link])
    \/ Read("arp_wireless", "arp", [got EXCEPT !.radio = link])

parse_wireless_names ==
    \/ Read("flags_wireless", "route", [got EXCEPT !.radio = link \intersect Radio])
    \/ Read("arp_wireless", "arp", [got EXCEPT !.radio = link \intersect Radio])

\* _parse_flags reads the routing table and then the traffic counters.
FlagsRoute ==
    Read("route", "dev",
         [got EXCEPT !.routed = {RouteFile[k].iface : k \in DOMAIN RouteFile} \union {Lo}])

\* Mutant: the counters are compared with >= rather than >.
FlagsDevAny ==
    Read("dev", "fib_trie", [got EXCEPT !.up = link \intersect got.routed, !.running = link])

FlagsDev ==
    Read("dev", "fib_trie", [got EXCEPT !.up = link \intersect got.routed,
                                        !.running = link \intersect busy])

\* _parse_iface_ips reads the addresses and then the routing table again.
IpsTrie == Read("fib_trie", "nets", [got EXCEPT !.ips = LocalIps(FibTrieFile)])

IpsRoute ==
    LET nets == IfaceNets(RouteFile)
    IN  Read("nets", "names",
             [got EXCEPT !.map = {v \in Interface \X got.ips :
                                     Eligible(v[2]) /\ v[1] \in Assigned(nets, v[2])}])

\* _list_interfaces asks for the names last; a name without flags has none.
list_interfaces ==
    /\ at = "names" /\ at' = "answered"
    /\ listed' = {[name |-> i, type |-> classify(i, got.radio),
                   virtual |-> classify(i, got.radio) \in Virtual,
                   up |-> i \in got.up, running |-> i \in got.running,
                   ips |-> {a \in got.ips : <<i, a>> \in got.map}] : i \in link}
    /\ UNCHANGED <<kernel, got, found, changes, history>>

\* Without an address of its link a neighbour is left out; it counts as reachable with the
\* flags 0x2 alone, which a permanent one does not have.
discover_hosts ==
    /\ at = "arp" /\ at' = "answered"
    /\ found' = {[addr |-> n.addr, iface |-> n.iface, reachable |-> n.state = "complete",
                   wireless |-> n.iface \in got.radio] :
                      n \in {m \in hosts : m.state # "incomplete"}}
    /\ UNCHANGED <<kernel, got, listed, changes, history>>

Next ==
    \/ parse_wireless_names \/ FlagsRoute \/ FlagsDev \/ IpsTrie \/ IpsRoute
    \/ list_interfaces \/ discover_hosts
    \/ \E o \in Owned : AddressAdded(o) \/ AddressRemoved(o)
    \/ \E i \in Interface : DefaultMoved(i) \/ LinkRemoved(i) \/ LinkAdded(i) \/ Traffic(i)
    \/ \E n \in Neighbour : NeighbourSeen(n)

Spec == Init /\ [][Next]_vars

-----------------------------------------------------------------------------
TypeOK ==
    /\ link \subseteq Interface /\ busy \subseteq link
    /\ own \subseteq Owned /\ hosts \subseteq Neighbour
    /\ routes \in Seq(Route)
    /\ at \in {"flags_wireless", "route", "dev", "fib_trie", "nets", "names",
               "arp_wireless", "arp", "answered"}
    /\ got.radio \subseteq Radio /\ got.routed \subseteq Interface
    /\ got.up \subseteq got.routed /\ got.running \subseteq Interface
    /\ got.ips \subseteq Address
    /\ got.map \subseteq Interface \X got.ips
    /\ changes \in 0..MaxChanges

\* What an answer says of an interface was true at some time while the request read its files,
\* and so was what it denies (system.py:208-229).
FlagsWereTrue ==
    \A x \in listed :
        /\ x.name \in was.here
        /\ x.name \in IF x.up THEN was.up ELSE was.down \union was.gone
        /\ x.name \in IF x.running THEN was.busy ELSE was.silent
        /\ x.type = "ethernet" => x.name \notin Radio \/ x.name \in was.gone

\* A host was a neighbour, in the state in which it is reported (system.py:232-255).
HostsWereTrue ==
    \A y \in found :
        \E n \in was.hosts : /\ n.addr = y.addr /\ n.iface = y.iface
                             /\ n.state # "incomplete" /\ (y.reachable <=> n.state = "complete")

\* The names, flags and hosts of an answer were never invented: each was so at some time.
ReportedWasTrue == FlagsWereTrue /\ HostsWereTrue

\* An address was one of the host's, under an interface with a route to it, although addresses
\* and routes come from different reads (system.py:133-149).
AddressesWereTrue ==
    \A x \in listed : x.ips \subseteq {a \in was.own : <<x.name, a>> \in was.via}

\* An address that was all the time better reached through its own interface than through
\* any other is listed under it and nowhere else, whatever else changed (system.py:133-149).
HeldIsListed ==
    at = "answered" =>
        \A o \in held : {x.name : x \in {y \in listed : o.addr \in y.ips}} = {o.iface}

\* No address is listed that was not there, and none left out that was there beyond doubt.
AddressesAreRight == AddressesWereTrue /\ HeldIsListed
=============================================================================
