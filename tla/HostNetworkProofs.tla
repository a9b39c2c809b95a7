--------------------------- MODULE HostNetworkProofs ---------------------------
(***************************************************************************)
(* What HostNetwork promises for any interfaces, addresses, tables and     *)
(* changes of them.                                                        *)
(*                                                                         *)
(* What the request has made of a file stays true of some time since the   *)
(* request began (Gathered), since the facts of that time are never        *)
(* forgotten (Remembered).  What was beyond doubt all the time still is    *)
(* when a file is read (Lasting), and so is found in it (Known); that the  *)
(* loop over the routes then ends at its own one is a matter of the tables *)
(* (Routing) and of the order in which the loop takes them.                *)
(***************************************************************************)
EXTENDS HostNetwork, FiniteSetTheorems, WellFoundedInduction, TLAPS

Field == {"here", "gone", "up", "down", "busy", "silent", "own", "via", "hosts"}
Part == {"radio", "routed", "up", "running", "ips", "map"}
Place == {"flags_wireless", "route", "dev", "fib_trie", "nets", "names",
          "arp_wireless", "arp", "answered"}

\* The tables of interfaces and addresses.
Tables ==
    /\ link \subseteq Interface /\ busy \subseteq link
    /\ own \subseteq Owned /\ IsFiniteSet(own) /\ hosts \subseteq Neighbour

\* The routes are those of the addresses and default ones.
Routing ==
    /\ routes \in Seq(Route) /\ IsFiniteSet(Range(routes))
    /\ {r \in Range(routes) : r.len > 0} = RoutesOf(own)
    /\ \A r \in Range(routes) : r.len = 0 => r.net = {}

\* The shapes of the two records, and what TypeOK says of the request: it holds because what
\* has not been read is still empty.
Shapes ==
    /\ DOMAIN was = Field /\ DOMAIN got = Part
    /\ at \in Place /\ changes \in 0..MaxChanges
    /\ got.radio \subseteq Radio /\ got.routed \subseteq Interface
    /\ got.up \subseteq got.routed /\ got.running \subseteq Interface
    /\ got.ips \subseteq Address /\ got.map \subseteq Interface \X got.ips
    /\ at \in {"flags_wireless", "route", "dev"} => got.up = {}
    /\ at \in {"flags_wireless", "route", "dev", "fib_trie"} => got.map = {}

\* What is true of the kernel now is among the facts.
Remembered == \A f \in Field : Now[f] \subseteq was[f]

\* What the files said that have been read.
Gathered ==
    /\ at \notin {"flags_wireless", "arp_wireless"} => Radio \ got.radio \subseteq was.gone
    /\ at \in {"dev", "fib_trie", "nets", "names"} =>
           got.routed \subseteq was.up /\ Interface \ got.routed \subseteq was.down
    /\ at \in {"fib_trie", "nets", "names"} =>
           /\ got.up \subseteq was.up /\ Interface \ got.up \subseteq was.down \union was.gone
           /\ got.running \subseteq was.busy /\ Interface \ got.running \subseteq was.silent
    /\ at \in {"nets", "names"} => got.ips \subseteq was.own
    /\ at = "names" => got.map \subseteq was.via

\* What was beyond doubt still is.
Lasting == held \subseteq Sure

\* It has been found in the files.
Known ==
    /\ at \in {"arp_wireless", "arp"} => held = {}
    /\ at \in {"nets", "names"} => \A o \in held : o.addr \in got.ips
    /\ at = "names" => \A o \in held, i \in Interface : <<i, o.addr>> \in got.map <=> i = o.iface

Invariant ==
    /\ Tables /\ Routing /\ Shapes /\ Remembered /\ Gathered /\ Lasting /\ Known
    /\ ReportedWasTrue /\ AddressesAreRight

-----------------------------------------------------------------------------
\* Numbers and masks.

\* Sets of naturals have a least element.
LEMMA LeastNat ==
    ASSUME NEW S \in SUBSET Nat, S # {}
    PROVE  \E m \in S : \A n \in S : m <= n
<1> DEFINE R == OpToRel(<, Nat)
<1>1. IsWellFoundedOn(R, Nat)
    BY NatLessThanWellFounded
<1>2. \A x, y \in Nat : <<x, y>> \in R <=> x < y
    BY DEF OpToRel
<1> HIDE DEF R
<1>3. PICK m \in S : \A n \in S : ~ (<<n, m>> \in R)
    BY <1>1, WFMin, Zenon
<1>4. ASSUME NEW n \in S PROVE m <= n
    <2>1. m \in Nat /\ n \in Nat
        OBVIOUS
    <2>2. ~ (n < m)
        BY <1>2, <1>3, <2>1, Zenon
    <2> QED
        BY <2>1, <2>2
<1> QED
    BY <1>4

\* A mask has as many bits as the network's length says.
LEMMA MaskSize ==
    ASSUME NEW len \in 0..Width
    PROVE  MaskOf(len) \subseteq Bits /\ Cardinality(MaskOf(len)) = len
<1>1. Width \in Nat /\ Width - len \in Int /\ Width - 1 \in Int
    BY NetworkAssumption DEF Width
<1>2. Cardinality(MaskOf(len))
          = IF Width - len > Width - 1 THEN 0 ELSE (Width - 1) - (Width - len) + 1
    BY <1>1, FS_Interval DEF MaskOf
<1>3. Cardinality(MaskOf(len)) = len
    <2> HIDE DEF Width, MaskOf
    <2> QED
        BY <1>1, <1>2
<1>4. MaskOf(len) \subseteq Bits
    BY <1>1 DEF MaskOf, Bits
<1> QED
    BY <1>3, <1>4

\* A number read in the wrong order and turned around is what it was.
LEMMA SwappedTwice ==
    ASSUME NEW n \in SUBSET Bits
    PROVE  route_hex_to_be_int(SwapBytes(n)) = n
<1> DEFINE swap(k) == IF k < HalfWidth THEN k + HalfWidth ELSE k - HalfWidth
<1>1. \A k \in n : swap(swap(k)) = k
    BY NetworkAssumption DEF Bits, Width
<1>2. SwapBytes(n) = {swap(k) : k \in n}
    BY DEF SwapBytes
<1>3. route_hex_to_be_int(SwapBytes(n)) = {swap(k) : k \in SwapBytes(n)}
    BY DEF route_hex_to_be_int
<1> HIDE DEF swap
<1> QED
    BY <1>1, <1>2, <1>3

-----------------------------------------------------------------------------
\* The tables and their files.

\* A listing has all the routes.
LEMMA Listed ==
    ASSUME NEW S, IsFiniteSet(S), S \subseteq Route, NEW s \in Listings(S)
    PROVE  s \in Seq(Route) /\ Range(s) = S
<1> DEFINE n == Cardinality(S)
<1>1. n \in Nat
    BY FS_CardinalityType
<1>2. s \in [1..n -> S] /\ \A i, j \in 1..n : i # j => s[i] # s[j]
    BY DEF Listings, SetToSeqs
<1>3. IsFiniteSet(1..n) /\ Cardinality(1..n) = n
    BY <1>1, FS_Interval
<1>4. s \in Injection(1..n, S)
    BY <1>2 DEF Injection, IsInjective
<1>5. s \in Surjection(1..n, S)
    BY <1>3, <1>4, FS_Injection
<1>6. Range(s) = S
    BY <1>2, <1>5 DEF Surjection, Range
<1>7. s \in Seq(Route)
    BY <1>1, <1>2
<1> QED
    BY <1>6, <1>7

\* The routes of finitely many addresses are finitely many, and not of length 0.
LEMMA RoutesAreRoutes ==
    ASSUME NEW S, S \subseteq Owned
    PROVE  /\ RoutesOf(S) \subseteq Route /\ \A r \in RoutesOf(S) : r.len > 0
           /\ \A r \in RoutesOf(S) : r.net \subseteq MaskOf(r.len)
           /\ IsFiniteSet(S) => IsFiniteSet(RoutesOf(S))
<1>1. ASSUME NEW r \in RoutesOf(S)
      PROVE  r \in Route /\ r.len > 0 /\ r.net \subseteq MaskOf(r.len)
    <2>1. PICK o \in S : r = OnLink(o)
        BY <1>1 DEF RoutesOf
    <2>2. o.iface \in Interface /\ o.addr \in Address /\ o.len \in PrefixLen
        BY DEF Owned
    <2>3. o.len \in 1..Width /\ o.len \in 0..Width /\ o.len > 0
        BY <2>2, NetworkAssumption DEF Width
    <2>4. NetOf(o.addr, o.len) \subseteq MaskOf(o.len) /\ MaskOf(o.len) \subseteq Bits
        BY <2>3, MaskSize DEF NetOf
    <2> QED
        BY <2>1, <2>2, <2>3, <2>4 DEF OnLink, Route
<1>2. ASSUME IsFiniteSet(S) PROVE IsFiniteSet(RoutesOf(S))
    <2> DEFINE T == {p \in S : p.len < Width}
               f == [o \in T |-> OnLink(o)]
    <2>1. IsFiniteSet(T)
        BY <1>2, FS_Subset
    <2>2. f \in [T -> RoutesOf(S)] /\ \A r \in RoutesOf(S) : \E o \in T : f[o] = r
        BY DEF RoutesOf
    <2>3. f \in Surjection(T, RoutesOf(S))
        BY <2>2 DEF Surjection
    <2> QED
        BY <2>1, <2>3, FS_Surjection
<1> QED
    BY <1>1, <1>2

\* The interfaces in the file are those with a route.
LEMMA RoutedInFile ==
    {RouteFile[k].iface : k \in DOMAIN RouteFile} = {r.iface : r \in Range(routes)}
BY DEF RouteFile, Range

\* The parser gets every route back as the kernel has it.
LEMMA ParsedRoutes ==
    ASSUME Tables, Routing, NEW k \in DOMAIN routes
    PROVE  /\ IfaceNets(RouteFile)[k] = [iface |-> routes[k].iface, net |-> routes[k].net,
                                         mask |-> MaskOf(routes[k].len)]
           /\ routes[k].net \subseteq MaskOf(routes[k].len)
           /\ routes[k].len \in 0..Width /\ routes[k] \in Range(routes)
<1>1. routes[k] \in Route /\ routes[k] \in Range(routes)
    BY DEF Routing, Range
<1>2. routes[k].len \in 0..Width /\ routes[k].net \subseteq Bits
    BY <1>1 DEF Route
<1>3. MaskOf(routes[k].len) \subseteq Bits
    BY <1>2, MaskSize
<1>4. routes[k].net \subseteq MaskOf(routes[k].len)
    <2>1. CASE routes[k].len = 0
        BY <1>1, <2>1 DEF Routing
    <2>2. CASE routes[k].len > 0
        <3>1. routes[k] \in RoutesOf(own)
            BY <1>1, <2>2 DEF Routing
        <3> QED
            BY <3>1, RoutesAreRoutes DEF Tables
    <2> QED
        BY <1>2, <2>1, <2>2
<1>5. /\ RouteFile[k] = [iface |-> routes[k].iface, dest |-> SwapBytes(routes[k].net),
                         mask |-> SwapBytes(MaskOf(routes[k].len))]
      /\ DOMAIN RouteFile = DOMAIN routes
    BY DEF RouteFile
<1>6. IfaceNets(RouteFile)[k] = [iface |-> RouteFile[k].iface,
                                 net |-> route_hex_to_be_int(RouteFile[k].dest),
                                 mask |-> route_hex_to_be_int(RouteFile[k].mask)]
    BY <1>5 DEF IfaceNets
<1>7. /\ route_hex_to_be_int(SwapBytes(routes[k].net)) = routes[k].net
      /\ route_hex_to_be_int(SwapBytes(MaskOf(routes[k].len))) = MaskOf(routes[k].len)
    BY <1>2, <1>3, SwappedTwice
<1> QED
    BY <1>1, <1>2, <1>4, <1>5, <1>6, <1>7

\* The routes that match an address are those that cover it, and the longer ones come first.
LEMMA RoutesThatMatch ==
    ASSUME Tables, Routing
    PROVE  LET nets == IfaceNets(RouteFile)
           IN  /\ DOMAIN nets = DOMAIN routes
               /\ \A k \in DOMAIN routes :
                      /\ nets[k].iface = routes[k].iface
                      /\ \A a : SameUnder(nets[k].mask, a, nets[k].net) <=> Covers(routes[k], a)
               /\ \A j, k \in DOMAIN routes :
                      Comes(nets, j, k) <=> \/ routes[j].len > routes[k].len
                                            \/ routes[j].len = routes[k].len /\ j <= k
<1> DEFINE nets == IfaceNets(RouteFile)
<1>1. DOMAIN nets = DOMAIN routes
    BY DEF IfaceNets, RouteFile
<1>2. ASSUME NEW k \in DOMAIN routes
      PROVE  /\ nets[k].iface = routes[k].iface /\ nets[k].mask = MaskOf(routes[k].len)
             /\ nets[k].net = routes[k].net
             /\ Cardinality(nets[k].mask) = routes[k].len
             /\ nets[k].net \subseteq nets[k].mask
    <2>1. /\ nets[k] = [iface |-> routes[k].iface, net |-> routes[k].net,
                        mask |-> MaskOf(routes[k].len)]
          /\ routes[k].net \subseteq MaskOf(routes[k].len) /\ routes[k].len \in 0..Width
        BY ParsedRoutes
    <2> HIDE DEF nets
    <2> QED
        BY <2>1, MaskSize
<1> HIDE DEF nets
<1>3. ASSUME NEW k \in DOMAIN routes, NEW a
      PROVE  SameUnder(nets[k].mask, a, nets[k].net) <=> Covers(routes[k], a)
    BY <1>2 DEF SameUnder, Covers, NetOf
<1>4. ASSUME NEW j \in DOMAIN routes, NEW k \in DOMAIN routes
      PROVE  Comes(nets, j, k) <=> \/ routes[j].len > routes[k].len
                                   \/ routes[j].len = routes[k].len /\ j <= k
    BY <1>2 DEF Comes
<1> QED
    BY <1>1, <1>2, <1>3, <1>4 DEF nets

\* An interface that an address is assigned to has a route to it.
LEMMA AssignedCovers ==
    ASSUME Tables, Routing, NEW a, NEW i \in Assigned(IfaceNets(RouteFile), a)
    PROVE  \E r \in Range(routes) : r.iface = i /\ Covers(r, a)
<1> DEFINE nets == IfaceNets(RouteFile)
           matches == {k \in DOMAIN nets : SameUnder(nets[k].mask, a, nets[k].net)}
<1>1. PICK k \in matches : i = nets[k].iface
    BY DEF Assigned
<1>2. /\ DOMAIN nets = DOMAIN routes
      /\ \A j \in DOMAIN routes :
             /\ nets[j].iface = routes[j].iface
             /\ \A b : SameUnder(nets[j].mask, b, nets[j].net) <=> Covers(routes[j], b)
    BY RoutesThatMatch
<1> HIDE DEF nets
<1>3. k \in DOMAIN routes /\ routes[k].iface = i /\ Covers(routes[k], a)
    BY <1>1, <1>2
<1> QED
    BY <1>3 DEF Range

\* The loop ends at the own route of an address that no other interface reaches as well.
LEMMA AssignedToOwn ==
    ASSUME Tables, Routing, NEW o \in Sure
    PROVE  Assigned(IfaceNets(RouteFile), o.addr) = {o.iface}
<1> DEFINE nets == IfaceNets(RouteFile)
           matches == {k \in DOMAIN nets : SameUnder(nets[k].mask, o.addr, nets[k].net)}
           first == {j \in matches : \A m \in matches : Comes(nets, j, m)}
<1>1. Assigned(nets, o.addr) = {nets[k].iface : k \in first}
    BY DEF Assigned
<1>2. /\ DOMAIN nets = DOMAIN routes
      /\ \A k \in DOMAIN routes :
             /\ nets[k].iface = routes[k].iface
             /\ \A b : SameUnder(nets[k].mask, b, nets[k].net) <=> Covers(routes[k], b)
      /\ \A j, k \in DOMAIN routes :
             Comes(nets, j, k) <=> \/ routes[j].len > routes[k].len
                                   \/ routes[j].len = routes[k].len /\ j <= k
    BY RoutesThatMatch
<1> HIDE DEF nets
<1>3. matches = {k \in DOMAIN routes : Covers(routes[k], o.addr)}
    BY <1>2
<1>4. /\ o \in own /\ o.len < Width
      /\ \A r \in Range(routes) : r.iface # o.iface /\ Covers(r, o.addr) => r.len < o.len
    BY DEF Sure
<1>5. o.len \in Nat /\ Width \in Nat /\ DOMAIN routes \subseteq Nat
      /\ \A k \in DOMAIN routes : routes[k].len \in 0..Width /\ routes[k] \in Range(routes)
    <2>1. o.len \in PrefixLen
        BY <1>4 DEF Tables, Owned
    <2>2. Width \in Nat
        BY NetworkAssumption DEF Width
    <2>3. o.len \in 1..Width
        BY <2>1, NetworkAssumption
    <2>4. DOMAIN routes \subseteq Nat
        BY DEF Routing
    <2>5. \A k \in DOMAIN routes : routes[k].len \in 0..Width /\ routes[k] \in Range(routes)
        BY ParsedRoutes
    <2> HIDE DEF Width
    <2> QED
        BY <2>2, <2>3, <2>4, <2>5
<1>6. PICK k0 \in matches : routes[k0].len = o.len
    <2>1. OnLink(o) \in Range(routes)
        BY <1>4 DEF RoutesOf, Routing
    <2>2. PICK k \in DOMAIN routes : routes[k] = OnLink(o)
        BY <2>1 DEF Range
    <2>3. routes[k].len = o.len /\ Covers(routes[k], o.addr)
        BY <2>2 DEF OnLink, Covers
    <2> QED
        BY <1>3, <2>3
<1> DEFINE lacks == {Width - routes[k].len : k \in matches}
<1>7. PICK d \in lacks : \A e \in lacks : d <= e
    <2>1. lacks \subseteq Nat /\ lacks # {}
        BY <1>3, <1>5, <1>6
    <2> HIDE DEF lacks
    <2> QED
        BY <2>1, LeastNat
<1> DEFINE longest == {k \in matches : Width - routes[k].len = d}
<1>8. PICK j \in longest : \A k \in longest : j <= k
    <2>1. longest \subseteq Nat /\ longest # {}
        BY <1>3, <1>5, <1>7
    <2> HIDE DEF longest
    <2> QED
        BY <2>1, LeastNat
<1>9. j \in first
    <2> SUFFICES ASSUME NEW m \in matches PROVE Comes(nets, j, m)
        BY <1>8
    <2>1. j \in DOMAIN routes /\ m \in DOMAIN routes
        BY <1>3, <1>8
    <2>2. Width - routes[j].len = d /\ Width - routes[m].len \in lacks
        BY <1>8
    <2>3. Width - routes[j].len <= Width - routes[m].len
        BY <1>7, <2>2
    <2>4. routes[j].len \in Nat /\ routes[m].len \in Nat
        BY <1>5, <2>1
    <2>5. CASE routes[m].len = routes[j].len
        <3>1. m \in longest
            BY <2>2, <2>5
        <3> QED
            BY <1>2, <1>8, <2>1, <2>5, <3>1
    <2>6. CASE routes[m].len # routes[j].len
        <3>1. routes[j].len > routes[m].len
            BY <1>5, <2>3, <2>4, <2>6
        <3> QED
            BY <1>2, <2>1, <3>1
    <2> QED
        BY <2>5, <2>6
<1>10. ASSUME NEW k \in first PROVE nets[k].iface = o.iface
    <2>1. k \in DOMAIN routes /\ k0 \in DOMAIN routes /\ Comes(nets, k, k0)
        BY <1>3
    <2>2. routes[k].len >= o.len
        <3>1. routes[k].len \in Nat
            BY <1>5, <2>1
        <3>2. routes[k].len > o.len \/ routes[k].len = o.len
            BY <1>2, <1>6, <2>1
        <3> QED
            BY <1>5, <3>1, <3>2
    <2>3. Covers(routes[k], o.addr) /\ routes[k] \in Range(routes)
        BY <1>3, <1>5
    <2>4. ~ (routes[k].len < o.len)
        BY <1>5, <2>1, <2>2
    <2> QED
        BY <1>2, <1>4, <2>1, <2>3, <2>4
<1> HIDE DEF first
<1> QED
    BY <1>1, <1>9, <1>10 DEF nets

\* The first loop finds all the host's own addresses and no other.
LEMMA LocalIpsAreOwn ==
    LocalIps(FibTrieFile) = {o.addr : o \in own}
<1> DEFINE addrs == {o.addr : o \in own}
           leaves == addrs \union {r.net : r \in Range(routes)}
<1>1. FibTrieFile = {[addr |-> a, under |-> Under(a)] : a \in leaves}
    BY DEF FibTrieFile
<1>2. ASSUME NEW a PROVE (Under(a) # <<>> /\ Under(a)[1] = "local") <=> a \in addrs
    <2>1. CASE a \in addrs
        <3>1. \E o \in own : o.addr = a
            BY <2>1
        <3>2. Under(a) \in {<<"local">> \o <<"other">>, <<"local">> \o <<>>}
            BY <3>1 DEF Under
        <3> QED
            BY <2>1, <3>2
    <2>2. CASE a \notin addrs
        <3>1. ~ \E o \in own : o.addr = a
            BY <2>2
        <3>2. Under(a) \in {<<>> \o <<"other">>, <<>> \o <<>>}
            BY <3>1 DEF Under
        <3> QED
            BY <2>2, <3>2
    <2> QED
        BY <2>1, <2>2
<1> HIDE DEF addrs
<1>3. LocalIps(FibTrieFile) = {a \in leaves : Under(a) # <<>> /\ Under(a)[1] = "local"}
    <2> DEFINE leaf(a) == [addr |-> a, under |-> Under(a)]
    <2>1. LocalIps(FibTrieFile)
              = {l.addr : l \in {m \in {leaf(a) : a \in leaves} :
                                    m.under # <<>> /\ m.under[1] = "local"}}
        BY <1>1 DEF LocalIps
    <2>2. \A a : leaf(a).addr = a /\ leaf(a).under = Under(a)
        OBVIOUS
    <2> HIDE DEF leaves, leaf
    <2> QED
        BY <2>1, <2>2
<1> QED
    BY <1>2, <1>3 DEF addrs

\* A table listed anew has the routes of the addresses, and at most default ones besides.
LEMMA ListedRouting ==
    ASSUME NEW owned, owned \subseteq Owned, IsFiniteSet(owned), NEW D,
           IsFiniteSet(D), \A r \in D : r \in Route /\ r.len = 0 /\ r.net = {},
           NEW s \in Listings(RoutesOf(owned) \union D)
    PROVE  /\ s \in Seq(Route) /\ Range(s) = RoutesOf(owned) \union D /\ IsFiniteSet(Range(s))
           /\ {r \in Range(s) : r.len > 0} = RoutesOf(owned)
           /\ \A r \in Range(s) : r.len = 0 => r.net = {}
<1>1. /\ RoutesOf(owned) \subseteq Route /\ IsFiniteSet(RoutesOf(owned))
      /\ \A r \in RoutesOf(owned) : r.len > 0
    BY RoutesAreRoutes
<1>2. IsFiniteSet(RoutesOf(owned) \union D)
    BY <1>1, FS_Union
<1>3. s \in Seq(Route) /\ Range(s) = RoutesOf(owned) \union D
    BY <1>1, <1>2, Listed
<1>4. {r \in Range(s) : r.len > 0} = RoutesOf(owned)
    BY <1>1, <1>3
<1>5. \A r \in Range(s) : r.len = 0 => r.net = {}
    BY <1>1, <1>3
<1> QED
    BY <1>2, <1>3, <1>4, <1>5

\* A default route belongs to no address.
LEMMA DefaultIsRoute ==
    ASSUME NEW i \in Interface
    PROVE  Default(i) \in Route /\ Default(i).len = 0 /\ Default(i).net = {}
<1>1. 0 \in 0..Width
    BY NetworkAssumption DEF Width
<1> HIDE DEF Width
<1> QED
    BY <1>1 DEF Default, Route

\* A request begins with the facts of that moment, and has read nothing.
LEMMA InitInvariant == Init => Invariant
<1> SUFFICES ASSUME Init PROVE Invariant
    OBVIOUS
<1>1. PICK i \in Interface : link = Interface \ ({i} \ {Lo})
    BY DEF Init
<1>2. /\ busy = {Lo} /\ was = Now /\ held = Sure /\ listed = {} /\ found = {} /\ changes = 0
      /\ got = [radio |-> {}, routed |-> {}, up |-> {}, running |-> {}, ips |-> {}, map |-> {}]
      /\ at \in {"flags_wireless", "arp_wireless"}
    BY DEF Init
<1>3. own \subseteq Owned /\ IsFiniteSet(own)
    <2>1. CASE own = {}
        BY <2>1, FS_EmptySet
    <2>2. CASE own \in {Range(f) : f \in UNION {[1..n -> Owned] : n \in 0..MaxAddresses}}
        <3>1. PICK n \in 0..MaxAddresses : \E f \in [1..n -> Owned] : own = Range(f)
            BY <2>2
        <3>2. PICK f \in [1..n -> Owned] : own = Range(f)
            BY <3>1
        <3>3. own \subseteq Owned /\ f \in [1..n -> own] /\ \A o \in own : \E k \in 1..n : f[k] = o
            BY <3>2 DEF Range
        <3>4. f \in Surjection(1..n, own)
            BY <3>3 DEF Surjection
        <3>5. IsFiniteSet(1..n)
            BY <3>1, FS_Interval, NetworkAssumption
        <3> QED
            BY <3>3, <3>4, <3>5, FS_Surjection
    <2> QED
        BY <2>1, <2>2 DEF Init
<1>4. hosts \subseteq Neighbour
    BY DEF Init
<1>5. Tables
    BY <1>1, <1>2, <1>3, <1>4, NetworkAssumption DEF Tables
<1>6. Routing
    <2>1. ASSUME own = {}, routes = <<>> PROVE Routing
        <3>1. Range(routes) = {} /\ RoutesOf(own) = {}
            BY <2>1 DEF Range, RoutesOf
        <3> QED
            BY <2>1, <3>1, FS_EmptySet DEF Routing
    <2>2. ASSUME NEW D \in {{}} \union {{Default(j)} : j \in link \ {Lo}},
                 routes \in Listings(RoutesOf(own) \union D)
          PROVE  Routing
        <3>1. \A r \in D : r \in Route /\ r.len = 0 /\ r.net = {}
            BY <1>1, DefaultIsRoute
        <3>2. IsFiniteSet(D)
            BY FS_EmptySet, FS_Singleton
        <3> QED
            BY <1>3, <2>2, <3>1, <3>2, ListedRouting DEF Routing
    <2> QED
        BY <2>1, <2>2 DEF Init
<1>7. Shapes
    <2>1. DOMAIN was = Field
        BY <1>2 DEF Now, Field
    <2>2. DOMAIN got = Part
        BY <1>2 DEF Part
    <2>3. changes \in 0..MaxChanges
        BY <1>2, NetworkAssumption
    <2>4. at \in Place
        BY <1>2 DEF Place
    <2> QED
        BY <1>2, <2>1, <2>2, <2>3, <2>4 DEF Shapes
<1>8. Remembered
    BY <1>2 DEF Remembered
<1>9. Gathered
    BY <1>2 DEF Gathered
<1>10. Lasting /\ Known
    <2>1. own = {} => Sure = {}
        BY DEF Sure
    <2>2. at = "arp_wireless" => own = {}
        BY DEF Init
    <2> QED
        BY <1>2, <2>1, <2>2 DEF Known, Lasting
<1>11. ReportedWasTrue /\ AddressesAreRight
    BY <1>2 DEF ReportedWasTrue, FlagsWereTrue, HostsWereTrue, AddressesAreRight,
                AddressesWereTrue, HeldIsListed
<1> QED
    BY <1>5, <1>6, <1>7, <1>8, <1>9, <1>10, <1>11 DEF Invariant

\* No fact is forgotten when the tables change, and those of the new tables are added.
LEMMA ChangesAreRemembered ==
    ASSUME Invariant, Changed, Tables', Routing'
    PROVE  Invariant'
<1>1. /\ was' = [f \in DOMAIN was |-> was[f] \union Now'[f]] /\ held' = held \intersect Sure'
      /\ UNCHANGED <<at, got, listed, found>> /\ at # "answered"
      /\ changes < MaxChanges /\ changes' = changes + 1
    BY DEF Changed, request
<1>2. Shapes
    BY DEF Invariant
<1>3. \A f \in Field : was'[f] = was[f] \union Now'[f]
    BY <1>1, <1>2 DEF Shapes
<1>4. Shapes'
    <2>1. changes' \in 0..MaxChanges
        BY <1>1, <1>2, NetworkAssumption DEF Shapes
    <2> QED
        BY <1>1, <1>2, <2>1 DEF Shapes
<1>5. Remembered'
    BY <1>3 DEF Remembered
<1>6. /\ was.here \subseteq was'.here /\ was.gone \subseteq was'.gone
      /\ was.up \subseteq was'.up /\ was.down \subseteq was'.down
      /\ was.busy \subseteq was'.busy /\ was.silent \subseteq was'.silent
      /\ was.own \subseteq was'.own /\ was.via \subseteq was'.via
      /\ was.hosts \subseteq was'.hosts
    <2>1. \A f \in Field : was[f] \subseteq was'[f]
        BY <1>3
    <2> QED
        BY <2>1 DEF Field
<1>7. Gathered'
    BY <1>1, <1>6 DEF Invariant, Gathered
<1>8. Lasting' /\ Known'
    <2>1. Known
        BY DEF Invariant
    <2> QED
        BY <1>1, <2>1 DEF Lasting, Known
<1>9. FlagsWereTrue' /\ HostsWereTrue'
    <2>1. FlagsWereTrue /\ HostsWereTrue
        BY DEF Invariant, ReportedWasTrue
    <2>2. FlagsWereTrue'
        BY <1>1, <1>6, <2>1 DEF FlagsWereTrue
    <2>3. HostsWereTrue'
        BY <1>1, <1>6, <2>1 DEF HostsWereTrue
    <2> QED
        BY <2>2, <2>3
<1>10. AddressesWereTrue' /\ HeldIsListed'
    <2>1. AddressesWereTrue
        BY DEF Invariant, AddressesAreRight
    <2>2. AddressesWereTrue'
        BY <1>1, <1>6, <2>1 DEF AddressesWereTrue
    <2> QED
        BY <1>1, <2>2 DEF HeldIsListed
<1> QED
    BY <1>4, <1>5, <1>7, <1>8, <1>9, <1>10 DEF Invariant, ReportedWasTrue, AddressesAreRight

\* The routes are those of the addresses and the default ones.
LEMMA DefaultRoutes ==
    ASSUME Routing, NEW D, D = {r \in Range(routes) : r.len = 0}
    PROVE  /\ Range(routes) = RoutesOf(own) \union D /\ IsFiniteSet(D)
           /\ \A r \in D : r \in Route /\ r.len = 0 /\ r.net = {}
<1>1. \A r \in Range(routes) : r \in Route
    BY DEF Routing, Range
<1>2. \A r \in Range(routes) : r.len \in 0..Width
    BY <1>1 DEF Route
<1>3. Range(routes) = RoutesOf(own) \union D
    <2>1. \A r \in Range(routes) : r.len = 0 \/ r.len > 0
        BY <1>2, NetworkAssumption DEF Width
    <2>2. {r \in Range(routes) : r.len > 0} = RoutesOf(own)
        BY DEF Routing
    <2> QED
        BY <2>1, <2>2
<1>4. IsFiniteSet(D)
    BY FS_Subset DEF Routing
<1>5. \A r \in D : r.net = {}
    BY DEF Routing
<1> QED
    BY <1>1, <1>3, <1>4, <1>5

\* The table made anew for the addresses that there are then.
LEMMA RerouteKeeps ==
    ASSUME own' \subseteq Owned, IsFiniteSet(own'), NEW D, IsFiniteSet(D),
           \A r \in D : r \in Route /\ r.len = 0 /\ r.net = {},
           NEW S, S = RoutesOf(own') \union D, Reroute(S)
    PROVE  Routing'
<1>1. routes' \in Listings(RoutesOf(own') \union D)
    BY DEF Reroute
<1>2. /\ routes' \in Seq(Route) /\ IsFiniteSet(Range(routes'))
      /\ {r \in Range(routes') : r.len > 0} = RoutesOf(own')
      /\ \A r \in Range(routes') : r.len = 0 => r.net = {}
    BY <1>1, ListedRouting
<1> QED
    BY <1>2 DEF Routing

\* An address brings its own route and no other, whatever other addresses share it.
LEMMA AddressesKeepTables ==
    ASSUME Tables, Routing, NEW o \in Owned, AddressAdded(o) \/ AddressRemoved(o)
    PROVE  Tables' /\ Routing'
<1> DEFINE D == {r \in Range(routes) : r.len = 0}
<1>1. /\ Range(routes) = RoutesOf(own) \union D /\ IsFiniteSet(D)
      /\ \A r \in D : r \in Route /\ r.len = 0 /\ r.net = {}
    BY DefaultRoutes
<1>2. link' = link /\ busy' = busy /\ hosts' = hosts
    BY DEF AddressAdded, AddressRemoved
<1> HIDE DEF D
<1>3. CASE AddressAdded(o)
    <2>1. own' = own \union {o} /\ Reroute(Range(routes) \union RoutesOf({o}))
        BY <1>3 DEF AddressAdded
    <2>2. own' \subseteq Owned /\ IsFiniteSet(own')
        BY <2>1, FS_AddElement DEF Tables
    <2>3. RoutesOf(own') = RoutesOf(own) \union RoutesOf({o})
        BY <2>1 DEF RoutesOf
    <2>4. Range(routes) \union RoutesOf({o}) = RoutesOf(own') \union D
        BY <1>1, <2>3
    <2>5. Routing'
        BY <1>1, <2>1, <2>2, <2>4, RerouteKeeps
    <2> QED
        BY <1>2, <2>2, <2>5 DEF Tables
<1>4. CASE AddressRemoved(o)
    <2> DEFINE S == Range(routes) \ (RoutesOf({o}) \ RoutesOf(own'))
    <2>1. o \in own /\ own' = own \ {o} /\ Reroute(S)
        BY <1>4 DEF AddressRemoved
    <2>2. own' \subseteq Owned /\ IsFiniteSet(own')
        BY <2>1, FS_Subset DEF Tables
    <2>3. RoutesOf(own) = RoutesOf(own') \union RoutesOf({o})
        BY <2>1 DEF RoutesOf
    <2>4. \A r \in RoutesOf({o}) : r.len > 0
        BY RoutesAreRoutes
    <2>5. S = RoutesOf(own') \union D
        BY <1>1, <2>3, <2>4
    <2> HIDE DEF S
    <2>6. Routing'
        BY <1>1, <2>1, <2>2, <2>5, RerouteKeeps
    <2> QED
        BY <1>2, <2>2, <2>6 DEF Tables
<1> QED
    BY <1>3, <1>4

\* A default route replaces the one there was; an interface takes its addresses and routes along.
LEMMA LinksKeepTables ==
    ASSUME Tables, Routing, NEW i \in Interface,
           DefaultMoved(i) \/ LinkRemoved(i) \/ LinkAdded(i) \/ Traffic(i)
    PROVE  Tables' /\ Routing'
<1> DEFINE D == {r \in Range(routes) : r.len = 0}
<1>1. /\ Range(routes) = RoutesOf(own) \union D /\ IsFiniteSet(D)
      /\ \A r \in D : r \in Route /\ r.len = 0 /\ r.net = {}
    BY DefaultRoutes
<1> HIDE DEF D
<1>2. CASE DefaultMoved(i)
    <2> DEFINE S == {r \in Range(routes) : r.len > 0} \union {Default(i)}
    <2>1. UNCHANGED <<link, busy, own, hosts>> /\ Reroute(S)
        BY <1>2 DEF DefaultMoved
    <2>2. S = RoutesOf(own') \union {Default(i)}
        BY <2>1 DEF Routing
    <2> HIDE DEF S
    <2>3. IsFiniteSet({Default(i)})
        BY FS_Singleton
    <2>4. \A r \in {Default(i)} : r \in Route /\ r.len = 0 /\ r.net = {}
        BY DefaultIsRoute
    <2>5. own' \subseteq Owned /\ IsFiniteSet(own')
        BY <2>1 DEF Tables
    <2>6. Routing'
        BY <2>1, <2>2, <2>3, <2>4, <2>5, RerouteKeeps
    <2> QED
        BY <2>1, <2>6 DEF Tables
<1>3. CASE LinkRemoved(i)
    <2> DEFINE S == {r \in Range(routes) : r.iface # i}
               E == {r \in D : r.iface # i}
    <2>1. /\ link' = link \ {i} /\ busy' = busy \ {i}
          /\ own' = {o \in own : o.iface # i} /\ hosts' = {n \in hosts : n.iface # i}
          /\ Reroute(S)
        BY <1>3 DEF LinkRemoved
    <2>2. own' \subseteq Owned /\ IsFiniteSet(own')
        BY <2>1, FS_Subset DEF Tables
    <2>3. IsFiniteSet(E)
        BY <1>1, FS_Subset
    <2>4. ASSUME NEW r PROVE r \in RoutesOf(own') <=> r \in RoutesOf(own) /\ r.iface # i
        <3>1. \A o : OnLink(o).iface = o.iface
            BY DEF OnLink
        <3> QED
            BY <2>1, <3>1 DEF RoutesOf
    <2>5. S = RoutesOf(own') \union E
        BY <1>1, <2>4
    <2>6. \A r \in E : r \in Route /\ r.len = 0 /\ r.net = {}
        BY <1>1
    <2> HIDE DEF S, E
    <2>7. Routing'
        BY <2>1, <2>2, <2>3, <2>5, <2>6, RerouteKeeps
    <2> QED
        BY <2>1, <2>2, <2>7 DEF Tables
<1>4. CASE LinkAdded(i) \/ Traffic(i)
    <2>1. /\ UNCHANGED <<own, routes, hosts>>
          /\ \/ link' = link \union {i} /\ busy' = busy
             \/ i \in link /\ link' = link /\ busy' = busy \union {i}
        BY <1>4 DEF LinkAdded, Traffic
    <2>2. Tables'
        BY <2>1 DEF Tables
    <2>3. Routing'
        BY <2>1 DEF Routing, RoutesOf, OnLink, NetOf, MaskOf, Width
    <2> QED
        BY <2>2, <2>3
<1> QED
    BY <1>2, <1>3, <1>4

\* The facts of the moment at which a file is read.
LEMMA ReadInTheMoment ==
    ASSUME Invariant
    PROVE  /\ link \subseteq was.here /\ Interface \ link \subseteq was.gone
           /\ {Lo} \union {r.iface : r \in Range(routes)} \subseteq was.up
           /\ Interface \ ({Lo} \union {r.iface : r \in Range(routes)}) \subseteq was.down
           /\ busy \subseteq was.busy /\ Interface \ busy \subseteq was.silent
           /\ {o.addr : o \in own} \subseteq was.own
           /\ {v \in Interface \X Address :
                   \E r \in Range(routes) : r.iface = v[1] /\ Covers(r, v[2])} \subseteq was.via
           /\ hosts \subseteq was.hosts
<1>1. \A f \in Field : Now[f] \subseteq was[f]
    BY DEF Invariant, Remembered
<1> QED
    BY <1>1 DEF Field, Now

\* While the tables stay, so does all that is true of them.
LEMMA TablesStay ==
    ASSUME UNCHANGED <<link, busy, own, routes, hosts>>
    PROVE  Now' = Now /\ Sure' = Sure /\ (Tables => Tables') /\ (Routing => Routing')
<1>1. Now' = Now
    BY DEF Now, Covers, NetOf, MaskOf, Width
<1>2. Sure' = Sure
    BY DEF Sure, Eligible, Low, Loopback, Covers, NetOf, MaskOf, Width
<1>3. Tables => Tables'
    BY DEF Tables
<1>4. Routing => Routing'
    BY DEF Routing, RoutesOf, OnLink, NetOf, MaskOf, Width
<1> QED
    BY <1>1, <1>2, <1>3, <1>4

\* To read a file leaves the tables and the facts, and says nothing yet.
LEMMA ReadsKeep ==
    ASSUME Invariant, NEW file, NEW next, NEW result, Read(file, next, result),
           next # "answered", Shapes', Gathered', Known'
    PROVE  Invariant'
<1>1. UNCHANGED <<link, busy, own, routes, hosts, listed, found, was, held>> /\ at' = next
    BY DEF Read, kernel, history
<1>2. Tables' /\ Routing' /\ Remembered' /\ Lasting'
    BY <1>1, TablesStay DEF Invariant, Remembered, Lasting
<1>3. FlagsWereTrue' /\ HostsWereTrue'
    BY <1>1 DEF Invariant, ReportedWasTrue, FlagsWereTrue, HostsWereTrue
<1>4. AddressesWereTrue' /\ HeldIsListed'
    BY <1>1 DEF Invariant, AddressesAreRight, AddressesWereTrue, HeldIsListed
<1> QED
    BY <1>2, <1>3, <1>4 DEF Invariant, ReportedWasTrue, AddressesAreRight

\* The first two files tell which interfaces are wireless and which have a route.
LEMMA NamesAndRoutesKeep ==
    ASSUME Invariant, parse_wireless_names \/ FlagsRoute
    PROVE  Invariant'
<1>1. Tables /\ Shapes /\ Gathered /\ Known
    BY DEF Invariant
<1>2. CASE parse_wireless_names
    <2> DEFINE result == [got EXCEPT !.radio = link \intersect Radio]
    <2>1. PICK file, next : Read(file, next, result) /\ <<file, next>> \in
              {<<"flags_wireless", "route">>, <<"arp_wireless", "arp">>}
        BY <1>2 DEF parse_wireless_names
    <2>2. /\ DOMAIN result = Part /\ result.radio = link \intersect Radio
          /\ result.routed = got.routed /\ result.up = got.up /\ result.running = got.running
          /\ result.ips = got.ips /\ result.map = got.map
        BY <1>1 DEF Part, Shapes
    <2> HIDE DEF result
    <2>3. UNCHANGED <<was, held, changes>> /\ got' = result /\ at' = next /\ at = file
        BY <2>1 DEF Read, history
    <2>4. Radio \ (link \intersect Radio) \subseteq was.gone
        BY ReadInTheMoment, NetworkAssumption
    <2>5. Gathered'
        BY <2>1, <2>2, <2>3, <2>4 DEF Gathered
    <2>6. Shapes'
        BY <1>1, <2>1, <2>2, <2>3 DEF Shapes, Place
    <2>7. Known'
        BY <1>1, <2>1, <2>3 DEF Known
    <2> QED
        BY <2>1, <2>5, <2>6, <2>7, ReadsKeep
<1>3. CASE FlagsRoute
    <2> DEFINE routed == {RouteFile[k].iface : k \in DOMAIN RouteFile} \union {Lo}
               result == [got EXCEPT !.routed = routed]
    <2>1. Read("route", "dev", result)
        BY <1>3 DEF FlagsRoute
    <2>2. /\ DOMAIN result = Part /\ result.radio = got.radio /\ result.routed = routed
          /\ result.up = got.up /\ result.running = got.running
          /\ result.ips = got.ips /\ result.map = got.map
        BY <1>1 DEF Part, Shapes
    <2>3. routed = {Lo} \union {r.iface : r \in Range(routes)}
        BY RoutedInFile
    <2>4. routed \subseteq Interface
        <3>1. \A r \in Range(routes) : r \in Route
            BY DEF Invariant, Routing, Range
        <3> QED
            BY <2>3, <3>1, NetworkAssumption DEF Route
    <2> HIDE DEF result, routed
    <2>5. UNCHANGED <<was, held, changes>> /\ got' = result /\ at' = "dev" /\ at = "route"
        BY <2>1 DEF Read, history
    <2>6. routed \subseteq was.up /\ Interface \ routed \subseteq was.down
        BY <2>3, ReadInTheMoment
    <2>7. Radio \ got.radio \subseteq was.gone
        BY <1>1, <2>5 DEF Gathered
    <2>8. Gathered'
        BY <2>2, <2>5, <2>6, <2>7 DEF Gathered
    <2>9. Shapes'
        BY <1>1, <2>2, <2>4, <2>5 DEF Shapes, Place
    <2>10. Known'
        BY <2>5 DEF Known
    <2> QED
        BY <2>1, <2>8, <2>9, <2>10, ReadsKeep
<1> QED
    BY <1>1, <1>2, <1>3

\* The counters and the trie tell which interfaces run and which addresses there are.
LEMMA CountersAndTrieKeep ==
    ASSUME Invariant, FlagsDev \/ IpsTrie
    PROVE  Invariant'
<1>1. Tables /\ Shapes /\ Gathered /\ Known /\ Lasting
    BY DEF Invariant
<1>2. CASE FlagsDev
    <2> DEFINE result == [got EXCEPT !.up = link \intersect got.routed,
                                     !.running = link \intersect busy]
    <2>1. Read("dev", "fib_trie", result)
        BY <1>2 DEF FlagsDev
    <2>2. /\ DOMAIN result = Part /\ result.radio = got.radio /\ result.routed = got.routed
          /\ result.up = link \intersect got.routed /\ result.running = link \intersect busy
          /\ result.ips = got.ips /\ result.map = got.map
        BY <1>1 DEF Part, Shapes
    <2> HIDE DEF result
    <2>3. UNCHANGED <<was, held, changes>> /\ got' = result /\ at' = "fib_trie" /\ at = "dev"
        BY <2>1 DEF Read, history
    <2>4. /\ Radio \ got.radio \subseteq was.gone
          /\ got.routed \subseteq was.up /\ Interface \ got.routed \subseteq was.down
        BY <1>1, <2>3 DEF Gathered
    <2>5. /\ link \intersect got.routed \subseteq was.up
          /\ Interface \ (link \intersect got.routed) \subseteq was.down \union was.gone
        BY <2>4, ReadInTheMoment
    <2>6. /\ link \intersect busy \subseteq was.busy
          /\ Interface \ (link \intersect busy) \subseteq was.silent
        BY <1>1, ReadInTheMoment DEF Tables
    <2>7. Gathered'
        BY <2>2, <2>3, <2>4, <2>5, <2>6 DEF Gathered
    <2>8. Shapes'
        BY <1>1, <2>2, <2>3 DEF Shapes, Tables, Place
    <2>9. Known'
        BY <2>3 DEF Known
    <2> QED
        BY <2>1, <2>7, <2>8, <2>9, ReadsKeep
<1>3. CASE IpsTrie
    <2> DEFINE ips == LocalIps(FibTrieFile)
               result == [got EXCEPT !.ips = ips]
    <2>1. Read("fib_trie", "nets", result)
        BY <1>3 DEF IpsTrie
    <2>2. /\ DOMAIN result = Part /\ result.radio = got.radio /\ result.routed = got.routed
          /\ result.up = got.up /\ result.running = got.running
          /\ result.ips = ips /\ result.map = got.map
        BY <1>1 DEF Part, Shapes
    <2>3. ips = {o.addr : o \in own}
        BY LocalIpsAreOwn
    <2> HIDE DEF result, ips
    <2>4. UNCHANGED <<was, held, changes>> /\ got' = result /\ at' = "nets" /\ at = "fib_trie"
        BY <2>1 DEF Read, history
    <2>5. ips \subseteq was.own
        BY <2>3, ReadInTheMoment
    <2>6. ips \subseteq Address
        BY <1>1, <2>3 DEF Tables, Owned
    <2>7. Gathered'
        BY <1>1, <2>2, <2>4, <2>5 DEF Gathered
    <2>8. Shapes'
        BY <1>1, <2>2, <2>4, <2>6 DEF Shapes, Place
    <2>9. Known'
        <3>1. \A o \in held : o.addr \in ips
            BY <1>1, <2>3 DEF Lasting, Sure
        <3> QED
            BY <2>2, <2>4, <3>1 DEF Known
    <2> QED
        BY <2>1, <2>7, <2>8, <2>9, ReadsKeep
<1> QED
    BY <1>2, <1>3

\* The routing table, read again, tells which interface has an address.
LEMMA AssignmentKeeps ==
    ASSUME Invariant, IpsRoute
    PROVE  Invariant'
<1>1. Tables /\ Routing /\ Shapes /\ Gathered /\ Known /\ Lasting
    BY DEF Invariant
<1> DEFINE nets == IfaceNets(RouteFile)
           map == {v \in Interface \X got.ips : Eligible(v[2]) /\ v[1] \in Assigned(nets, v[2])}
           result == [got EXCEPT !.map = map]
<1>2. Read("nets", "names", result)
    BY DEF IpsRoute
<1>3. /\ DOMAIN result = Part /\ result.radio = got.radio /\ result.routed = got.routed
      /\ result.up = got.up /\ result.running = got.running
      /\ result.ips = got.ips /\ result.map = map
    BY <1>1 DEF Part, Shapes
<1>4. UNCHANGED <<was, held, changes>> /\ got' = result /\ at' = "names" /\ at = "nets"
    BY <1>2 DEF Read, history
<1>5. \A i \in Interface, a \in got.ips :
          <<i, a>> \in map <=> Eligible(a) /\ i \in Assigned(nets, a)
    OBVIOUS
<1>6. map \subseteq Interface \X got.ips
    OBVIOUS
<1> HIDE DEF result, map
<1>7. map \subseteq was.via
    <2> DEFINE covered == {v \in Interface \X Address :
                               \E r \in Range(routes) : r.iface = v[1] /\ Covers(r, v[2])}
    <2>1. ASSUME NEW i \in Interface, NEW a \in got.ips, <<i, a>> \in map
          PROVE  <<i, a>> \in covered
        <3>1. \E r \in Range(routes) : r.iface = i /\ Covers(r, a)
            BY <1>1, <1>5, <2>1, AssignedCovers
        <3>2. a \in Address
            BY <1>1 DEF Shapes
        <3> QED
            BY <3>1, <3>2
    <2>2. covered \subseteq was.via
        BY ReadInTheMoment
    <2> HIDE DEF covered
    <2> QED
        BY <1>6, <2>1, <2>2
<1>8. \A o \in held, i \in Interface : <<i, o.addr>> \in map <=> i = o.iface
    <2> SUFFICES ASSUME NEW o \in held, NEW i \in Interface
                 PROVE  <<i, o.addr>> \in map <=> i = o.iface
        OBVIOUS
    <2>1. o \in Sure /\ o.addr \in got.ips
        BY <1>1, <1>4 DEF Lasting, Known
    <2>2. Assigned(nets, o.addr) = {o.iface}
        BY <1>1, <2>1, AssignedToOwn
    <2>3. Eligible(o.addr)
        BY <2>1 DEF Sure
    <2> HIDE DEF nets
    <2> QED
        BY <1>5, <2>1, <2>2, <2>3
<1>9. Gathered'
    BY <1>1, <1>3, <1>4, <1>7 DEF Gathered
<1>10. Shapes'
    BY <1>1, <1>3, <1>4, <1>6 DEF Shapes, Place
<1>11. Known'
    <2>1. \A o \in held : o.addr \in got.ips
        BY <1>1, <1>4 DEF Known
    <2> QED
        BY <1>3, <1>4, <1>8, <2>1 DEF Known
<1> QED
    BY <1>2, <1>9, <1>10, <1>11, ReadsKeep

\* Of every interface that there is, the answer says what the files have said.
LEMMA ListKeeps ==
    ASSUME Invariant, list_interfaces
    PROVE  Invariant'
<1>1. Tables /\ Shapes /\ Gathered /\ Known /\ Lasting
    BY DEF Invariant
<1>2. /\ at = "names" /\ at' = "answered"
      /\ UNCHANGED <<link, busy, own, routes, hosts, got, found, changes, was, held>>
    BY DEF list_interfaces, kernel, history
<1> DEFINE ips(i) == {a \in got.ips : <<i, a>> \in got.map}
           said(i) == [name |-> i, type |-> classify(i, got.radio),
                       virtual |-> classify(i, got.radio) \in Virtual,
                       up |-> i \in got.up, running |-> i \in got.running, ips |-> ips(i)]
<1>3. listed' = {said(i) : i \in link}
    BY Zenon DEF list_interfaces
<1>4. ASSUME NEW i PROVE /\ said(i).name = i /\ said(i).type = classify(i, got.radio)
                         /\ said(i).up <=> i \in got.up
                         /\ said(i).running <=> i \in got.running
                         /\ said(i).ips = ips(i)
    <2>1. said(i).name = i /\ said(i).type = classify(i, got.radio) /\ said(i).ips = ips(i)
        OBVIOUS
    <2>2. said(i).up = (i \in got.up) /\ said(i).running = (i \in got.running)
        OBVIOUS
    <2> HIDE DEF said
    <2> QED
        BY <2>1, <2>2, Zenon
<1> HIDE DEF said
<1>5. /\ Radio \ got.radio \subseteq was.gone
      /\ got.up \subseteq was.up /\ Interface \ got.up \subseteq was.down \union was.gone
      /\ got.running \subseteq was.busy /\ Interface \ got.running \subseteq was.silent
      /\ got.ips \subseteq was.own /\ got.map \subseteq was.via
    BY <1>1, <1>2 DEF Gathered
<1>6. FlagsWereTrue'
    <2> SUFFICES ASSUME NEW x \in listed'
                 PROVE  /\ x.name \in was.here
                        /\ x.name \in IF x.up THEN was.up ELSE was.down \union was.gone
                        /\ x.name \in IF x.running THEN was.busy ELSE was.silent
                        /\ x.type = "ethernet" => x.name \notin Radio \/ x.name \in was.gone
        BY <1>2 DEF FlagsWereTrue
    <2>1. PICK i \in link : x = said(i)
        BY <1>3
    <2>2. i \in was.here /\ i \in Interface
        BY <1>1, ReadInTheMoment DEF Tables
    <2>3. classify(i, got.radio) = "ethernet" => i \notin got.radio
        BY <2>2, NetworkAssumption DEF classify, Virtual
    <2>4. /\ x.name = i /\ x.type = classify(i, got.radio)
          /\ x.up <=> i \in got.up
          /\ x.running <=> i \in got.running
        BY <1>4, <2>1
    <2> QED
        BY <1>5, <2>2, <2>3, <2>4
<1>7. AddressesWereTrue'
    <2> SUFFICES ASSUME NEW x \in listed'
                 PROVE  x.ips \subseteq {a \in was.own : <<x.name, a>> \in was.via}
        BY <1>2 DEF AddressesWereTrue
    <2>1. PICK i \in link : x = said(i)
        BY <1>3
    <2>2. x.name = i /\ x.ips = ips(i)
        BY <1>4, <2>1
    <2> QED
        BY <1>5, <2>2
<1>8. HeldIsListed'
    <2> SUFFICES ASSUME NEW o \in held
                 PROVE  {x.name : x \in {y \in listed' : o.addr \in y.ips}} = {o.iface}
        BY <1>2 DEF HeldIsListed
    <2>1. o.iface \in link /\ o.addr \in got.ips
        BY <1>1, <1>2 DEF Lasting, Sure, Known
    <2>2. \A i \in link : o.addr \in ips(i) <=> i = o.iface
        BY <1>1, <1>2, <2>1 DEF Known, Tables
    <2> HIDE DEF ips
    <2>3. \A y \in listed' : o.addr \in y.ips => y.name = o.iface
        BY <1>3, <1>4, <2>2
    <2>4. \E y \in listed' : o.addr \in y.ips /\ y.name = o.iface
        BY <1>3, <1>4, <2>1, <2>2
    <2> QED
        BY <2>3, <2>4
<1>9. Tables' /\ Routing' /\ Remembered' /\ Lasting'
    BY <1>2, TablesStay DEF Invariant, Remembered, Lasting
<1>10. Shapes' /\ Known'
    BY <1>1, <1>2 DEF Shapes, Known, Place
<1>11. Gathered' /\ HostsWereTrue'
    BY <1>2, <1>5 DEF Invariant, ReportedWasTrue, Gathered, HostsWereTrue
<1> QED
    BY <1>6, <1>7, <1>8, <1>9, <1>10, <1>11 DEF Invariant, ReportedWasTrue, AddressesAreRight

\* Of every neighbour with an address of its link, the answer says what the table says.
LEMMA DiscoverKeeps ==
    ASSUME Invariant, discover_hosts
    PROVE  Invariant'
<1>1. Shapes /\ Gathered /\ Known
    BY DEF Invariant
<1>2. /\ at = "arp" /\ at' = "answered"
      /\ UNCHANGED <<link, busy, own, routes, hosts, got, listed, changes, was, held>>
    BY DEF discover_hosts, kernel, history
<1> DEFINE said(n) == [addr |-> n.addr, iface |-> n.iface, reachable |-> n.state = "complete",
                       wireless |-> n.iface \in got.radio]
<1>3. found' = {said(n) : n \in {m \in hosts : m.state # "incomplete"}}
    BY Zenon DEF discover_hosts
<1>4. HostsWereTrue'
    <2> SUFFICES ASSUME NEW y \in found'
                 PROVE  \E n \in was.hosts :
                            /\ n.addr = y.addr /\ n.iface = y.iface /\ n.state # "incomplete"
                            /\ y.reachable <=> n.state = "complete"
        BY <1>2 DEF HostsWereTrue
    <2>1. PICK n \in hosts : n.state # "incomplete" /\ y = said(n)
        BY <1>3
    <2>2. n.addr = y.addr /\ n.iface = y.iface
        BY <2>1
    <2>3. y.reachable = (n.state = "complete")
        BY <2>1
    <2>4. n \in was.hosts
        BY ReadInTheMoment
    <2> HIDE DEF said
    <2> QED
        BY <2>1, <2>2, <2>3, <2>4, Zenon
<1>5. FlagsWereTrue' /\ AddressesWereTrue'
    BY <1>2 DEF Invariant, ReportedWasTrue, AddressesAreRight, FlagsWereTrue, AddressesWereTrue
<1>6. HeldIsListed' /\ Known'
    BY <1>1, <1>2 DEF Known, HeldIsListed
<1>7. Tables' /\ Routing' /\ Remembered' /\ Lasting'
    BY <1>2, TablesStay DEF Invariant, Remembered, Lasting
<1>8. Shapes' /\ Gathered'
    BY <1>1, <1>2 DEF Shapes, Gathered, Place
<1> QED
    BY <1>4, <1>5, <1>6, <1>7, <1>8 DEF Invariant, ReportedWasTrue, AddressesAreRight

\* No read, no change and no answer breaks the invariant.
LEMMA StepInvariant == Invariant /\ [Next]_vars => Invariant'
<1> SUFFICES ASSUME Invariant, [Next]_vars PROVE Invariant'
    OBVIOUS
<1>1. Tables /\ Routing
    BY DEF Invariant
<1>2. CASE parse_wireless_names \/ FlagsRoute
    BY <1>2, NamesAndRoutesKeep
<1>3. CASE FlagsDev \/ IpsTrie
    BY <1>3, CountersAndTrieKeep
<1>4. CASE IpsRoute
    BY <1>4, AssignmentKeeps
<1>5. CASE list_interfaces
    BY <1>5, ListKeeps
<1>6. CASE discover_hosts
    BY <1>6, DiscoverKeeps
<1>7. ASSUME NEW o \in Owned, AddressAdded(o) \/ AddressRemoved(o) PROVE Invariant'
    <2>1. Changed
        BY <1>7 DEF AddressAdded, AddressRemoved
    <2> QED
        BY <1>1, <1>7, <2>1, AddressesKeepTables, ChangesAreRemembered
<1>8. ASSUME NEW i \in Interface,
             DefaultMoved(i) \/ LinkRemoved(i) \/ LinkAdded(i) \/ Traffic(i)
      PROVE  Invariant'
    <2>1. Changed
        BY <1>8 DEF DefaultMoved, LinkRemoved, LinkAdded, Traffic
    <2> QED
        BY <1>1, <1>8, <2>1, LinksKeepTables, ChangesAreRemembered
<1>9. ASSUME NEW n \in Neighbour, NeighbourSeen(n) PROVE Invariant'
    <2>1. /\ Changed /\ UNCHANGED <<link, busy, own, routes>>
          /\ hosts' \subseteq hosts \union {n}
        BY <1>9 DEF NeighbourSeen
    <2>2. Tables'
        BY <1>1, <2>1 DEF Tables
    <2>3. Routing'
        BY <1>1, <2>1 DEF Routing, RoutesOf, OnLink, NetOf, MaskOf, Width
    <2> QED
        BY <2>1, <2>2, <2>3, ChangesAreRemembered
<1>10. CASE UNCHANGED vars
    <2>1. UNCHANGED <<link, busy, own, routes, hosts, at, got, listed, found, changes, was, held>>
        BY <1>10 DEF vars, kernel, request, history
    <2>2. Tables' /\ Routing' /\ Remembered' /\ Lasting'
        BY <2>1, TablesStay DEF Invariant, Remembered, Lasting
    <2>3. Shapes' /\ Gathered' /\ Known'
        BY <2>1 DEF Invariant, Shapes, Gathered, Known
    <2>4. ReportedWasTrue' /\ AddressesAreRight'
        BY <2>1 DEF Invariant, ReportedWasTrue, FlagsWereTrue, HostsWereTrue,
                    AddressesAreRight, AddressesWereTrue, HeldIsListed
    <2> QED
        BY <2>2, <2>3, <2>4 DEF Invariant
<1> QED
    BY <1>2, <1>3, <1>4, <1>5, <1>6, <1>7, <1>8, <1>9, <1>10 DEF Next

\* The facts are remembered, what was gathered from the files is among them, and what was beyond
\* doubt all the time is among what was gathered.
THEOREM NetworkInvariance == Spec => []Invariant
BY InitInvariant, StepInvariant, PTL DEF Spec

\* The tables and what the request makes of them have their types: in particular no interface
\* is up that was not among the routed ones (system.py:195-203), and no address is assigned that
\* the trie did not show (system.py:134-147).
THEOREM TypeCorrect == Spec => []TypeOK
<1>1. Invariant => TypeOK
    BY DEF Invariant, Tables, Routing, Shapes, Place, TypeOK
<1> QED
    BY <1>1, NetworkInvariance, PTL

\* No interface is listed, and none called up, down, running, idle or wired, that was never so
\* while the request read its files, and no host in a state that it did not have, whatever the
\* kernel changed between the reads (system.py:208-255).
THEOREM AnswersWereTrue == Spec => []ReportedWasTrue
<1>1. Invariant => ReportedWasTrue
    BY DEF Invariant
<1> QED
    BY <1>1, NetworkInvariance, PTL

\* No address is listed under an interface that was not one of the host's while the request read
\* its files, or that the interface had no route to; and one that was all the time better reached
\* through its own interface than through any other is listed under it and nowhere else, for any
\* addresses, prefixes and tables (system.py:76-149).
THEOREM AddressesAreAssigned == Spec => []AddressesAreRight
<1>1. Invariant => AddressesAreRight
    BY DEF Invariant
<1> QED
    BY <1>1, NetworkInvariance, PTL
=============================================================================
