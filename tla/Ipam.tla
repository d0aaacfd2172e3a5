-------------------------------- MODULE Ipam --------------------------------
(***************************************************************************)
(* Prefixes and addresses: internal/service/prefix.go and ip_address.go,   *)
(* pkg/ipam/ipam.go, and of internal/service/discovery.go the part that    *)
(* turns a prefix into the hosts of a scan.                                *)
(*                                                                         *)
(* Three places compute which addresses a prefix has, each in its own way: *)
(* the search for a free address, the count of a utilization and the list  *)
(* of a scan.  A prefix is stored as the text of the request, which need   *)
(* not name the first address of its block.                                *)
(* Abstracted: an address is a number of its family, the widths of the     *)
(* families and of int are constants (32, 128 and 64 in the code), and an  *)
(* address has one spelling.                                               *)
(***************************************************************************)
EXTENDS Integers, Sequences, FiniteSets

CONSTANTS
  AddressBits,           \* the width of an address of each family
  IntBits,               \* the width of int
  MaxIPv4PrefixSize,     \* DISCOVERY_MAX_IPV4_PREFIX_SIZE
  Ids,                   \* rows that the prefixes table may have
  CIDRs,                 \* the prefixes that requests write
  Addresses,             \* the addresses that requests write
  Requests               \* requests for a free address or the utilization

Families == {"v4", "v6"}

\* 1 << n.
Pow2[n \in Nat] == IF n = 0 THEN 1 ELSE 2 * Pow2[n - 1]

CIDR ==
  UNION {[family : {f}, addr : 0..(Pow2[AddressBits[f]] - 1), bits : 0..AddressBits[f]] :
         f \in Families}

ASSUME IpamAssumption ==
  /\ AddressBits \in [Families -> Nat \ {0}]
  /\ IntBits \in Nat /\ AddressBits["v4"] + 1 < IntBits
  /\ MaxIPv4PrefixSize \in 0..AddressBits["v4"]
  /\ CIDRs \subseteq CIDR
  /\ Addresses \subseteq Families \X Nat
  /\ \A a \in Addresses : a[2] < Pow2[AddressBits[a[1]]]
  /\ "none" \notin Ids

VARIABLES
  prefixes,              \* the prefixes table
  rows,                  \* the ip_addresses table, by address, which is UNIQUE
  scan,                  \* the scan of each prefix
  ask                    \* what each request has read and replied

ipamVars == <<prefixes, rows, scan, ask>>

\* A status that counts as allocated, and the one that does not.
RowStatuses == {"assigned", "available"}

NoAddr == -1             \* netip.Addr{}
NoPrefix == [family |-> "none", addr |-> NoAddr, bits |-> 0]
NoRow == [prefix |-> "none", status |-> "none"]
NoScan == [at |-> "none", work |-> <<>>]
NoAsk == [at |-> "none", id |-> "none", prefix |-> NoPrefix,
          offer |-> NoAddr, total |-> 0, free |-> 0]

-----------------------------------------------------------------------------
(* Addresses of a prefix, as net/netip has them.                           *)

HostBits(p) == AddressBits[p.family] - p.bits

\* Addr.Next(): there is none after the last address of the family.
NextAddr(f, a) == IF a + 1 = Pow2[AddressBits[f]] THEN NoAddr ELSE a + 1

\* Prefix.Contains(), which compares the network bits only.
ContainsAddr(p, a) == a # NoAddr /\ a \div Pow2[HostBits(p)] = p.addr \div Pow2[HostBits(p)]

\* Prefix.Masked().
Masked(p) == [p EXCEPT !.addr = @ - (@ % Pow2[HostBits(p)])]

\* p.Bits() < 31, of an IPv4 prefix: the first and the last address are no hosts.
LeavesEnds(p) == p.family = "v4" /\ HostBits(p) > 1

\* Mutant: the loop goes on to the end of the block.
BroadcastIgnored(p) == NoAddr

\* The address with every host bit set, and the invalid one where it is a host.
Broadcast(p) ==
  IF LeavesEnds(p) THEN Masked(p).addr + Pow2[HostBits(p)] - 1 ELSE NoAddr

FirstAddr(p) == IF LeavesEnds(p) THEN NextAddr(p.family, p.addr) ELSE p.addr

\* The addresses that the loops of EnumerateIPv4Hosts() and GetNextAvailableIP()
\* come to, in order.
Visited(p) ==
  LET from[a \in NoAddr..(Pow2[AddressBits[p.family]] - 1)] ==
        IF ~ContainsAddr(p, a) \/ a = Broadcast(p) THEN <<>>
        ELSE <<a>> \o from[NextAddr(p.family, a)]
  IN  from[FirstAddr(p)]

EnumerateIPv4Hosts(p) == Visited(p)

\* The first of them that no row has.
FirstFree(visited, taken) ==
  IF \A i \in DOMAIN visited : visited[i] \in taken THEN NoAddr
  ELSE visited[CHOOSE i \in DOMAIN visited :
                 visited[i] \notin taken /\ \A j \in 1..(i - 1) : visited[j] \in taken]

\* Mutant: the search starts at the address the prefix is written with.
FirstFreeUnmasked(p, taken) == FirstFree(Visited(p), taken)

GetNextAvailableIP(p, taken) == FirstFree(Visited(Masked(p)), taken)

\* What int makes of n.
IntOf(n) == ((n + Pow2[IntBits - 1]) % Pow2[IntBits]) - Pow2[IntBits - 1]

TotalHosts(p) == IntOf(Pow2[HostBits(p)]) - (IF LeavesEnds(p) THEN 2 ELSE 0)

Free(total, allocated) == IF total < allocated THEN 0 ELSE total - allocated

ValidatePrefixForScan(p) == p.family = "v4" /\ p.bits >= MaxIPv4PrefixSize

-----------------------------------------------------------------------------
IpamInit ==
  /\ prefixes = [id \in Ids |-> NoPrefix]
  /\ rows = [a \in Addresses |-> NoRow]
  /\ scan = [id \in Ids |-> NoScan]
  /\ ask = [r \in Requests |-> NoAsk]

\* GetIPAddressesByPrefix: the rows of the prefix, wherever their addresses are.
RowsOf(id) == {a \in Addresses : rows[a].prefix = id}

\* The addresses of these rows that can be addresses of p.
TakenOf(id, p) == {a[2] : a \in {b \in RowsOf(id) : b[1] = p.family}}

-----------------------------------------------------------------------------
(* The requests that write.                                                *)

\* prefixes.prefix is UNIQUE as a text; blocks may overlap.
Unused(p) == \A id \in Ids : prefixes[id] # p

CreatePrefix(id, p) ==
  /\ prefixes[id] = NoPrefix
  /\ Unused(p)
  /\ prefixes' = [prefixes EXCEPT ![id] = p]
  /\ UNCHANGED <<rows, scan, ask>>

\* The rows and the scans of the prefix stay as they are.
UpdatePrefix(id, p) ==
  /\ prefixes[id] # NoPrefix
  /\ Unused(p)
  /\ prefixes' = [prefixes EXCEPT ![id] = p]
  /\ UNCHANGED <<rows, scan, ask>>

\* Addresses and scan records go with the prefix.
DeletePrefix(id) ==
  /\ prefixes[id] # NoPrefix
  /\ prefixes' = [prefixes EXCEPT ![id] = NoPrefix]
  /\ rows' = [a \in Addresses |-> IF rows[a].prefix = id THEN NoRow ELSE rows[a]]
  /\ scan' = [scan EXCEPT ![id] = NoScan]
  /\ UNCHANGED ask

\* Nothing asks whether the address is in the prefix.
CreateIPAddress(a, id, status) ==
  /\ rows[a] = NoRow
  /\ prefixes[id] # NoPrefix
  /\ rows' = [rows EXCEPT ![a] = [prefix |-> id, status |-> status]]
  /\ UNCHANGED <<prefixes, scan, ask>>

\* UpdateIPAddress(): the row gets another address, prefix and status.
UpdateIPAddress(a, b, id, status) ==
  /\ rows[a] # NoRow
  /\ b = a \/ rows[b] = NoRow
  /\ prefixes[id] # NoPrefix
  /\ rows' = [rows EXCEPT ![a] = NoRow, ![b] = [prefix |-> id, status |-> status]]
  /\ UNCHANGED <<prefixes, scan, ask>>

\* SetStatus(): assign, reserve and release.
SetStatus(a, status) ==
  /\ rows[a] # NoRow
  /\ rows' = [rows EXCEPT ![a].status = status]
  /\ UNCHANGED <<prefixes, scan, ask>>

DeleteIPAddress(a) ==
  /\ rows[a] # NoRow
  /\ rows' = [rows EXCEPT ![a] = NoRow]
  /\ UNCHANGED <<prefixes, scan, ask>>

-----------------------------------------------------------------------------
(* The requests that read: the prefix first, then its addresses.           *)

GetPrefix(r, op, id) ==
  /\ ask[r] = NoAsk
  /\ prefixes[id] # NoPrefix
  /\ ask' = [ask EXCEPT ![r] = [NoAsk EXCEPT !.at = op, !.id = id, !.prefix = prefixes[id]]]
  /\ UNCHANGED <<prefixes, rows, scan>>

NextAvailableIP(r) ==
  /\ ask[r].at = "next"
  /\ ask' = [ask EXCEPT ![r].at = "replied",
       ![r].offer = GetNextAvailableIP(ask[r].prefix, TakenOf(ask[r].id, ask[r].prefix))]
  /\ UNCHANGED <<prefixes, rows, scan>>

\* Mutant: an address that is available again still counts.
CountsAllRows(r) ==
  LET total == TotalHosts(ask[r].prefix) IN
  /\ ask[r].at = "utilization"
  /\ ask' = [ask EXCEPT ![r].at = "replied", ![r].total = total,
                        ![r].free = Free(total, Cardinality(RowsOf(ask[r].id)))]
  /\ UNCHANGED <<prefixes, rows, scan>>

Utilization(r) ==
  LET total == TotalHosts(ask[r].prefix)
      allocated == {a \in RowsOf(ask[r].id) : rows[a].status # "available"}
  IN
  /\ ask[r].at = "utilization"
  /\ ask' = [ask EXCEPT ![r].at = "replied", ![r].total = total,
                        ![r].free = Free(total, Cardinality(allocated))]
  /\ UNCHANGED <<prefixes, rows, scan>>

Reply(r) ==
  /\ ask[r].at = "replied"
  /\ ask' = [ask EXCEPT ![r] = NoAsk]
  /\ UNCHANGED <<prefixes, rows, scan>>

-----------------------------------------------------------------------------
(* A scan: Discovery has the rest of it.                                   *)

\* The prefix is read and validated, the record queued.
StartManualScan(id) ==
  /\ prefixes[id] # NoPrefix /\ scan[id] = NoScan
  /\ ValidatePrefixForScan(prefixes[id])
  /\ scan' = [scan EXCEPT ![id].at = "queued"]
  /\ UNCHANGED <<prefixes, rows, ask>>

\* The goroutine reads the prefix again, and does not validate it again.
RunScan(id) ==
  /\ scan[id].at = "queued"
  /\ scan' = [scan EXCEPT ![id] =
       IF prefixes[id].family = "v4"
       THEN [at |-> "probing", work |-> EnumerateIPv4Hosts(prefixes[id])]
       ELSE NoScan]
  /\ UNCHANGED <<prefixes, rows, ask>>

ScanEnds(id) ==
  /\ scan[id].at = "probing"
  /\ scan' = [scan EXCEPT ![id] = NoScan]
  /\ UNCHANGED <<prefixes, rows, ask>>

-----------------------------------------------------------------------------
IpamNext ==
  \/ \E id \in Ids :
       \/ \E p \in CIDRs : CreatePrefix(id, p) \/ UpdatePrefix(id, p)
       \/ DeletePrefix(id)
       \/ StartManualScan(id) \/ RunScan(id) \/ ScanEnds(id)
  \/ \E a \in Addresses :
       \/ \E status \in RowStatuses :
            \/ SetStatus(a, status)
            \/ \E id \in Ids : CreateIPAddress(a, id, status)
            \/ \E b \in Addresses, id \in Ids : UpdateIPAddress(a, b, id, status)
       \/ DeleteIPAddress(a)
  \/ \E r \in Requests :
       \/ \E op \in {"next", "utilization"}, id \in Ids : GetPrefix(r, op, id)
       \/ NextAvailableIP(r) \/ Utilization(r) \/ Reply(r)

IpamSpec == IpamInit /\ [][IpamNext]_ipamVars

-----------------------------------------------------------------------------
(* Properties.  What they compare with is the block as a set.              *)

\* The addressable hosts: docs/api.md:353 and docs/discovery.md:17.
HostsOf(p) ==
  LET block == {a \in 0..(Pow2[AddressBits[p.family]] - 1) : ContainsAddr(p, a)}
  IN  IF p.family = "v4" /\ Cardinality(block) > 2
      THEN {a \in block : \E b, c \in block : b < a /\ a < c}
      ELSE block

\* A request for a free address gets the lowest host that no row of its prefix
\* has, and none only when every host is taken.
OffersFirstFree(r) ==
  LET free == HostsOf(ask[r].prefix) \ TakenOf(ask[r].id, ask[r].prefix)
      offer == ask'[r].offer
  IN  ask[r].at = "next" /\ ask'[r].at = "replied" =>
        /\ offer \in free \cup {NoAddr}
        /\ \A a \in free : offer # NoAddr /\ offer <= a

\* A utilization counts the hosts, and those that no allocated row has, where an
\* int holds the number of addresses and the rows of the prefix are its hosts.
CountsHosts(r) ==
  LET p == ask[r].prefix
      hosts == HostsOf(p)
      own == RowsOf(ask[r].id)
      assigned == {a \in own : rows[a].status = "assigned"}
  IN  ask[r].at = "utilization" /\ ask'[r].at = "replied" /\ HostBits(p) < IntBits - 1 =>
        /\ ask'[r].total = Cardinality(hosts)
        /\ (\A a \in own : a[1] = p.family /\ a[2] \in hosts) =>
             ask'[r].free = Cardinality({h \in hosts : <<p.family, h>> \notin assigned})

\* A scan has every host on its list, once, and nothing else, where the prefix is
\* written with the first address of its block.
ListsHosts(id) ==
  LET work == scan'[id].work
      listed == {work[i] : i \in DOMAIN work}
  IN  /\ scan[id].at = "queued" /\ scan'[id].at = "probing"
      /\ prefixes[id] = Masked(prefixes[id])
      => listed = HostsOf(prefixes[id]) /\ Len(work) = Cardinality(listed)

\* The search for a free address, the utilization and the scan go by the same
\* hosts: at the ends of a block and of the family, for /31 and /32, whatever is
\* edited, moved and deleted between the request and the computation.
HostsAgree ==
  [][/\ \A r \in Requests : OffersFirstFree(r) /\ CountsHosts(r)
     /\ \A id \in Ids : ListsHosts(id)]_ipamVars
=============================================================================
