---------------------------- MODULE CloudProofs ----------------------------
(***************************************************************************)
(* The SSH tunnels and the cloud goroutine, for any hosts, clients and     *)
(* droplets: they keep their types; a host that is passed over has a whole *)
(* tunnel (ListedTunnelWhole), which is inductive as it stands; and the    *)
(* account never grows beyond the configured number (NeverTooManyDroplets),*)
(* which needs two facts more: from the moment the missing droplets are    *)
(* counted to the moment they are created, those listed and those missing  *)
(* make up no more than the configured number; and what is to be deleted   *)
(* is still listed, so that a deletion adds no droplet to the list.        *)
(***************************************************************************)
EXTENDS Cloud, FiniteSetTheorems, TLAPS

DropletsCounted == cpc = "create" => missing = 0 \/ Cardinality(Listed) + missing <= Servers

ToDeleteListed ==
    /\ cpc \in {"snapshot", "prefix"} => \A d \in Droplets : droplet[d] # "dying"
    /\ cpc = "delete" => \A d \in todo : droplet[d] \notin {"none", "dying"}

TunnelInv == SshTypeOK /\ ListedTunnelWhole

\* The end of the process leaves no tunnel.
LEMMA EndsWhole ==
    ASSUME TunnelInv, ProcessEnds, online' \subseteq Hosts, failures' \in Nat
    PROVE  TunnelInv'
<1>1. /\ NoEntries \in [Hosts -> Clients \union {None}]
      /\ NoClients \in [Hosts -> [Clients -> {"free", "dialing", "up", "down"}]]
      /\ NoForwards \in [Hosts -> [Clients -> [Ports -> {"listen", "accept", "ended"}]]]
      /\ NoPorts \in [Hosts -> [Ports -> Clients \union {None, Stale}]]
      /\ StaticHosts \subseteq Hosts
  BY HostsAssumption DEF NoEntries, NoClients, NoForwards, NoPorts
<1>2. SshTypeOK'
  BY <1>1 DEF ProcessEnds, SshTypeOK
<1>3. \A h \in Hosts : activeConnections'[h] = None
  BY DEF ProcessEnds, NoEntries
<1> QED
  BY <1>2, <1>3 DEF TunnelInv, ListedTunnelWhole

\* Every step of the loop, of a goroutine that dials or forwards, of the network or
\* of a server keeps the tunnels whole.
LEMMA TunnelStep ==
    ASSUME TunnelInv, SshNext
    PROVE  TunnelInv'
<1> USE DEF TunnelInv, SshTypeOK, ListedTunnelWhole
<1>0. ASSUME MayFail  PROVE failures' \in Nat
  BY <1>0 DEF MayFail
\* Assigning one component of a component of a function keeps its type.
<1>1. ASSUME NEW f, NEW T, f \in [Hosts -> [Clients -> T]],
             NEW h \in Hosts, NEW k \in Clients, NEW v \in T
      PROVE  [f EXCEPT ![h][k] = v] \in [Hosts -> [Clients -> T]]
  BY <1>1
<1>2. CASE ConcurrentMapAccess
  BY <1>2, EndsWhole DEF ConcurrentMapAccess
<1>3. ASSUME NEW h \in Hosts, Visit(h)  PROVE TunnelInv'
  <2>1. AClient(h) \in Clients /\ client[h][AClient(h)] = "free"
    BY <1>3 DEF Visit, AClient, FreeClients, Clients
  <2>2. client' \in [Hosts -> [Clients -> {"free", "dialing", "up", "down"}]]
    BY <1>1, <1>3, <2>1 DEF Visit
  <2>3. \A g \in Hosts : g # h => client'[g] = client[g]
    BY <1>3 DEF Visit
  <2> QED
    BY <1>3, <2>2, <2>3 DEF Visit
<1>4. ASSUME NEW h \in Hosts, NEW k \in Clients, ClientStep(h, k)  PROVE TunnelInv'
  <2>1. CASE Dialled(h, k)
    <3>1. client' \in [Hosts -> [Clients -> {"free", "dialing", "up", "down"}]]
      BY <1>1, <2>1 DEF Dialled
    <3>2. forward' \in [Hosts -> [Clients -> [Ports -> {"listen", "accept", "ended"}]]]
      <4>1. [p \in Ports |-> "listen"] \in [Ports -> {"listen", "accept", "ended"}]
        OBVIOUS
      <4> QED
        BY <1>1, <2>1, <4>1 DEF Dialled
    <3>3. SshTypeOK'
      BY <2>1, <3>1, <3>2 DEF Dialled
    <3>4. ListedTunnelWhole'
      <4> SUFFICES ASSUME NEW g \in Hosts, activeConnections'[g] # None
                   PROVE  LET j == activeConnections'[g]
                          IN  client'[g][j] \in {"up", "down"}
                                /\ \A p \in Ports : forward'[g][j][p] # "ended"
        OBVIOUS
      <4>1. CASE g = h
        BY <2>1, <4>1 DEF Dialled
      <4>2. CASE g # h
        BY <2>1, <4>2 DEF Dialled
      <4> QED
        BY <4>1, <4>2
    <3> QED
      BY <3>3, <3>4
  <2>2. CASE DialFails(h, k)
    <3>1. client' \in [Hosts -> [Clients -> {"free", "dialing", "up", "down"}]]
      BY <1>1, <2>2 DEF DialFails
    <3>2. SshTypeOK'
      BY <1>0, <2>2, <3>1 DEF DialFails
    <3>3. activeConnections[h] # k \/ k = None
      BY <2>2 DEF DialFails
    <3>4. \A g \in Hosts, j \in Clients : g # h \/ j # k => client'[g][j] = client[g][j]
      BY <2>2 DEF DialFails
    <3>5. ListedTunnelWhole'
      BY <2>2, <3>3, <3>4 DEF DialFails
    <3> QED
      BY <3>2, <3>5
  <2>3. CASE NoPrivateKey(h, k)
    BY <1>0, <2>3, EndsWhole DEF NoPrivateKey
  <2>4. CASE LinkDown(h, k)
    <3>1. client' \in [Hosts -> [Clients -> {"free", "dialing", "up", "down"}]]
      BY <1>1, <2>4 DEF LinkDown
    <3>2. held' \in [Hosts -> [Ports -> Clients \union {None, Stale}]]
      BY <2>4 DEF LinkDown
    <3>3. SshTypeOK'
      BY <1>0, <2>4, <3>1, <3>2 DEF LinkDown
    <3>4. \A g \in Hosts, j \in Clients : client'[g][j] \in {client[g][j], "down"}
      BY <2>4 DEF LinkDown
    <3>5. ListedTunnelWhole'
      BY <2>4, <3>4 DEF LinkDown
    <3> QED
      BY <3>3, <3>5
  <2>5. ASSUME NEW p \in Ports, NEW state \in {"listen", "accept", "ended"}
        PROVE  [forward EXCEPT ![h][k][p] = state]
                  \in [Hosts -> [Clients -> [Ports -> {"listen", "accept", "ended"}]]]
    BY <2>5
  <2>6. ASSUME NEW p \in Ports, Listen(h, k, p)  PROVE TunnelInv'
    <3>1. forward' \in [Hosts -> [Clients -> [Ports -> {"listen", "accept", "ended"}]]]
      BY <2>5, <2>6 DEF Listen
    <3>2. held' \in [Hosts -> [Ports -> Clients \union {None, Stale}]]
      BY <2>6 DEF Listen
    <3>3. SshTypeOK'
      BY <2>6, <3>1, <3>2 DEF Listen
    <3>4. \A g \in Hosts, j \in Clients, q \in Ports :
              forward'[g][j][q] \in {forward[g][j][q], "accept"}
      BY <2>6 DEF Listen
    <3>5. ListedTunnelWhole'
      BY <2>6, <3>4 DEF Listen
    <3> QED
      BY <3>3, <3>5
  <2>7. ASSUME NEW p \in Ports, ListenFails(h, k, p) \/ AcceptFails(h, k, p)  PROVE TunnelInv'
    <3>1. /\ ForwardEnds(h, k, p)
          /\ activeConnections' = [activeConnections EXCEPT ![h] = None]
          /\ UNCHANGED <<alive, ipPort, held, online, failures>>
      BY <2>7 DEF ListenFails, AcceptFails
    <3>2. forward' \in [Hosts -> [Clients -> [Ports -> {"listen", "accept", "ended"}]]]
      BY <2>5, <3>1 DEF ForwardEnds
    <3>3. \E state \in {"free", "dialing", "up", "down"} :
              client' = [client EXCEPT ![h][k] = state]
      <4>1. client' = [client EXCEPT ![h][k] =
                          IF \A q \in Ports \ {p} : forward[h][k][q] = "ended"
                          THEN "free" ELSE client[h][k]]
        BY <3>1 DEF ForwardEnds
      <4>2. client[h][k] \in {"free", "dialing", "up", "down"}
        OBVIOUS
      <4> QED
        BY <4>1, <4>2
    <3>4. client' \in [Hosts -> [Clients -> {"free", "dialing", "up", "down"}]]
      BY <1>1, <3>3
    <3>5. SshTypeOK'
      BY <3>1, <3>2, <3>4
    <3>6. \A g \in Hosts : g # h => client'[g] = client[g] /\ forward'[g] = forward[g]
      BY <3>1 DEF ForwardEnds
    <3>7. ListedTunnelWhole'
      BY <3>1, <3>6
    <3> QED
      BY <3>5, <3>7
  <2> QED
    BY <1>4, <2>1, <2>2, <2>3, <2>4, <2>6, <2>7 DEF ClientStep
<1>5. ASSUME NEW h \in Hosts, NEW p \in Ports, PortReleased(h, p)  PROVE TunnelInv'
  <2>1. held' \in [Hosts -> [Ports -> Clients \union {None, Stale}]]
    BY <1>5 DEF PortReleased
  <2> QED
    BY <1>5, <2>1 DEF PortReleased
<1> QED
  BY <1>2, <1>3, <1>4, <1>5 DEF SshNext

-----------------------------------------------------------------------------

CloudInv == TypeOK /\ ListedTunnelWhole

\* The droplets listed are finitely many, and fewer after a step that adds none.
LEMMA ListedCounted ==
    ASSUME TypeOK
    PROVE  /\ Listed \in SUBSET Droplets /\ IsFiniteSet(Listed) /\ Cardinality(Listed) \in Nat
           /\ \A D : D \subseteq Listed =>
                  Cardinality(D) \in Nat /\ Cardinality(D) <= Cardinality(Listed)
           /\ \A D \in SUBSET Droplets : Cardinality(D) \in Nat /\ IsFiniteSet(D)
           /\ \A D \in SUBSET Droplets :
                  Cardinality(Listed \union D) <= Cardinality(Listed) + Cardinality(D)
<1>1. Listed \in SUBSET Droplets
  BY DEF Listed
<1>2. \A D \in SUBSET Droplets : IsFiniteSet(D) /\ Cardinality(D) \in Nat
  BY DropletsAssumption, FS_Subset, FS_CardinalityType
<1>3. ASSUME NEW D, D \subseteq Listed  PROVE Cardinality(D) <= Cardinality(Listed)
  BY <1>1, <1>2, <1>3, FS_Subset
<1>4. ASSUME NEW D \in SUBSET Droplets
      PROVE  Cardinality(Listed \union D) <= Cardinality(Listed) + Cardinality(D)
  <2>1. /\ Cardinality(Listed \union D) =
              Cardinality(Listed) + Cardinality(D) - Cardinality(Listed \cap D)
        /\ Cardinality(Listed \cap D) \in Nat
    BY <1>1, <1>2, FS_Union
  <2> QED
    BY <1>1, <1>2, <2>1
<1> QED
  BY <1>1, <1>2, <1>3, <1>4

\* Every step of the cloud goroutine and of DigitalOcean keeps the types and the
\* tunnels, and of those of droplets only the creation lists more.
LEMMA CloudStep ==
    ASSUME CloudInv, [Next]_vars
    PROVE  /\ CloudInv'
           /\ ToDeleteListed =>
                 ToDeleteListed' /\ (CreateMissingDroplets \/ Listed' \subseteq Listed)
<1> USE DEF CloudInv, TypeOK
<1>1. ASSUME UNCHANGED vars  PROVE CloudInv' /\ Listed' \subseteq Listed
  BY <1>1 DEF vars, sshVars, clientVars, cloudVars, SshTypeOK, ListedTunnelWhole, Listed
<1>2. ASSUME SshNext /\ UNCHANGED cloudVars  PROVE CloudInv' /\ Listed' \subseteq Listed
  BY <1>2, TunnelStep DEF TunnelInv, cloudVars, Listed
\* A step that leaves the tunnels alone, and one that ends the process.
<1>3. ASSUME UNCHANGED <<alive, clientVars>>,
             ipPort' \subseteq Hosts, online' \subseteq Hosts, failures' \in Nat
      PROVE  SshTypeOK' /\ ListedTunnelWhole'
  BY <1>3 DEF clientVars, SshTypeOK, ListedTunnelWhole
<1>4. MayFail => failures' \in Nat
  BY DEF MayFail, SshTypeOK
<1>5. ASSUME (Succeeds /\ UNCHANGED online) \/ (Fatal /\ UNCHANGED online)
      PROVE  SshTypeOK' /\ ListedTunnelWhole'
  <2>1. CASE Succeeds /\ UNCHANGED online
    BY <1>3, <2>1 DEF Succeeds, SshTypeOK
  <2>2. CASE Fatal /\ UNCHANGED online
    BY <1>4, <2>2, EndsWhole DEF Fatal, TunnelInv, SshTypeOK
  <2> QED
    BY <1>5, <2>1, <2>2
<1>6. ASSUME GetSnapshotByName  PROVE CloudInv' /\ Listed' \subseteq Listed
  <2>1. SshTypeOK' /\ ListedTunnelWhole'
    BY <1>5, <1>6 DEF GetSnapshotByName
  <2> QED
    BY <1>6, <2>1 DEF GetSnapshotByName, Listed
<1>7. ASSUME ListToDelete  PROVE CloudInv' /\ Listed' \subseteq Listed
  <2>1. SshTypeOK' /\ ListedTunnelWhole'
    BY <1>5, <1>7 DEF ListToDelete
  <2> QED
    BY <1>7, <2>1 DEF ListToDelete, Listed
<1>8. ASSUME NEW d \in Droplets, DeleteDroplet(d)
      PROVE  CloudInv' /\ (ToDeleteListed => Listed' \subseteq Listed)
  <2>1. SshTypeOK' /\ ListedTunnelWhole'
    BY <1>5, <1>8 DEF DeleteDroplet
  <2>2. ToDeleteListed => droplet[d] # "none"
    BY <1>8 DEF DeleteDroplet, At, ToDeleteListed
  <2> QED
    BY <1>8, <2>1, <2>2 DEF DeleteDroplet, Listed
<1>9. ASSUME Deleted  PROVE CloudInv' /\ Listed' \subseteq Listed
  <2>1. SshTypeOK' /\ ListedTunnelWhole'
    BY <1>3, <1>9 DEF Deleted, sshVars, clientVars, SshTypeOK
  <2> QED
    BY <1>9, <2>1 DEF Deleted, Listed
<1>10. ASSUME ListDroplets  PROVE CloudInv' /\ Listed' \subseteq Listed
  <2>1. SshTypeOK' /\ ListedTunnelWhole'
    BY <1>3, <1>4, <1>10 DEF ListDroplets, SshTypeOK
  <2>2. missing' \in Nat
    <3>1. Cardinality(Listed) \in Nat
      BY ListedCounted
    <3>2. Missing \in Nat
      BY <3>1, ServersAssumption DEF Missing
    <3> QED
      BY <1>10, <3>2 DEF ListDroplets
  <2> QED
    BY <1>10, <2>1, <2>2 DEF ListDroplets, Listed
<1>11. ASSUME CreateMissingDroplets  PROVE CloudInv'
  <2>1. SshTypeOK' /\ ListedTunnelWhole'
    BY <1>3, <1>4, <1>11 DEF CreateMissingDroplets, SshTypeOK
  <2>2. droplet' \in [Droplets -> {"none", "new", "active", "dying"}]
           /\ todo' \subseteq Droplets /\ ids' \subseteq Droplets
    BY <1>11 DEF CreateMissingDroplets
  <2> QED
    BY <1>11, <2>1, <2>2 DEF CreateMissingDroplets
<1>12. ASSUME NEW d \in Droplets, WaitForDropletCreation(d)
       PROVE  CloudInv' /\ Listed' \subseteq Listed
  <2>1. SshTypeOK' /\ ListedTunnelWhole'
    BY <1>3, <1>12 DEF WaitForDropletCreation, sshVars, clientVars, SshTypeOK
  <2> QED
    BY <1>12, <2>1 DEF WaitForDropletCreation, Listed
<1>13. ASSUME UpdateSSHConfigWithIPs  PROVE CloudInv' /\ Listed' \subseteq Listed
  <2>1. {Address[d] : d \in {e \in Droplets : droplet[e] \in {"active", "dying"}}} \subseteq Hosts
    BY AddressAssumption
  <2>2. SshTypeOK' /\ ListedTunnelWhole'
    <3>1. CASE ProcessEnds /\ UNCHANGED <<online, failures>>
      BY <3>1, EndsWhole DEF TunnelInv, SshTypeOK
    <3>2. CASE /\ UNCHANGED <<alive, clientVars, online>> /\ ipPort' \subseteq Hosts
               /\ UNCHANGED failures \/ MayFail
      BY <1>3, <1>4, <3>2 DEF SshTypeOK
    <3> QED
      BY <1>13, <2>1, <3>1, <3>2 DEF UpdateSSHConfigWithIPs, SshTypeOK
  <2> QED
    BY <1>13, <2>2 DEF UpdateSSHConfigWithIPs, Listed
<1>14. ASSUME NEW d \in Droplets, Activated(d)
       PROVE  CloudInv' /\ Listed' \subseteq Listed
  <2>1. SshTypeOK' /\ ListedTunnelWhole'
    BY <1>3, <1>14, AddressAssumption DEF Activated, clientVars, SshTypeOK
  <2> QED
    BY <1>14, <2>1 DEF Activated, Listed
<1>15. ASSUME NEW d \in Droplets, Gone(d)
       PROVE  CloudInv' /\ Listed' \subseteq Listed
  <2> DEFINE h == Address[d]
  <2>1. h \in Hosts
    BY AddressAssumption
  <2>2. /\ UNCHANGED <<alive, ipPort, activeConnections, forward, failures>>
        /\ online' = online \ {h}
        /\ client' = [client EXCEPT ![h] =
                          [k \in Clients |-> IF client[h][k] = "up" THEN "down" ELSE client[h][k]]]
        /\ held' = [held EXCEPT ![h] = [p \in Ports |-> None]]
    BY <1>15 DEF Gone, HostGone
  <2> HIDE DEF h
  <2>3. client' \in [Hosts -> [Clients -> {"free", "dialing", "up", "down"}]]
    BY <2>1, <2>2 DEF SshTypeOK
  <2>4. held' \in [Hosts -> [Ports -> Clients \union {None, Stale}]]
    BY <2>1, <2>2 DEF SshTypeOK
  <2>5. SshTypeOK'
    BY <2>2, <2>3, <2>4 DEF SshTypeOK
  <2>6. \A g \in Hosts, k \in Clients :
            client[g][k] \in {"up", "down"} => client'[g][k] \in {"up", "down"}
    BY <2>1, <2>2 DEF SshTypeOK
  <2>7. ListedTunnelWhole'
    BY <2>2, <2>6 DEF ListedTunnelWhole, SshTypeOK
  <2> QED
    BY <1>15, <2>5, <2>7 DEF Gone, Listed
<1>16. ASSUME ToDeleteListed  PROVE ToDeleteListed'
  <2> USE <1>16 DEF ToDeleteListed, At
  <2>1. CASE ProcessDigitalOcean
    <3>1. CASE GetSnapshotByName \/ \E d \in Droplets : DeleteDroplet(d)
      BY <3>1 DEF GetSnapshotByName, DeleteDroplet
    <3>2. CASE ListToDelete
      BY <3>2 DEF ListToDelete, Listed
    <3>3. CASE ~ListToDelete /\ ~GetSnapshotByName /\ ~\E d \in Droplets : DeleteDroplet(d)
      <4>1. cpc' \notin {"snapshot", "prefix", "delete"}
        BY <2>1, <3>3
        DEF ProcessDigitalOcean, Deleted, ListDroplets, CreateMissingDroplets,
            WaitForDropletCreation, UpdateSSHConfigWithIPs
      <4> QED
        BY <4>1
    <3> QED
      BY <3>1, <3>2, <3>3
  <2>2. CASE \E d \in Droplets : Activated(d) \/ Gone(d)
    BY <2>2 DEF Activated, Gone
  <2>3. CASE UNCHANGED cloudVars
    BY <2>3 DEF cloudVars
  <2> QED
    BY <2>1, <2>2, <2>3 DEF Next, vars
<1> QED
  BY <1>1, <1>2, <1>6, <1>7, <1>8, <1>9, <1>10, <1>11, <1>12, <1>13, <1>14, <1>15, <1>16
  DEF Next, ProcessDigitalOcean

\* The tunnels and the cloud goroutine keep their types (TypeOK, Cloud.tla), and a
\* host that StartSSH passes over has a client both of whose forwards are at work
\* (ListedTunnelWhole, Cloud.tla).
THEOREM TunnelsWhole == Spec => []TypeOK /\ []ListedTunnelWhole
<1>1. Init => CloudInv
  <2> SUFFICES ASSUME Init  PROVE CloudInv
    OBVIOUS
  <2>1. /\ NoEntries \in [Hosts -> Clients \union {None}]
        /\ NoClients \in [Hosts -> [Clients -> {"free", "dialing", "up", "down"}]]
        /\ NoForwards \in [Hosts -> [Clients -> [Ports -> {"listen", "accept", "ended"}]]]
        /\ NoPorts \in [Hosts -> [Ports -> Clients \union {None, Stale}]]
    BY DEF NoEntries, NoClients, NoForwards, NoPorts
  <2>2. SshTypeOK
    BY <2>1, HostsAssumption, AddressAssumption DEF Init, SshInit, SshTypeOK, Listed
  <2>3. ListedTunnelWhole
    BY DEF Init, SshInit, NoEntries, ListedTunnelWhole
  <2> QED
    BY <2>2, <2>3 DEF Init, CloudInv, TypeOK
<1>2. CloudInv /\ [Next]_vars => CloudInv'
  BY CloudStep
<1>3. CloudInv => TypeOK /\ ListedTunnelWhole
  BY DEF CloudInv
<1> QED
  BY <1>1, <1>2, <1>3, PTL DEF Spec

\* The account never grows beyond the configured number of droplets, whatever is
\* lost, still being deleted or created meanwhile (NeverTooManyDroplets, Cloud.tla).
THEOREM DropletsBounded == Spec => [](DropletsCounted /\ ToDeleteListed) /\ NeverTooManyDroplets
<1>1. Init => DropletsCounted /\ ToDeleteListed
  BY DEF Init, DropletsCounted, ToDeleteListed
<1>2. ASSUME CloudInv, DropletsCounted, ToDeleteListed, [Next]_vars
      PROVE  /\ DropletsCounted' /\ ToDeleteListed'
             /\ Cardinality(Listed') > Cardinality(Listed) => Cardinality(Listed') <= Servers
  <2> USE <1>2 DEF CloudInv
  <2>1. /\ Cardinality(Listed) \in Nat /\ Cardinality(Listed') \in Nat /\ missing \in Nat
        /\ Servers \in Nat
    BY CloudStep, ListedCounted, ServersAssumption DEF TypeOK, Listed
  <2>2. CASE CreateMissingDroplets
    <3>1. PICK D \in SUBSET Droplets : Cardinality(D) = missing /\ Listed' \subseteq Listed \union D
      BY <2>2 DEF CreateMissingDroplets, Listed
    <3>2. Cardinality(Listed') <= Cardinality(Listed) + missing
      <4>1. IsFiniteSet(Listed \union D) /\ Cardinality(Listed \union D) \in Nat
        BY ListedCounted
      <4>2. Cardinality(Listed') <= Cardinality(Listed \union D)
        BY <3>1, <4>1, FS_Subset
      <4> QED
        BY <2>1, <3>1, <4>1, <4>2, ListedCounted
    <3>3. cpc = "create" /\ cpc' = "wait"
      BY <2>2 DEF CreateMissingDroplets, At
    <3> QED
      BY <2>1, <3>2, <3>3, CloudStep DEF DropletsCounted
  <2>3. CASE Listed' \subseteq Listed
    <3>1. Cardinality(Listed') <= Cardinality(Listed)
      BY <2>3, ListedCounted
    <3>2. CASE ListDroplets
      <4>1. UNCHANGED Listed /\ (cpc' = "create" => missing' = Missing)
        BY <3>2 DEF ListDroplets, Listed
      <4> QED
        BY <2>1, <3>1, <4>1, CloudStep DEF DropletsCounted, Missing
    <3>3. CASE ~ListDroplets
      <4>1. cpc' = "create" => cpc = "create" /\ missing' = missing
        BY <3>3 DEF Next, ProcessDigitalOcean, GetSnapshotByName, ListToDelete, DeleteDroplet,
           Deleted, CreateMissingDroplets, WaitForDropletCreation, UpdateSSHConfigWithIPs,
           Activated, Gone, cloudVars, vars
      <4> QED
        BY <2>1, <3>1, <4>1, CloudStep DEF DropletsCounted
    <3> QED
      BY <3>2, <3>3
  <2> QED
    BY <2>2, <2>3, CloudStep
<1>3. Spec => []CloudInv
  BY TunnelsWhole, PTL DEF CloudInv
<1> QED
  BY <1>1, <1>2, <1>3, PTL DEF Spec, NeverTooManyDroplets
=============================================================================
