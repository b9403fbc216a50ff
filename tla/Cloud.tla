------------------------------- MODULE Cloud -------------------------------
(***************************************************************************)
(* Cloud workers (manager/cloud): ProcessDigitalOcean, a goroutine that    *)
(* makes the account have the configured number of droplets and adds their *)
(* addresses to the hosts of the SSH tunnels, next to which it runs.       *)
(*                                                                         *)
(* DigitalOcean is external.  A droplet that was asked for becomes active, *)
(* with its address, some time later; one that was deleted is listed for   *)
(* some time more.  Every droplet here bears the prefix of the snapshot.   *)
(***************************************************************************)
EXTENDS SshTunnel

CONSTANTS
    Droplets,   \* the droplets that may exist
    Address,    \* Address[d]: the public address droplet d gets
    Servers,    \* configCloud.Servers
    Recreate,   \* configCloud.Recreate
    IPPortGiven \* does the SSH configuration have an ipPort (nil otherwise)

ASSUME DropletsAssumption == IsFiniteSet(Droplets)
ASSUME AddressAssumption  == Address \in [Droplets -> Hosts]
ASSUME ServersAssumption  == Servers \in Nat
ASSUME CloudSwitchesAssumption == Recreate \in BOOLEAN /\ IPPortGiven \in BOOLEAN

VARIABLES
    droplet,    \* droplet[d]: "none", "new", "active" or "dying"
    cpc,        \* where ProcessDigitalOcean is
    todo,       \* the droplets it is still to delete, or to wait for
    missing,    \* how many droplets it is to create
    ids         \* the droplets it has created

cloudVars == <<droplet, cpc, todo, missing, ids>>
vars == <<sshVars, cloudVars>>

Listed == {d \in Droplets : droplet[d] # "none"}

Init ==
    /\ droplet \in [Droplets -> {"none", "active"}]
    /\ online = {Address[d] : d \in Listed}
    /\ SshInit
    /\ IPPortGiven \/ ipPort = {}
    /\ cpc = "snapshot"
    /\ todo = {} /\ missing = 0 /\ ids = {}

-----------------------------------------------------------------------------
(* ProcessDigitalOcean, request by request.  Some failures end the process *)
(* (log.Fatal), some the goroutine, and some are only logged.              *)

At(pc) == alive /\ cpc = pc

\* log.Fatal.
Fatal    == MayFail /\ ProcessEnds
Succeeds == UNCHANGED <<alive, ipPort, clientVars, failures>>

GetSnapshotByName ==
    /\ At("snapshot")
    /\ \/ cpc' = (IF Recreate THEN "prefix" ELSE "list") /\ Succeeds
       \/ Fatal /\ UNCHANGED cpc
    /\ UNCHANGED <<online, droplet, todo, missing, ids>>

\* DeleteDropletsByPrefix lists the droplets ...
ListToDelete ==
    /\ At("prefix")
    /\ \/ cpc' = "delete" /\ todo' = Listed /\ Succeeds
       \/ Fatal /\ UNCHANGED <<cpc, todo>>
    /\ UNCHANGED <<online, droplet, missing, ids>>

\* ... and deletes one after the other.
DeleteDroplet(d) ==
    /\ At("delete") /\ d \in todo
    /\ \/ /\ droplet' = [droplet EXCEPT ![d] = "dying"]
          /\ todo' = todo \ {d}
          /\ Succeeds
       \/ Fatal /\ UNCHANGED <<droplet, todo>>
    /\ UNCHANGED <<online, cpc, missing, ids>>

\* After ten seconds it goes on.
Deleted ==
    /\ At("delete") /\ todo = {}
    /\ cpc' = "list"
    /\ UNCHANGED <<sshVars, droplet, todo, missing, ids>>

\* Mutation: the number of missing droplets is not compared with zero.
MissingUnchecked == Servers - Cardinality(Listed)

\* Mutation: the droplets being deleted are not counted.
MissingBesideDying ==
    LET kept == {d \in Listed : droplet[d] # "dying"}
    IN  IF Cardinality(kept) < Servers THEN Servers - Cardinality(kept) ELSE 0

Missing == IF Cardinality(Listed) < Servers THEN Servers - Cardinality(Listed) ELSE 0

ListDroplets ==
    /\ At("list")
    /\ \/ /\ missing' = Missing
          /\ cpc' = "create"
          /\ UNCHANGED failures
       \/ /\ MayFail
          /\ cpc' = "stopped"
          /\ UNCHANGED missing
    /\ UNCHANGED <<alive, ipPort, clientVars, online, droplet, todo, ids>>

\* The droplets of a request that fails may have been created nevertheless: the
\* answer is lost, and nobody waits for them.
CreateMissingDroplets ==
    /\ At("create")
    /\ \E D \in SUBSET {d \in Droplets : droplet[d] = "none"} :
          /\ Cardinality(D) = missing
          /\ \/ /\ droplet' = [d \in Droplets |-> IF d \in D THEN "new" ELSE droplet[d]]
                /\ ids' = D /\ todo' = D
                /\ UNCHANGED failures
             \/ /\ missing > 0 /\ MayFail
                /\ droplet' \in {droplet, [d \in Droplets |-> IF d \in D THEN "new" ELSE droplet[d]]}
                /\ UNCHANGED <<ids, todo>>
    /\ cpc' = "wait"
    /\ UNCHANGED <<alive, ipPort, clientVars, online, missing>>

\* Mutation: the status of the droplet is not looked at.
WaitForDropletListed(d) ==
    /\ At("wait") /\ d \in todo
    /\ droplet[d] # "none"
    /\ todo' = todo \ {d}
    /\ UNCHANGED <<sshVars, droplet, cpc, missing, ids>>

\* WaitForDropletCreation asks again while the droplet is not active or a request
\* fails, without an end.
WaitForDropletCreation(d) ==
    /\ At("wait") /\ d \in todo
    /\ droplet[d] = "active"
    /\ todo' = todo \ {d}
    /\ UNCHANGED <<sshVars, droplet, cpc, missing, ids>>

\* updateSSHConfigWithIPs: GetDropletIPsByPrefix, then one entry per address.  The
\* Go runtime may stop the process when StartSSH is going round the map meanwhile.
\* A missing ipPort is a nil map, or no configuration at all: the assignment panics.
UpdateSSHConfigWithIPs ==
    /\ At("wait") /\ todo = {}
    /\ LET ips == {Address[d] : d \in {e \in Droplets : droplet[e] \in {"active", "dying"}}}
       IN  \/ /\ ips # {} => IPPortGiven
              /\ ipPort' = ipPort \union ips
              /\ cpc' = "done"
              /\ UNCHANGED <<alive, clientVars, failures>>
           \/ /\ ips # {} /\ (ipPort # {} \/ ~IPPortGiven)
              /\ ProcessEnds
              /\ UNCHANGED <<cpc, failures>>
           \/ /\ MayFail
              /\ cpc' = "stopped"
              /\ UNCHANGED <<alive, ipPort, clientVars>>
    /\ UNCHANGED <<online, droplet, todo, missing, ids>>

ProcessDigitalOcean ==
    \/ GetSnapshotByName \/ ListToDelete \/ Deleted \/ ListDroplets
    \/ CreateMissingDroplets \/ UpdateSSHConfigWithIPs
    \/ \E d \in Droplets : DeleteDroplet(d) \/ WaitForDropletCreation(d)

-----------------------------------------------------------------------------
(* DigitalOcean.                                                           *)

Activated(d) ==
    /\ alive
    /\ droplet[d] = "new"
    /\ droplet' = [droplet EXCEPT ![d] = "active"]
    /\ online' = online \union {Address[d]}
    /\ UNCHANGED <<alive, ipPort, clientVars, failures, cpc, todo, missing, ids>>

Gone(d) ==
    /\ alive
    /\ droplet[d] = "dying"
    /\ droplet' = [droplet EXCEPT ![d] = "none"]
    /\ HostGone(Address[d])
    /\ UNCHANGED <<alive, ipPort, activeConnections, forward, failures, cpc, todo, missing, ids>>

Next ==
    \/ SshNext /\ UNCHANGED cloudVars
    \/ ProcessDigitalOcean
    \/ \E d \in Droplets : Activated(d) \/ Gone(d)

Spec == Init /\ [][Next]_vars

-----------------------------------------------------------------------------
(* Fairness.  The loop, the goroutines and the servers go on; a dial to a  *)
(* host that can be reached succeeds unless it is one of the failures.     *)

SshFairness ==
    \A h \in Hosts :
          /\ WF_vars(Visit(h) /\ UNCHANGED cloudVars)
          /\ \A k \in Clients : WF_vars((Dialled(h, k) \/ DialFails(h, k)) /\ UNCHANGED cloudVars)
          /\ \A k \in Clients, p \in Ports :
                WF_vars((Listen(h, k, p) \/ ListenFails(h, k, p) \/ AcceptFails(h, k, p))
                            /\ UNCHANGED cloudVars)
          /\ \A p \in Ports : WF_vars(PortReleased(h, p) /\ UNCHANGED cloudVars)

FairSpec ==
    /\ Spec /\ SshFairness
    /\ WF_vars(ProcessDigitalOcean)
    /\ \A d \in Droplets : WF_vars(Activated(d)) /\ WF_vars(Gone(d))

-----------------------------------------------------------------------------
(* Properties.                                                             *)

\* Type correctness of the tunnels and of the cloud goroutine: in particular the
\* number of droplets to create is never negative (createMissingDroplets).
TypeOK ==
    /\ SshTypeOK
    /\ droplet \in [Droplets -> {"none", "new", "active", "dying"}]
    /\ cpc \in {"snapshot", "prefix", "delete", "list", "create", "wait", "done", "stopped"}
    /\ todo \subseteq Droplets /\ ids \subseteq Droplets
    /\ missing \in Nat

\* A host that StartSSH passes over, because it has an entry, has a client both of
\* whose forwards are at work: so a failure of either is noticed and the host is
\* dialled again, although goroutines of older clients remove entries as well.
ListedTunnelWhole ==
    \A h \in Hosts : activeConnections[h] # None =>
        LET k == activeConnections[h]
        IN  client[h][k] \in {"up", "down"} /\ \A p \in Ports : forward[h][k][p] # "ended"

\* The account never grows beyond the configured number of droplets, though they
\* are counted in one request and created in a later one, with deletions still
\* under way and answers lost (listDroplets, createMissingDroplets).
NeverTooManyDroplets ==
    [][Cardinality(Listed') > Cardinality(Listed) => Cardinality(Listed') <= Servers]_vars

\* Once the failures have ended, every droplet that was created and waited for has
\* both ports of the manager forwarded for good, whichever clients hold them
\* (ProcessDigitalOcean, StartSSH), as long as the manager lives.
CreatedDropletsTunnelled ==
    \A d \in Droplets :
        (cpc = "done" /\ d \in ids) ~> [](alive => Tunnelled(Address[d]))
=============================================================================
