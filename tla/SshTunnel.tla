----------------------------- MODULE SshTunnel -----------------------------
(***************************************************************************)
(* The SSH tunnels of the manager (manager/sshTunnel): StartSSH goes round *)
(* the configured hosts for ever and dials those without an entry in       *)
(* activeConnections.  Every dial is a goroutine; a client that connects   *)
(* is entered, and two goroutines ask the host to forward the two ports of *)
(* the manager.  When either of them fails it removes the entry of the     *)
(* host, which by then may be that of another client, and ends.            *)
(*                                                                         *)
(* The ssh servers are external.  A server gives a port to one client; it  *)
(* notices the end of a client some time after the client's link is down.  *)
(***************************************************************************)
EXTENDS Integers, FiniteSets

CONSTANTS
    Hosts,          \* the hosts that may appear in config.IPPort
    StaticHosts,    \* those the configuration file lists
    ClientsOf,      \* bound: ClientsOf[h]: the clients of h with work at a time
    Unstable,       \* bound: the hosts a dial or a link of which may fail
    MaxFailures     \* bound: how many failures a behaviour contains

ASSUME HostsAssumption       == IsFiniteSet(Hosts) /\ StaticHosts \union Unstable \subseteq Hosts
ASSUME ClientsOfAssumption   == ClientsOf \in [Hosts -> SUBSET (Nat \ {0})]
ASSUME MaxFailuresAssumption == MaxFailures \in Nat

Ports   == {"http", "https"}
Clients == UNION {ClientsOf[h] : h \in Hosts}
None    == 0
Stale   == -1   \* the server has not noticed that the client of a port is gone

VARIABLES
    alive,              \* is the manager process alive
    ipPort,             \* the keys of config.IPPort
    activeConnections,  \* activeConnections[h]: its client, None without entry
    client,             \* client[h][k]: "free", "dialing", "up" or "down"
    forward,            \* forward[h][k][p]: where that forwardPort is
    held,               \* held[h][p]: the client the server gave port p
    online,             \* the hosts that can be reached
    failures            \* how many failures there were

clientVars == <<activeConnections, client, forward, held>>
sshVars    == <<alive, ipPort, clientVars, online, failures>>

NoEntries  == [h \in Hosts |-> None]
NoClients  == [h \in Hosts |-> [k \in Clients |-> "free"]]
NoForwards == [h \in Hosts |-> [k \in Clients |-> [p \in Ports |-> "ended"]]]
NoPorts    == [h \in Hosts |-> [p \in Ports |-> None]]

SshInit ==
    /\ alive = TRUE
    /\ ipPort = StaticHosts
    /\ activeConnections = NoEntries /\ client = NoClients
    /\ forward = NoForwards /\ held = NoPorts
    /\ failures = 0

SshTypeOK ==
    /\ alive \in BOOLEAN
    /\ ipPort \subseteq Hosts /\ online \subseteq Hosts
    /\ activeConnections \in [Hosts -> Clients \union {None}]
    /\ client \in [Hosts -> [Clients -> {"free", "dialing", "up", "down"}]]
    /\ forward \in [Hosts -> [Clients -> [Ports -> {"listen", "accept", "ended"}]]]
    /\ held \in [Hosts -> [Ports -> Clients \union {None, Stale}]]
    /\ failures \in Nat

\* The process ends, and nothing more of it is followed.
ProcessEnds ==
    /\ alive' = FALSE
    /\ ipPort' = StaticHosts
    /\ activeConnections' = NoEntries /\ client' = NoClients
    /\ forward' = NoForwards /\ held' = NoPorts

MayFail == failures < MaxFailures /\ failures' = failures + 1

-----------------------------------------------------------------------------
(* The loop of StartSSH.                                                   *)

FreeClients(h) == {k \in ClientsOf[h] : client[h][k] = "free"}

AClient(h) == CHOOSE k \in FreeClients(h) : TRUE

\* A host without an entry is dialled, even when a dial is still under way.
Visit(h) ==
    /\ alive /\ h \in ipPort
    /\ activeConnections[h] = None
    /\ FreeClients(h) # {}
    /\ client' = [client EXCEPT ![h][AClient(h)] = "dialing"]
    /\ UNCHANGED <<alive, ipPort, activeConnections, forward, held, online, failures>>

-----------------------------------------------------------------------------
(* The goroutine that dials.                                               *)

Dialled(h, k) ==
    /\ alive /\ client[h][k] = "dialing"
    /\ h \in online
    /\ client' = [client EXCEPT ![h][k] = "up"]
    /\ activeConnections' = [activeConnections EXCEPT ![h] = k]
    /\ forward' = [forward EXCEPT ![h][k] = [p \in Ports |-> "listen"]]
    /\ UNCHANGED <<alive, ipPort, held, online, failures>>

DialFails(h, k) ==
    /\ alive /\ client[h][k] = "dialing"
    /\ IF h \in online THEN h \in Unstable /\ MayFail ELSE UNCHANGED failures
    /\ client' = [client EXCEPT ![h][k] = "free"]
    /\ UNCHANGED <<alive, ipPort, activeConnections, forward, held, online>>

\* The file with the private key is gone: log.Fatal.
NoPrivateKey(h, k) ==
    /\ alive /\ client[h][k] = "dialing"
    /\ MayFail
    /\ ProcessEnds
    /\ UNCHANGED online

-----------------------------------------------------------------------------
(* forwardPort.  What is forwarded leaves no state.  A client whose two    *)
(* goroutines have ended is free to stand for another one; the code never  *)
(* closes it.                                                              *)

ForwardEnds(h, k, p) ==
    /\ forward' = [forward EXCEPT ![h][k][p] = "ended"]
    /\ client' = [client EXCEPT ![h][k] =
                     IF \A q \in Ports \ {p} : forward[h][k][q] = "ended" THEN "free" ELSE @]

Listen(h, k, p) ==
    /\ alive /\ forward[h][k][p] = "listen"
    /\ client[h][k] = "up" /\ held[h][p] = None
    /\ held' = [held EXCEPT ![h][p] = k]
    /\ forward' = [forward EXCEPT ![h][k][p] = "accept"]
    /\ UNCHANGED <<alive, ipPort, activeConnections, client, online, failures>>

\* Mutation: a refused port leaves the entry of the host.
ListenFailsKeepsEntry(h, k, p) ==
    /\ alive /\ forward[h][k][p] = "listen"
    /\ client[h][k] = "down" \/ held[h][p] # None
    /\ ForwardEnds(h, k, p)
    /\ UNCHANGED <<alive, ipPort, activeConnections, held, online, failures>>

\* The link is down, or another client has the port.
ListenFails(h, k, p) ==
    /\ alive /\ forward[h][k][p] = "listen"
    /\ client[h][k] = "down" \/ held[h][p] # None
    /\ ForwardEnds(h, k, p)
    /\ activeConnections' = [activeConnections EXCEPT ![h] = None]
    /\ UNCHANGED <<alive, ipPort, held, online, failures>>

AcceptFails(h, k, p) ==
    /\ alive /\ forward[h][k][p] = "accept"
    /\ client[h][k] = "down"
    /\ ForwardEnds(h, k, p)
    /\ activeConnections' = [activeConnections EXCEPT ![h] = None]
    /\ UNCHANGED <<alive, ipPort, held, online, failures>>

\* activeConnections has no lock.  A goroutine that writes it while the loop, or
\* another goroutine, is at it may make the Go runtime stop the process.
WritesEntry(h, k) ==
    \/ client[h][k] = "dialing" /\ h \in online
    \/ \E p \in Ports :
          \/ forward[h][k][p] = "listen" /\ (client[h][k] = "down" \/ held[h][p] # None)
          \/ forward[h][k][p] = "accept" /\ client[h][k] = "down"

ConcurrentMapAccess ==
    /\ alive /\ \E h \in Hosts, k \in Clients : WritesEntry(h, k)
    /\ ProcessEnds
    /\ UNCHANGED <<online, failures>>

-----------------------------------------------------------------------------
(* The network and the servers.                                            *)

LinkDown(h, k) ==
    /\ alive /\ h \in Unstable
    /\ client[h][k] = "up"
    /\ MayFail
    /\ client' = [client EXCEPT ![h][k] = "down"]
    /\ held' = [held EXCEPT ![h] = [p \in Ports |-> IF @[p] = k THEN Stale ELSE @[p]]]
    /\ UNCHANGED <<alive, ipPort, activeConnections, forward, online>>

\* The machine ends, and with it its server.
HostGone(h) ==
    /\ online' = online \ {h}
    /\ client' = [client EXCEPT ![h] = [k \in Clients |-> IF @[k] = "up" THEN "down" ELSE @[k]]]
    /\ held' = [held EXCEPT ![h] = [p \in Ports |-> None]]

PortReleased(h, p) ==
    /\ alive
    /\ held[h][p] = Stale
    /\ held' = [held EXCEPT ![h][p] = None]
    /\ UNCHANGED <<alive, ipPort, activeConnections, client, forward, online, failures>>

ClientStep(h, k) ==
    \/ Dialled(h, k) \/ DialFails(h, k) \/ NoPrivateKey(h, k) \/ LinkDown(h, k)
    \/ \E p \in Ports : Listen(h, k, p) \/ ListenFails(h, k, p) \/ AcceptFails(h, k, p)

SshNext ==
    \/ ConcurrentMapAccess
    \/ \E h \in Hosts :
          \/ Visit(h)
          \/ \E k \in Clients : ClientStep(h, k)
          \/ \E p \in Ports : PortReleased(h, p)

Tunnelled(h) == \A p \in Ports : held[h][p] \in Clients
=============================================================================
