------------------------------ MODULE Startup ------------------------------
(***************************************************************************)
(* How the manager starts (manager/manager.go): StartManager reads its     *)
(* configurations, connects to the database, requeues the running tasks,   *)
(* and starts the goroutines of the other modules one after the other.     *)
(* startServers waits for its servers on a WaitGroup nobody ever signals,  *)
(* and when StartManager returns the process ends.                         *)
(***************************************************************************)
Providers == {"none", "digitalocean", "other"}  \* "none": no configCloud
Servers   == {"https", "http"}

VARIABLES
    config,     \* what the files say
    pc,         \* where StartManager is
    started,    \* the goroutines it has started
    waiting,    \* wgServer: how many servers it waits for, as the set of them
    listening,  \* the servers that accept connections
    database    \* can the database be reached

vars == <<config, pc, started, waiting, listening, database>>

\* A server is configured when its port is positive, and https only with a folder
\* of certificates.  The defaults of the ports are assigned to APIIdleTimeout, so
\* a port that is missing stays zero.
Configurations == [servers : SUBSET Servers, ssh : BOOLEAN, provider : Providers]

Init ==
    /\ config \in Configurations
    /\ pc = "config"
    /\ started = {} /\ waiting = {} /\ listening = {}
    /\ database \in BOOLEAN

Ends  == pc' = "ended" /\ started' = {} /\ listening' = {}
Lives == pc # "ended"

Goto(a, b) == pc = a /\ pc' = b

\* Only the manager's own configuration is required.
LoadConfigurations ==
    /\ \/ Goto("config", "connect") /\ UNCHANGED <<started, listening>>
       \/ pc = "config" /\ Ends
    /\ UNCHANGED <<config, waiting, database>>

\* connectToDatabase tries again until it succeeds.
ConnectToDatabase ==
    /\ Goto("connect", "requeue") /\ database
    /\ UNCHANGED <<config, started, waiting, listening, database>>

\* setInitialTaskStatus: the requeueing of Store, which may fail and is only logged.
SetInitialTaskStatus ==
    /\ Goto("requeue", "background")
    /\ UNCHANGED <<config, started, waiting, listening, database>>

StartBackgroundTask ==
    /\ Goto("background", "servers")
    /\ started' = started \union {"verify", "dispatch", "history"}
    /\ UNCHANGED <<config, waiting, listening, database>>

StartServers ==
    /\ Goto("servers", "wait")
    /\ started' = started \union config.servers
    /\ waiting' = config.servers
    /\ UNCHANGED <<config, listening, database>>

\* wgServer.Wait.
ServersDone ==
    /\ Goto("wait", "ssh") /\ waiting = {}
    /\ UNCHANGED <<config, started, waiting, listening, database>>

StartSSHBackgroundTask ==
    /\ Goto("ssh", "cloud")
    /\ started' = started \union (IF config.ssh THEN {"ssh"} ELSE {})
    /\ UNCHANGED <<config, waiting, listening, database>>

\* An unsupported provider is fatal.
ProcessCloudConfiguration ==
    /\ \/ /\ config.provider # "other"
          /\ Goto("cloud", "return")
          /\ started' = started \union ({config.provider} \ {"none"})
          /\ UNCHANGED listening
       \/ pc = "cloud" /\ config.provider = "other" /\ Ends
    /\ UNCHANGED <<config, waiting, database>>

Return == pc = "return" /\ Ends /\ UNCHANGED <<config, waiting, database>>

StartManager ==
    \/ LoadConfigurations \/ ConnectToDatabase \/ SetInitialTaskStatus
    \/ StartBackgroundTask \/ StartServers \/ ServersDone
    \/ StartSSHBackgroundTask \/ ProcessCloudConfiguration \/ Return

-----------------------------------------------------------------------------

\* The goroutine of a server: ListenAndServe returns only with an error.
ListenAndServe(s) ==
    /\ s \in started \ listening
    /\ listening' = listening \union {s}
    /\ UNCHANGED <<config, pc, started, waiting, database>>

ServerFails(s) ==
    /\ s \in started
    /\ Ends
    /\ UNCHANGED <<config, waiting, database>>

DatabaseChanges ==
    /\ Lives
    /\ database' = ~database
    /\ UNCHANGED <<config, pc, started, waiting, listening>>

Next ==
    \/ StartManager
    \/ \E s \in Servers : ListenAndServe(s) \/ ServerFails(s)
    \/ DatabaseChanges

Spec == Init /\ [][Next]_vars

\* StartManager and the servers go on; the database is there often enough.
FairSpec ==
    /\ Spec
    /\ SF_vars(StartManager)
    /\ \A s \in Servers : WF_vars(ListenAndServe(s))

-----------------------------------------------------------------------------

\* A manager that serves its API and has an SSH configuration goes on to connect
\* to the hosts of that configuration, or ends (README.md:363: the connection is
\* made automatically).  StartManager never comes to it: it waits for its servers.
TunnelsStart ==
    (config.ssh /\ listening # {}) ~> ("ssh" \in started \/ ~Lives)
=============================================================================
