----------------------------- MODULE AgentTunnels -----------------------------
(***************************************************************************)
(* Pull mode: the agent dials the master and is served over that           *)
(* connection (internal/web/runtime/agent_tunnel.go,                       *)
(* internal/web/controller/agent_connect.go, internal/agent/pull.go,       *)
(* internal/agentproto/pull.go), while the node is paired again, saved,    *)
(* disabled or deleted (internal/web/service/node.go,                      *)
(* node_agent_pairing.go).                                                 *)
(*                                                                         *)
(* One node.  An agent is known by the secret of its bundle; the one of an *)
(* earlier pairing may still run.  A change of the node is a transaction   *)
(* and then a Drop, and the registry's mutex covers Drop, remove and the   *)
(* end of Attach, but not the transactions.  Connections are numbered, and *)
(* a number is used again once nothing refers to it.                       *)
(***************************************************************************)
EXTENDS Naturals

CONSTANTS
  MaxConns,             \* bound on the connections at one time
  MaxEdits,             \* bound on the changes of the node
  MaxFaults,            \* bound on lost connections and restarts
  SavesOverlapPairing   \* BOOLEAN: may a save read the node before it is
                        \* paired again and store it after?

ASSUME TunnelAssumption ==
  /\ MaxConns \in Nat
  /\ MaxEdits \in Nat
  /\ MaxFaults \in Nat
  /\ SavesOverlapPairing \in BOOLEAN

VARIABLES
  node,        \* its row is enabled, disabled or deleted
  way,         \* Node.Pull: who dials whom
  secret,      \* Node.ApiToken
  pairings,    \* secrets made so far
  agents,      \* the secrets that agents in pull mode were installed with
  saving,      \* the secret a save read, 0 for no save in progress
  drops,       \* changes that are stored and did not Drop yet
  secretOf,    \* of each connection, the bearer it was dialled with
  phase,       \* where the master's handler of the connection stands
  atMaster,    \* its Conn is open on the master
  atAgent,     \* its Conn is open, or being dialled, on the agent
  cut,         \* connections that carry nothing any more
  doomed,      \* those the master is about to close
  removing,    \* those whose onClose did not get the mutex yet
  registered,  \* AgentTunnels.conns[node], 0 for none
  mutex,       \* the connection whose Attach holds AgentTunnels.mu
  edits, faults

nodeVars == <<node, way, secret, pairings, agents, saving, edits>>
connVars == <<secretOf, phase, atMaster, atAgent, cut>>
vars == <<nodeVars, connVars, drops, doomed, removing, registered, mutex,
          faults>>

Conn == 1..MaxConns

TypeOK ==
  /\ node \in {"enabled", "disabled", "deleted"}
  /\ way \in {"pull", "push"}
  /\ secret \in Nat
  /\ pairings \in Nat
  /\ agents \subseteq Nat
  /\ saving \in Nat
  /\ drops \in 0..MaxEdits
  /\ secretOf \in [Conn -> Nat]
  /\ phase \in [Conn -> {"asked", "upgraded", "welcomed", "over"}]
  /\ atMaster \in [Conn -> BOOLEAN]
  /\ atAgent \in [Conn -> BOOLEAN]
  /\ cut \subseteq Conn
  /\ doomed \subseteq Conn
  /\ removing \subseteq Conn
  /\ registered \in Conn \cup {0}
  /\ mutex \in Conn \cup {0}
  /\ edits \in 0..MaxEdits
  /\ faults \in 0..MaxFaults

\* createPullAgent stored the node, and its agent was installed.
Init ==
  /\ node = "enabled" /\ way = "pull" /\ secret = 1
  /\ pairings = 1 /\ agents = {1} /\ saving = 0 /\ drops = 0
  /\ secretOf = [c \in Conn |-> 0]
  /\ phase = [c \in Conn |-> "over"]
  /\ atMaster = [c \in Conn |-> FALSE]
  /\ atAgent = [c \in Conn |-> FALSE]
  /\ cut = {} /\ doomed = {} /\ removing = {}
  /\ registered = 0 /\ mutex = 0
  /\ edits = 0 /\ faults = 0

----------------------------------------------------------------------------
(* Changes of the node                                                     *)

Edit == edits < MaxEdits /\ edits' = edits + 1

\* PullAgentSecret yields s.
Valid(s) == node = "enabled" /\ way = "pull" /\ secret = s

\* RepairAgent's transaction: a new secret, for pull or for push.
Pair(w) ==
  /\ node # "deleted" /\ Edit
  /\ saving = 0 \/ SavesOverlapPairing
  /\ pairings' = pairings + 1
  /\ way' = w /\ secret' = pairings + 1
  /\ agents' = IF w = "pull" THEN agents \cup {pairings + 1} ELSE agents
  /\ drops' = drops + 1
  /\ UNCHANGED <<node, saving, connVars, doomed, removing, registered, mutex,
                 faults>>

\* Only what disables the node cuts its agent off.
DropsIf(disabled) == drops' = IF disabled THEN drops + 1 ELSE drops

SetEnable(to) ==
  /\ node # "deleted" /\ Edit
  /\ node' = to
  /\ DropsIf(to = "disabled")
  /\ UNCHANGED <<way, secret, pairings, agents, saving, connVars, doomed,
                 removing, registered, mutex, faults>>

Delete ==
  /\ node # "deleted" /\ Edit
  /\ node' = "deleted"
  /\ drops' = drops + 1
  /\ UNCHANGED <<way, secret, pairings, agents, saving, connVars, doomed,
                 removing, registered, mutex, faults>>

\* UpdateFromRequest reads the row for what a save does not change ...
SaveReads ==
  /\ node # "deleted" /\ saving = 0 /\ Edit
  /\ saving' = secret
  /\ UNCHANGED <<node, way, secret, pairings, agents, drops, connVars, doomed,
                 removing, registered, mutex, faults>>

\* ... and stores it again if the row is still there: api_token, not pull.
SaveWrites(to) ==
  /\ saving # 0
  /\ IF node = "deleted"
     THEN UNCHANGED <<node, secret>>
     ELSE node' = to /\ secret' = saving
  /\ saving' = 0
  /\ DropsIf(to = "disabled")
  /\ UNCHANGED <<way, pairings, agents, edits, connVars, doomed, removing,
                 registered, mutex, faults>>

Opened(cs) == {c \in cs : c # 0 /\ atMaster[c]}

\* Mutant: Drop closes what it found, a connection or not.
DropsNil ==
  /\ drops > 0 /\ mutex = 0
  /\ drops' = drops - 1
  /\ registered' = 0
  /\ doomed' = doomed \cup {registered}
  /\ UNCHANGED <<nodeVars, connVars, removing, mutex, faults>>

\* Drop takes the connection out and then closes it.
Drop ==
  /\ drops > 0 /\ mutex = 0
  /\ drops' = drops - 1
  /\ registered' = 0
  /\ doomed' = doomed \cup Opened({registered})
  /\ UNCHANGED <<nodeVars, connVars, removing, mutex, faults>>

----------------------------------------------------------------------------
(* The agent's loop and the endpoint it dials                              *)

Busy(s) == \E c \in Conn : atAgent[c] /\ secretOf[c] = s

Unused ==
  {c \in Conn \ (doomed \cup removing \cup {registered}) :
     phase[c] = "over" /\ ~atMaster[c] /\ ~atAgent[c]}

\* dialMaster, when the last connection has ended and the wait is over.
Dial(s) ==
  /\ s \in agents /\ ~Busy(s)
  /\ \E c \in Unused :
       /\ \A d \in Unused : c <= d
       /\ secretOf' = [secretOf EXCEPT ![c] = s]
       /\ phase' = [phase EXCEPT ![c] = "asked"]
       /\ atAgent' = [atAgent EXCEPT ![c] = TRUE]
       /\ cut' = cut \ {c}
  /\ UNCHANGED <<nodeVars, drops, atMaster, doomed, removing, registered,
                 mutex, faults>>

HandlerGoesTo(c, step) == phase' = [phase EXCEPT ![c] = step]

\* connect: the bearer is the node's secret, and the upgrade is answered.
Upgrade(c) ==
  /\ phase[c] = "asked"
  /\ Valid(secretOf[c])
  /\ HandlerGoesTo(c, "upgraded")
  /\ atMaster' = [atMaster EXCEPT ![c] = TRUE]
  /\ UNCHANGED <<nodeVars, drops, secretOf, atAgent, cut, doomed, removing,
                 registered, mutex, faults>>

Broken(c) == c \in cut \/ ~atMaster[c] \/ ~atAgent[c]

\* The bare 404, or an upgrade whose answer does not reach the agent.
TurnAway(c) ==
  /\ phase[c] = "asked"
  /\ ~Valid(secretOf[c]) \/ c \in cut \/ ~atAgent[c]
  /\ HandlerGoesTo(c, "over")
  /\ atAgent' = [atAgent EXCEPT ![c] = FALSE]
  /\ UNCHANGED <<nodeVars, drops, secretOf, atMaster, cut, doomed, removing,
                 registered, mutex, faults>>

\* Attach: no HTTP/2 client could be made of the connection.
AttachFails(c) ==
  /\ phase[c] = "upgraded"
  /\ Broken(c)
  /\ HandlerGoesTo(c, "over")
  /\ doomed' = doomed \cup Opened({c})
  /\ UNCHANGED <<nodeVars, drops, secretOf, atMaster, atAgent, cut, removing,
                 registered, mutex, faults>>

\* Mutant: whether the agent is welcome was looked at before the lock.
AsksBeforeLock(c) ==
  /\ phase[c] = "upgraded" /\ mutex = 0
  /\ mutex' = c
  /\ HandlerGoesTo(c, "welcomed")
  /\ UNCHANGED <<nodeVars, drops, secretOf, atMaster, atAgent, cut, doomed,
                 removing, registered, faults>>

\* Attach locks the registry and welcome reads the node once more.
Welcome(c) ==
  /\ phase[c] = "upgraded" /\ mutex = 0
  /\ Valid(secretOf[c])
  /\ mutex' = c
  /\ HandlerGoesTo(c, "welcomed")
  /\ UNCHANGED <<nodeVars, drops, secretOf, atMaster, atAgent, cut, doomed,
                 removing, registered, faults>>

\* ErrAgentTurnedAway: the mutex is free again, and the connection closed.
Refuse(c) ==
  /\ phase[c] = "upgraded" /\ mutex = 0
  /\ ~Valid(secretOf[c])
  /\ HandlerGoesTo(c, "over")
  /\ doomed' = doomed \cup Opened({c})
  /\ UNCHANGED <<nodeVars, drops, secretOf, atMaster, atAgent, cut, removing,
                 registered, mutex, faults>>

\* Mutant: the connection that was replaced is not closed.
RegisterOnly(c) ==
  /\ phase[c] = "welcomed"
  /\ registered' = c /\ mutex' = 0
  /\ HandlerGoesTo(c, "over")
  /\ UNCHANGED <<nodeVars, drops, secretOf, atMaster, atAgent, cut, doomed,
                 removing, faults>>

\* The connection takes the place of the old one, which is closed after.
Register(c) ==
  /\ phase[c] = "welcomed"
  /\ registered' = c /\ mutex' = 0
  /\ HandlerGoesTo(c, "over")
  /\ doomed' = doomed \cup Opened({registered})
  /\ UNCHANGED <<nodeVars, drops, secretOf, atMaster, atAgent, cut, removing,
                 faults>>

Handler(c) ==
  \/ Upgrade(c) \/ TurnAway(c) \/ AttachFails(c)
  \/ Welcome(c) \/ Refuse(c) \/ Register(c)

----------------------------------------------------------------------------
(* The two ends of a connection                                            *)

\* Conn.Close on the master: it was told to, the agent's end is closed, or
\* its ping is not answered.
MasterCloses(c) ==
  /\ atMaster[c]
  /\ c \in doomed \/ c \in cut \/ ~atAgent[c]
  /\ atMaster' = [atMaster EXCEPT ![c] = FALSE]
  /\ doomed' = doomed \ {c}
  /\ removing' = removing \cup {c}
  /\ UNCHANGED <<nodeVars, drops, secretOf, phase, atAgent, cut, registered,
                 mutex, faults>>

\* Mutant: remove takes out whatever is registered.
WithoutAny(c) == 0

\* remove takes the connection out if it is the registered one.
Without(c) == IF registered = c THEN 0 ELSE registered

\* onClose: remove waits for the mutex.
Remove(c) ==
  /\ c \in removing /\ mutex = 0
  /\ registered' = Without(c)
  /\ removing' = removing \ {c}
  /\ UNCHANGED <<nodeVars, connVars, drops, doomed, mutex, faults>>

\* The agent's end: ServeConn returns, KeepAlive gives up, or the dial does.
AgentCloses(c) ==
  /\ atAgent[c]
  /\ c \in cut \/ (phase[c] # "asked" /\ ~atMaster[c])
  /\ atAgent' = [atAgent EXCEPT ![c] = FALSE]
  /\ UNCHANGED <<nodeVars, drops, secretOf, phase, atMaster, cut, doomed,
                 removing, registered, mutex, faults>>

\* A request of the master goes over what client finds; its answer is the
\* business of those who ask.
RoundTrip ==
  /\ registered # 0
  /\ atMaster[registered]
  /\ UNCHANGED vars

Fault == faults < MaxFaults /\ faults' = faults + 1

PathBreaks(c) ==
  /\ atMaster[c] \/ atAgent[c]
  /\ c \notin cut
  /\ Fault
  /\ cut' = cut \cup {c}
  /\ UNCHANGED <<nodeVars, drops, secretOf, phase, atMaster, atAgent, doomed,
                 removing, registered, mutex>>

\* The agent restarts, or gives a dial up.
AgentRestarts(c) ==
  /\ atAgent[c]
  /\ Fault
  /\ atAgent' = [atAgent EXCEPT ![c] = FALSE]
  /\ UNCHANGED <<nodeVars, drops, secretOf, phase, atMaster, cut, doomed,
                 removing, registered, mutex>>

\* The panel's process restarts: its registry, its handlers and its ends of
\* the connections are gone, and so is a Drop or a save in progress.
MasterRestarts ==
  /\ Fault
  /\ saving' = 0 /\ drops' = 0
  /\ atAgent' = [c \in Conn |-> atAgent[c] /\ phase[c] # "asked"]
  /\ phase' = [c \in Conn |-> "over"]
  /\ atMaster' = [c \in Conn |-> FALSE]
  /\ doomed' = {} /\ removing' = {} /\ registered' = 0 /\ mutex' = 0
  /\ UNCHANGED <<node, way, secret, pairings, agents, edits, secretOf, cut>>

----------------------------------------------------------------------------

Next ==
  \/ \E w \in {"pull", "push"} : Pair(w)
  \/ \E to \in {"enabled", "disabled"} : SetEnable(to) \/ SaveWrites(to)
  \/ Delete \/ SaveReads \/ Drop \/ RoundTrip
  \/ \E s \in agents : Dial(s)
  \/ \E c \in Conn :
       \/ Handler(c) \/ MasterCloses(c) \/ Remove(c) \/ AgentCloses(c)
       \/ PathBreaks(c) \/ AgentRestarts(c)
  \/ MasterRestarts

(***************************************************************************)
(* An agent dials for as long as it runs, a handler goes on, a mutex that  *)
(* starves a waiter hands over in order, and the pings of either end find  *)
(* a connection that is cut.                                               *)
(***************************************************************************)
Fairness ==
  /\ \A s \in 1..(MaxEdits + 1) : SF_vars(Dial(s))
  /\ \A c \in Conn : SF_vars(Handler(c))
  /\ SF_vars(Drop \/ \E c \in Conn : Remove(c))
  /\ WF_vars(\E c \in Conn : MasterCloses(c) \/ AgentCloses(c))

Spec == Init /\ [][Next]_vars /\ Fairness

----------------------------------------------------------------------------
(* Properties                                                              *)

\* The master's requests go to no agent that lost the node: a registered
\* connection whose secret the node no longer takes, or whose node was
\* disabled, deleted or paired for push, is about to be dropped by the change
\* that did it, however it overtook the registration.
OnlyTheWelcome ==
  registered # 0 /\ ~Valid(secretOf[registered]) => drops > 0

\* A node has one connection: what a handler let in is registered, or closed
\* or about to be, so replaced and refused connections do not pile up.
OneConnection ==
  \A c \in Conn :
    phase[c] = "over" /\ atMaster[c] /\ c # registered => c \in doomed

Connected ==
  /\ registered # 0
  /\ ~Broken(registered)
  /\ Valid(secretOf[registered])

\* Once nobody changes the node and no connection is lost any more, the agent
\* of a node that takes one is connected and stays so: neither a dead
\* connection that was registered late, nor the removal of an old one, nor
\* another agent keeps it out.
Reconnects ==
  <>[](Connected \/ ~\E s \in agents : Valid(s))

\* What the comment of refuseAgentSecret says: "only pairing changes" the
\* secret of an agent node, so it is the one that was made last.
SecretIsLastPairings == secret = pairings
=============================================================================
