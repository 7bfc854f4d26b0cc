-------------------------- MODULE AgentTunnels_proofs --------------------------
(***************************************************************************)
(* The safety properties of AgentTunnels, for every number of connections, *)
(* changes of the node and faults.  That only a welcome agent stays        *)
(* registered needs that no save overlaps a pairing                        *)
(* (SavesOverlapPairing = FALSE; AgentTunnelsSave.cfg shows why).          *)
(***************************************************************************)
EXTENDS AgentTunnels, TLAPS

\* Each change of the node drops at most once, a save in progress later.
DropsOwed == drops + (IF saving = 0 THEN 0 ELSE 1) <= edits

\* The mutex is held by the handler between welcome and the registration; a
\* connection is open on the master after its upgrade only, and removed after
\* it was closed.
Handlers ==
  /\ \A c \in Conn : phase[c] = "welcomed" <=> mutex = c
  /\ \A c \in Conn : phase[c] = "asked" => ~atMaster[c]
  /\ \A c \in removing : ~atMaster[c] /\ phase[c] # "asked"

\* A save that does not overlap a pairing stores the secret it found.
SavesKeepSecret == saving # 0 => saving = secret

\* What welcome found may be overtaken, but then by a change that will drop.
WelcomeHolds == mutex # 0 /\ ~Valid(secretOf[mutex]) => drops > 0

TunnelInv == Handlers /\ OneConnection

GuestInv == Handlers /\ SavesKeepSecret /\ WelcomeHolds /\ OnlyTheWelcome

----------------------------------------------------------------------------

\* Every step keeps the types and owes no more drops than there were edits.
LEMMA TypeStep ==
  ASSUME TypeOK, DropsOwed, [Next]_vars
  PROVE  (TypeOK /\ DropsOwed)'
<1> USE TunnelAssumption
<1> USE DEF TypeOK, DropsOwed, Conn, nodeVars, connVars
<1>1. ASSUME NEW w \in {"pull", "push"}, Pair(w) PROVE (TypeOK /\ DropsOwed)'
  BY <1>1 DEF Pair, Edit
<1>2. ASSUME NEW to \in {"enabled", "disabled"}, SetEnable(to)
     PROVE  (TypeOK /\ DropsOwed)'
  BY <1>2 DEF SetEnable, DropsIf, Edit
<1>3. ASSUME NEW to \in {"enabled", "disabled"}, SaveWrites(to)
     PROVE  (TypeOK /\ DropsOwed)'
  BY <1>3 DEF SaveWrites, DropsIf
<1>4. CASE Delete
  BY <1>4 DEF Delete, Edit
<1>5. CASE SaveReads
  BY <1>5 DEF SaveReads, Edit
<1>6. CASE Drop
  <2>1. doomed' \subseteq Conn
    BY <1>6 DEF Drop, Opened
  <2>2. drops' \in 0..MaxEdits /\ DropsOwed'
    BY <1>6 DEF Drop
  <2>q. QED
    BY <1>6, <2>1, <2>2 DEF Drop
<1>7. CASE RoundTrip
  BY <1>7 DEF RoundTrip, vars
<1>8. ASSUME NEW s \in agents, Dial(s) PROVE (TypeOK /\ DropsOwed)'
  BY <1>8 DEF Dial, Unused
<1>9. ASSUME NEW c \in Conn, Upgrade(c) PROVE (TypeOK /\ DropsOwed)'
  BY <1>9 DEF Upgrade, HandlerGoesTo
<1>10. ASSUME NEW c \in Conn, TurnAway(c) PROVE (TypeOK /\ DropsOwed)'
  BY <1>10 DEF TurnAway, HandlerGoesTo
<1>11. ASSUME NEW c \in Conn, AttachFails(c) PROVE (TypeOK /\ DropsOwed)'
  BY <1>11 DEF AttachFails, HandlerGoesTo, Opened
<1>12. ASSUME NEW c \in Conn, Welcome(c) PROVE (TypeOK /\ DropsOwed)'
  BY <1>12 DEF Welcome, HandlerGoesTo
<1>13. ASSUME NEW c \in Conn, Refuse(c) PROVE (TypeOK /\ DropsOwed)'
  BY <1>13 DEF Refuse, HandlerGoesTo, Opened
<1>14. ASSUME NEW c \in Conn, Register(c) PROVE (TypeOK /\ DropsOwed)'
  BY <1>14 DEF Register, HandlerGoesTo, Opened
<1>15. ASSUME NEW c \in Conn, MasterCloses(c) PROVE (TypeOK /\ DropsOwed)'
  BY <1>15 DEF MasterCloses
<1>16. ASSUME NEW c \in Conn, Remove(c) PROVE (TypeOK /\ DropsOwed)'
  BY <1>16 DEF Remove, Without
<1>17. ASSUME NEW c \in Conn, AgentCloses(c) PROVE (TypeOK /\ DropsOwed)'
  BY <1>17 DEF AgentCloses
<1>18. ASSUME NEW c \in Conn, PathBreaks(c) PROVE (TypeOK /\ DropsOwed)'
  BY <1>18 DEF PathBreaks, Fault
<1>19. ASSUME NEW c \in Conn, AgentRestarts(c) PROVE (TypeOK /\ DropsOwed)'
  BY <1>19 DEF AgentRestarts, Fault
<1>20. CASE MasterRestarts
  BY <1>20 DEF MasterRestarts, Fault
<1>u. CASE UNCHANGED vars
  BY <1>u DEF vars
<1>q. QED
  BY <1>1, <1>2, <1>3, <1>4, <1>5, <1>6, <1>7, <1>8, <1>9, <1>10,
     <1>11, <1>12, <1>13, <1>14, <1>15, <1>16, <1>17, <1>18, <1>19, <1>20, <1>u
  DEF Next, Handler

\* Every step keeps what handlers, connections and the registry owe each other.
LEMMA TunnelStep ==
  ASSUME TypeOK, TunnelInv, [Next]_vars
  PROVE  TunnelInv'
<1> USE DEF TypeOK, TunnelInv, Handlers, OneConnection, Conn, nodeVars,
            connVars
<1>1. ASSUME NEW w \in {"pull", "push"}, Pair(w) PROVE TunnelInv'
  BY <1>1 DEF Pair, Edit
<1>2. ASSUME NEW to \in {"enabled", "disabled"}, SetEnable(to) PROVE TunnelInv'
  BY <1>2 DEF SetEnable, DropsIf, Edit
<1>3. ASSUME NEW to \in {"enabled", "disabled"}, SaveWrites(to) PROVE TunnelInv'
  BY <1>3 DEF SaveWrites, DropsIf
<1>4. CASE Delete
  BY <1>4 DEF Delete, Edit
<1>5. CASE SaveReads
  BY <1>5 DEF SaveReads, Edit
<1>6. CASE Drop
  BY <1>6 DEF Drop, Opened
<1>7. CASE RoundTrip
  BY <1>7 DEF RoundTrip, vars
<1>8. ASSUME NEW s \in agents, Dial(s) PROVE TunnelInv'
  BY <1>8 DEF Dial, Unused
<1>9. ASSUME NEW c \in Conn, Upgrade(c) PROVE TunnelInv'
  BY <1>9 DEF Upgrade, HandlerGoesTo
<1>10. ASSUME NEW c \in Conn, TurnAway(c) PROVE TunnelInv'
  BY <1>10 DEF TurnAway, HandlerGoesTo
<1>11. ASSUME NEW c \in Conn, AttachFails(c) PROVE TunnelInv'
  BY <1>11 DEF AttachFails, HandlerGoesTo, Opened
<1>12. ASSUME NEW c \in Conn, Welcome(c) PROVE TunnelInv'
  BY <1>12 DEF Welcome, HandlerGoesTo
<1>13. ASSUME NEW c \in Conn, Refuse(c) PROVE TunnelInv'
  BY <1>13 DEF Refuse, HandlerGoesTo, Opened
<1>14. ASSUME NEW c \in Conn, Register(c) PROVE TunnelInv'
  BY <1>14 DEF Register, HandlerGoesTo, Opened
<1>15. ASSUME NEW c \in Conn, MasterCloses(c) PROVE TunnelInv'
  BY <1>15 DEF MasterCloses
<1>16. ASSUME NEW c \in Conn, Remove(c) PROVE TunnelInv'
  BY <1>16 DEF Remove, Without
<1>17. ASSUME NEW c \in Conn, AgentCloses(c) PROVE TunnelInv'
  BY <1>17 DEF AgentCloses
<1>18. ASSUME NEW c \in Conn, PathBreaks(c) PROVE TunnelInv'
  BY <1>18 DEF PathBreaks, Fault
<1>19. ASSUME NEW c \in Conn, AgentRestarts(c) PROVE TunnelInv'
  BY <1>19 DEF AgentRestarts, Fault
<1>20. CASE MasterRestarts
  BY <1>20 DEF MasterRestarts, Fault
<1>u. CASE UNCHANGED vars
  BY <1>u DEF vars
<1>q. QED
  BY <1>1, <1>2, <1>3, <1>4, <1>5, <1>6, <1>7, <1>8, <1>9, <1>10,
     <1>11, <1>12, <1>13, <1>14, <1>15, <1>16, <1>17, <1>18, <1>19, <1>20, <1>u
  DEF Next, Handler

\* Every step keeps the registered connection one of a welcome agent, or
\* leaves a drop to come.
LEMMA GuestStep ==
  ASSUME ~SavesOverlapPairing, TypeOK, GuestInv, [Next]_vars
  PROVE  (SavesKeepSecret /\ WelcomeHolds /\ OnlyTheWelcome)'
<1> USE DEF TypeOK, GuestInv, Handlers, SavesKeepSecret, WelcomeHolds,
            OnlyTheWelcome, Valid, Conn, nodeVars, connVars
<1>1. ASSUME NEW w \in {"pull", "push"}, Pair(w)
     PROVE  (SavesKeepSecret /\ WelcomeHolds /\ OnlyTheWelcome)'
  BY <1>1 DEF Pair, Edit
<1>2. ASSUME NEW to \in {"enabled", "disabled"}, SetEnable(to)
     PROVE  (SavesKeepSecret /\ WelcomeHolds /\ OnlyTheWelcome)'
  BY <1>2 DEF SetEnable, DropsIf, Edit
<1>3. ASSUME NEW to \in {"enabled", "disabled"}, SaveWrites(to)
     PROVE  (SavesKeepSecret /\ WelcomeHolds /\ OnlyTheWelcome)'
  BY <1>3 DEF SaveWrites, DropsIf
<1>4. CASE Delete
  BY <1>4 DEF Delete, Edit
<1>5. CASE SaveReads
  BY <1>5 DEF SaveReads, Edit
<1>6. CASE Drop
  BY <1>6 DEF Drop, Opened
<1>7. CASE RoundTrip
  BY <1>7 DEF RoundTrip, vars
<1>8. ASSUME NEW s \in agents, Dial(s)
     PROVE  (SavesKeepSecret /\ WelcomeHolds /\ OnlyTheWelcome)'
  BY <1>8 DEF Dial, Unused
<1>9. ASSUME NEW c \in Conn, Upgrade(c)
     PROVE  (SavesKeepSecret /\ WelcomeHolds /\ OnlyTheWelcome)'
  BY <1>9 DEF Upgrade, HandlerGoesTo
<1>10. ASSUME NEW c \in Conn, TurnAway(c)
     PROVE  (SavesKeepSecret /\ WelcomeHolds /\ OnlyTheWelcome)'
  BY <1>10 DEF TurnAway, HandlerGoesTo
<1>11. ASSUME NEW c \in Conn, AttachFails(c)
     PROVE  (SavesKeepSecret /\ WelcomeHolds /\ OnlyTheWelcome)'
  BY <1>11 DEF AttachFails, HandlerGoesTo, Opened
<1>12. ASSUME NEW c \in Conn, Welcome(c)
     PROVE  (SavesKeepSecret /\ WelcomeHolds /\ OnlyTheWelcome)'
  BY <1>12 DEF Welcome, HandlerGoesTo
<1>13. ASSUME NEW c \in Conn, Refuse(c)
     PROVE  (SavesKeepSecret /\ WelcomeHolds /\ OnlyTheWelcome)'
  BY <1>13 DEF Refuse, HandlerGoesTo, Opened
<1>14. ASSUME NEW c \in Conn, Register(c)
     PROVE  (SavesKeepSecret /\ WelcomeHolds /\ OnlyTheWelcome)'
  BY <1>14 DEF Register, HandlerGoesTo, Opened
<1>15. ASSUME NEW c \in Conn, MasterCloses(c)
     PROVE  (SavesKeepSecret /\ WelcomeHolds /\ OnlyTheWelcome)'
  BY <1>15 DEF MasterCloses
<1>16. ASSUME NEW c \in Conn, Remove(c)
     PROVE  (SavesKeepSecret /\ WelcomeHolds /\ OnlyTheWelcome)'
  BY <1>16 DEF Remove, Without
<1>17. ASSUME NEW c \in Conn, AgentCloses(c)
     PROVE  (SavesKeepSecret /\ WelcomeHolds /\ OnlyTheWelcome)'
  BY <1>17 DEF AgentCloses
<1>18. ASSUME NEW c \in Conn, PathBreaks(c)
     PROVE  (SavesKeepSecret /\ WelcomeHolds /\ OnlyTheWelcome)'
  BY <1>18 DEF PathBreaks, Fault
<1>19. ASSUME NEW c \in Conn, AgentRestarts(c)
     PROVE  (SavesKeepSecret /\ WelcomeHolds /\ OnlyTheWelcome)'
  BY <1>19 DEF AgentRestarts, Fault
<1>20. CASE MasterRestarts
  BY <1>20 DEF MasterRestarts, Fault
<1>u. CASE UNCHANGED vars
  BY <1>u DEF vars
<1>q. QED
  BY <1>1, <1>2, <1>3, <1>4, <1>5, <1>6, <1>7, <1>8, <1>9, <1>10,
     <1>11, <1>12, <1>13, <1>14, <1>15, <1>16, <1>17, <1>18, <1>19, <1>20, <1>u
  DEF Next, Handler

\* The types and what handlers and connections owe each other always hold.
THEOREM TunnelInvariant == Spec => [](TypeOK /\ DropsOwed /\ TunnelInv)
<1>1. Init => TypeOK /\ DropsOwed /\ TunnelInv
  BY TunnelAssumption
  DEF Init, TypeOK, DropsOwed, TunnelInv, Handlers, OneConnection, Conn
<1>2. TypeOK /\ DropsOwed /\ TunnelInv /\ [Next]_vars
        => (TypeOK /\ DropsOwed /\ TunnelInv)'
  BY TypeStep, TunnelStep
<1>q. QED
  BY <1>1, <1>2, PTL DEF Spec

\* The registry and the rest of the state keep their types, whatever the
\* order in which changes of the node, dials and lost connections come.
THEOREM TunnelTypes == Spec => []TypeOK
<1>q. QED
  BY TunnelInvariant, PTL

\* No connection that a handler let in is left open without being registered:
\* the replaced, the refused and the dropped ones are all closed.
THEOREM NoConnectionLeaks == Spec => []OneConnection
<1>1. TunnelInv => OneConnection
  BY DEF TunnelInv
<1>q. QED
  BY <1>1, TunnelInvariant, PTL

\* An agent that lost the node is never the registered one, unless the change
\* that did it is on its way to drop it: welcome's second look, made under the
\* mutex that Drop needs, leaves no gap.
THEOREM NoAgentOutstaysItsWelcome ==
  ASSUME ~SavesOverlapPairing
  PROVE  Spec => []OnlyTheWelcome
<1>1. Init => GuestInv
  BY TunnelAssumption
  DEF Init, GuestInv, Handlers, SavesKeepSecret, WelcomeHolds, OnlyTheWelcome,
      Conn
<1>2. TunnelInv => Handlers
  BY DEF TunnelInv
<1>3. TypeOK /\ GuestInv /\ [Next]_vars /\ Handlers' => GuestInv'
  BY GuestStep DEF GuestInv
<1>4. GuestInv => OnlyTheWelcome
  BY DEF GuestInv
<1>q. QED
  BY <1>1, <1>2, <1>3, <1>4, TunnelInvariant, PTL DEF Spec
=============================================================================
