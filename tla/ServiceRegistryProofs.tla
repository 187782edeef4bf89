----------------------- MODULE ServiceRegistryProofs -----------------------
(***************************************************************************)
(* RegistryInv needs no strengthening: that the onion map is the lock of a *)
(* name is inductive once the daemon's order of steps is part of it.       *)
(* Coherence rests on WiredInv, which says for every step of a call what   *)
(* it has advertised and wired so far, and on KeysInv, without which one   *)
(* call could close the onion another one listens on.  With early clients  *)
(* the daemon's two replays are part of the argument: OrderInv, SignalInv  *)
(* and IdentityInv say what a replay still has to do for a live service.   *)
(***************************************************************************)
EXTENDS ServiceRegistry, TLAPS

\* Nothing is registered at first.
LEMMA RegistryInit == Init => RegistryInv
<1> SUFFICES ASSUME Init PROVE RegistryInv
  OBVIOUS
<1> USE RegistryAssumption DEF Init
<1>1. viaDisc \in [Streams -> BOOLEAN] /\ viaHook \in [Streams -> BOOLEAN]
  OBVIOUS
<1>2. TypeOK
  BY <1>1 DEF TypeOK, Keys, Holding
<1>3. OnionIsLock /\ OwnListener /\ DaemonOrder
  BY DEF OnionIsLock, OwnListener, DaemonOrder, Holding, Recorded
<1> QED BY <1>2, <1>3 DEF RegistryInv

\* Every step of a call and of the daemon keeps the lock.
LEMMA RegistryStep == RegistryInv /\ [Next]_vars => RegistryInv'
<1> SUFFICES ASSUME RegistryInv, [Next]_vars PROVE RegistryInv'
  OBVIOUS
<1> USE RegistryAssumption DEF RegistryInv, callVars, wiringVars, engineVars, tableVars, Goto
<1>1. ASSUME NEW s \in Streams, CheckName(s) PROVE RegistryInv'
  <2>1. TypeOK'
    BY <1>1 DEF CheckName, TypeOK, Keys, Holding, Entry, OwnListener
  <2>2. OnionIsLock'
    BY <1>1 DEF CheckName, TypeOK, OnionIsLock, DaemonOrder, Clients, Holding, Recorded
  <2>3. OwnListener' /\ DaemonOrder'
    BY <1>1 DEF CheckName, TypeOK, OnionIsLock, OwnListener, DaemonOrder, Clients, Holding
  <2> QED BY <2>1, <2>2, <2>3
<1>2. ASSUME NEW s \in Streams, CheckOnion(s) PROVE RegistryInv'
  <2>1. TypeOK'
    BY <1>2 DEF CheckOnion, TypeOK, Keys, Holding, Entry, OwnListener
  <2>2. OnionIsLock'
    BY <1>2 DEF CheckOnion, TypeOK, OnionIsLock, DaemonOrder, Clients, Holding, Recorded
  <2>3. OwnListener' /\ DaemonOrder'
    BY <1>2 DEF CheckOnion, TypeOK, OnionIsLock, OwnListener, DaemonOrder, Clients, Holding
  <2> QED BY <2>1, <2>2, <2>3
<1>3. ASSUME NEW s \in Streams, LoadKey(s) PROVE RegistryInv'
  <2>1. TypeOK'
    BY <1>3 DEF LoadKey, TypeOK, Keys, Holding, Entry, OwnListener
  <2>2. OnionIsLock'
    BY <1>3 DEF LoadKey, TypeOK, OnionIsLock, DaemonOrder, Clients, Holding, Recorded
  <2>3. OwnListener' /\ DaemonOrder'
    BY <1>3, SMTT(30) DEF LoadKey, TypeOK, OnionIsLock, OwnListener, DaemonOrder, Clients, Holding
  <2> QED BY <2>1, <2>2, <2>3
<1>4. ASSUME NEW s \in Streams, Listen(s) PROVE RegistryInv'
  <2>1. TypeOK'
    BY <1>4 DEF Listen, TypeOK, Keys, Holding, Entry, OwnListener
  <2>2. OnionIsLock'
    BY <1>4 DEF Listen, TypeOK, OnionIsLock, DaemonOrder, Clients, Holding, Recorded
  <2>3. OwnListener' /\ DaemonOrder'
    BY <1>4 DEF Listen, TypeOK, OnionIsLock, OwnListener, DaemonOrder, Clients, Holding
  <2> QED BY <2>1, <2>2, <2>3
<1>5. ASSUME NEW s \in Streams, SaveKey(s) PROVE RegistryInv'
  <2>1. TypeOK'
    BY <1>5 DEF SaveKey, TypeOK, Keys, Holding, Entry, OwnListener
  <2>2. OnionIsLock'
    BY <1>5 DEF SaveKey, TypeOK, OnionIsLock, DaemonOrder, Clients, Holding, Recorded
  <2>3. OwnListener' /\ DaemonOrder'
    BY <1>5 DEF SaveKey, TypeOK, OnionIsLock, OwnListener, DaemonOrder, Clients, Holding
  <2> QED BY <2>1, <2>2, <2>3
<1>6. ASSUME NEW s \in Streams, InsertOnion(s) PROVE RegistryInv'
  <2>1. TypeOK'
    BY <1>6 DEF InsertOnion, TypeOK, Keys, Holding, Entry, OwnListener
  <2>2. OnionIsLock'
    BY <1>6 DEF InsertOnion, TypeOK, OnionIsLock, DaemonOrder, Clients, Holding, Recorded
  <2>3. OwnListener' /\ DaemonOrder'
    BY <1>6 DEF InsertOnion, TypeOK, OnionIsLock, OwnListener, DaemonOrder, Clients, Holding
  <2> QED BY <2>1, <2>2, <2>3
<1>7. ASSUME NEW s \in Streams, InsertName(s) PROVE RegistryInv'
  <2>1. TypeOK'
    BY <1>7, SMTT(30) DEF InsertName, TypeOK, Keys, Holding, Entry, OwnListener
  <2>2. OnionIsLock'
    BY <1>7 DEF InsertName, TypeOK, OnionIsLock, DaemonOrder, Clients, Holding, Recorded
  <2>3. OwnListener' /\ DaemonOrder'
    BY <1>7 DEF InsertName, TypeOK, OnionIsLock, OwnListener, DaemonOrder, Clients, Holding
  <2> QED BY <2>1, <2>2, <2>3
<1>8. ASSUME NEW s \in Streams, Advertise(s) PROVE RegistryInv'
  <2>1. TypeOK'
    <3>1. viaDisc' \in [Streams -> BOOLEAN] /\ viaHook' \in [Streams -> BOOLEAN]
      BY <1>8 DEF Advertise, TypeOK
    <3>2. localIds' \in [Names -> Keys \cup {None}]
      BY <1>8 DEF Advertise, TypeOK
    <3> QED
      BY <1>8, <3>1, <3>2 DEF Advertise, TypeOK, Holding
  <2>2. OnionIsLock'
    BY <1>8 DEF Advertise, TypeOK, OnionIsLock, DaemonOrder, Clients, Holding, Recorded
  <2>3. OwnListener' /\ DaemonOrder'
    BY <1>8 DEF Advertise, TypeOK, OnionIsLock, OwnListener, DaemonOrder, Clients, Holding
  <2> QED BY <2>1, <2>2, <2>3
<1>9. ASSUME NEW s \in Streams, ReadHook(s) PROVE RegistryInv'
  <2>1. TypeOK'
    BY <1>9 DEF ReadHook, TypeOK, Keys, Holding, Entry, OwnListener
  <2>2. OnionIsLock'
    BY <1>9 DEF ReadHook, TypeOK, OnionIsLock, DaemonOrder, Clients, Holding, Recorded
  <2>3. OwnListener' /\ DaemonOrder'
    BY <1>9 DEF ReadHook, TypeOK, OnionIsLock, OwnListener, DaemonOrder, Clients, Holding
  <2> QED BY <2>1, <2>2, <2>3
<1>10. ASSUME NEW s \in Streams, GetListener(s) PROVE RegistryInv'
  <2>1. TypeOK'
    BY <1>10 DEF GetListener, TypeOK, Keys, Holding, Entry, OwnListener
  <2>2. OnionIsLock'
    BY <1>10 DEF GetListener, TypeOK, OnionIsLock, DaemonOrder, Clients, Holding, Recorded
  <2>3. OwnListener' /\ DaemonOrder'
    BY <1>10 DEF GetListener, TypeOK, OnionIsLock, OwnListener, DaemonOrder, Clients, Holding
  <2> QED BY <2>1, <2>2, <2>3
<1>11. ASSUME NEW s \in Streams, AddService(s) PROVE RegistryInv'
  <2>1. TypeOK'
    BY <1>11 DEF AddService, TypeOK, Keys, Holding, Entry, OwnListener
  <2>2. OnionIsLock'
    BY <1>11 DEF AddService, TypeOK, OnionIsLock, DaemonOrder, Clients, Holding, Recorded
  <2>3. OwnListener' /\ DaemonOrder'
    BY <1>11 DEF AddService, TypeOK, OnionIsLock, OwnListener, DaemonOrder, Clients, Holding
  <2> QED BY <2>1, <2>2, <2>3
<1>12. ASSUME NEW s \in Streams, Rollback(s) PROVE RegistryInv'
  <2>1. TypeOK'
    BY <1>12 DEF Rollback, TypeOK, Keys, Holding, Entry, OwnListener
  <2>2. OnionIsLock'
    BY <1>12 DEF Rollback, TypeOK, OnionIsLock, DaemonOrder, Clients, Holding, Recorded
  <2>3. OwnListener' /\ DaemonOrder'
    BY <1>12 DEF Rollback, TypeOK, OnionIsLock, OwnListener, DaemonOrder, Clients, Holding
  <2> QED BY <2>1, <2>2, <2>3
<1>13. ASSUME NEW s \in Streams, Disconnect(s) PROVE RegistryInv'
  <2>1. TypeOK'
    BY <1>13 DEF Disconnect, TypeOK, Keys, Holding, Entry, OwnListener
  <2>2. OnionIsLock'
    BY <1>13 DEF Disconnect, TypeOK, OnionIsLock, DaemonOrder, Clients, Holding, Recorded
  <2>3. OwnListener' /\ DaemonOrder'
    BY <1>13 DEF Disconnect, TypeOK, OnionIsLock, OwnListener, DaemonOrder, Clients, Holding
  <2> QED BY <2>1, <2>2, <2>3
<1>14. ASSUME NEW s \in Streams, DeleteName(s) PROVE RegistryInv'
  <2>1. TypeOK'
    <3>1. viaDisc' \in [Streams -> BOOLEAN] /\ viaHook' \in [Streams -> BOOLEAN]
      BY <1>14 DEF DeleteName, TypeOK
    <3>2. byName' \in [Names -> Streams \cup {None}]
      BY <1>14 DEF DeleteName, TypeOK
    <3> QED
      BY <1>14, <3>1, <3>2 DEF DeleteName, TypeOK, Holding
  <2>2. OnionIsLock'
    BY <1>14 DEF DeleteName, TypeOK, OnionIsLock, DaemonOrder, Clients, Holding, Recorded
  <2>3. OwnListener' /\ DaemonOrder'
    BY <1>14 DEF DeleteName, TypeOK, OnionIsLock, OwnListener, DaemonOrder, Clients, Holding
  <2> QED BY <2>1, <2>2, <2>3
<1>15. ASSUME NEW s \in Streams, RemoveService(s) PROVE RegistryInv'
  <2>1. TypeOK'
    BY <1>15 DEF RemoveService, TypeOK, Keys, Holding, Entry, OwnListener
  <2>2. OnionIsLock'
    BY <1>15 DEF RemoveService, TypeOK, OnionIsLock, DaemonOrder, Clients, Holding, Recorded
  <2>3. OwnListener' /\ DaemonOrder'
    BY <1>15 DEF RemoveService, TypeOK, OnionIsLock, OwnListener, DaemonOrder, Clients, Holding
  <2> QED BY <2>1, <2>2, <2>3
<1>16. ASSUME NEW s \in Streams, Withdraw(s) PROVE RegistryInv'
  <2>1. TypeOK'
    BY <1>16 DEF Withdraw, TypeOK, Keys, Holding, Entry, OwnListener
  <2>2. OnionIsLock'
    BY <1>16 DEF Withdraw, TypeOK, OnionIsLock, DaemonOrder, Clients, Holding, Recorded
  <2>3. OwnListener' /\ DaemonOrder'
    BY <1>16 DEF Withdraw, TypeOK, OnionIsLock, OwnListener, DaemonOrder, Clients, Holding
  <2> QED BY <2>1, <2>2, <2>3
<1>17. ASSUME NEW s \in Streams, RemoveOnion(s) PROVE RegistryInv'
  <2>1. TypeOK'
    BY <1>17 DEF RemoveOnion, TypeOK, Keys, Holding, Entry, OwnListener
  <2>2. OnionIsLock'
    BY <1>17 DEF RemoveOnion, TypeOK, OnionIsLock, DaemonOrder, Clients, Holding, Recorded
  <2>3. OwnListener' /\ DaemonOrder'
    BY <1>17 DEF RemoveOnion, TypeOK, OnionIsLock, OwnListener, DaemonOrder, Clients, Holding
  <2> QED BY <2>1, <2>2, <2>3
<1>18. ASSUME NEW s \in Streams, CloseOnion(s) PROVE RegistryInv'
  <2>1. TypeOK'
    BY <1>18 DEF CloseOnion, TypeOK, Keys, Holding, Entry, OwnListener
  <2>2. OnionIsLock'
    BY <1>18 DEF CloseOnion, TypeOK, OnionIsLock, DaemonOrder, Clients, Holding, Recorded
  <2>3. OwnListener' /\ DaemonOrder'
    BY <1>18 DEF CloseOnion, TypeOK, OnionIsLock, OwnListener, DaemonOrder, Clients, Holding
  <2> QED BY <2>1, <2>2, <2>3
<1>19. ASSUME SetDiscovery PROVE RegistryInv'
  <2>1. TypeOK'
    BY <1>19 DEF SetDiscovery, TypeOK, Keys, Holding, Entry, Listed, Node
  <2>2. OnionIsLock' /\ OwnListener' /\ DaemonOrder'
    BY <1>19, <2>1 DEF SetDiscovery, TypeOK, OnionIsLock, OwnListener, DaemonOrder, Clients, Holding, Recorded
  <2> QED BY <2>1, <2>2
<1>20. ASSUME NEW s \in Streams, ReplayIdentity(s) PROVE RegistryInv'
  <2>1. TypeOK'
    BY <1>20 DEF ReplayIdentity, TypeOK, Keys, Holding, Entry, Listed, Node
  <2>2. OnionIsLock' /\ OwnListener' /\ DaemonOrder'
    BY <1>20, <2>1 DEF ReplayIdentity, TypeOK, OnionIsLock, OwnListener, DaemonOrder, Clients, Holding, Recorded
  <2> QED BY <2>1, <2>2
<1>21. ASSUME StartSignaling PROVE RegistryInv'
  <2>1. TypeOK'
    BY <1>21 DEF StartSignaling, TypeOK, Keys, Holding, Entry, Listed, Node
  <2>2. OnionIsLock' /\ OwnListener' /\ DaemonOrder'
    BY <1>21, <2>1 DEF StartSignaling, TypeOK, OnionIsLock, OwnListener, DaemonOrder, Clients, Holding, Recorded
  <2> QED BY <2>1, <2>2
<1>22. ASSUME SetOnRegister PROVE RegistryInv'
  <2>1. TypeOK'
    BY <1>22 DEF SetOnRegister, TypeOK, Keys, Holding, Entry, Listed, Node
  <2>2. OnionIsLock' /\ OwnListener' /\ DaemonOrder'
    BY <1>22, <2>1 DEF SetOnRegister, TypeOK, OnionIsLock, OwnListener, DaemonOrder, Clients, Holding, Recorded
  <2> QED BY <2>1, <2>2
<1>23. ASSUME NEW s \in Streams, ReplayListener(s) PROVE RegistryInv'
  <2>1. TypeOK'
    BY <1>23 DEF ReplayListener, TypeOK, Keys, Holding, Entry, Listed, Node
  <2>2. OnionIsLock' /\ OwnListener' /\ DaemonOrder'
    BY <1>23, <2>1 DEF ReplayListener, TypeOK, OnionIsLock, OwnListener, DaemonOrder, Clients, Holding, Recorded
  <2> QED BY <2>1, <2>2
<1>24. ASSUME ReplayService PROVE RegistryInv'
  <2>1. TypeOK'
    BY <1>24 DEF ReplayService, TypeOK, Keys, Holding, Entry, Listed, Node
  <2>2. OnionIsLock' /\ OwnListener' /\ DaemonOrder'
    BY <1>24, <2>1 DEF ReplayService, TypeOK, OnionIsLock, OwnListener, DaemonOrder, Clients, Holding, Recorded
  <2> QED BY <2>1, <2>2
<1>25. ASSUME SetOnUnregister PROVE RegistryInv'
  <2>1. TypeOK'
    BY <1>25 DEF SetOnUnregister, TypeOK, Keys, Holding, Entry, Listed, Node
  <2>2. OnionIsLock' /\ OwnListener' /\ DaemonOrder'
    BY <1>25, <2>1 DEF SetOnUnregister, TypeOK, OnionIsLock, OwnListener, DaemonOrder, Clients, Holding, Recorded
  <2> QED BY <2>1, <2>2
<1>26. ASSUME StopSignaling PROVE RegistryInv'
  <2>1. TypeOK'
    BY <1>26 DEF StopSignaling, TypeOK, Keys, Holding, Entry, Listed, Node
  <2>2. OnionIsLock' /\ OwnListener' /\ DaemonOrder'
    BY <1>26, <2>1 DEF StopSignaling, TypeOK, OnionIsLock, OwnListener, DaemonOrder, Clients, Holding, Recorded
  <2> QED BY <2>1, <2>2
<1>27. ASSUME GracefulStop PROVE RegistryInv'
  <2>1. TypeOK'
    BY <1>27 DEF GracefulStop, TypeOK, Keys, Holding, Entry, Listed, Node
  <2>2. OnionIsLock' /\ OwnListener' /\ DaemonOrder'
    BY <1>27, <2>1 DEF GracefulStop, TypeOK, OnionIsLock, OwnListener, DaemonOrder, Clients, Holding, Recorded
  <2> QED BY <2>1, <2>2
<1>28. ASSUME StopTor PROVE RegistryInv'
  <2>1. TypeOK'
    BY <1>28 DEF StopTor, TypeOK, Keys, Holding, Entry, Listed, Node
  <2>2. OnionIsLock' /\ OwnListener' /\ DaemonOrder'
    BY <1>28, <2>1 DEF StopTor, TypeOK, OnionIsLock, OwnListener, DaemonOrder, Clients, Holding, Recorded
  <2> QED BY <2>1, <2>2
<1>29. CASE UNCHANGED vars
  BY <1>29 DEF vars, TypeOK, OnionIsLock, OwnListener, DaemonOrder, Clients
<1> QED
  BY <1>1, <1>2, <1>3, <1>4, <1>5, <1>6, <1>7, <1>8, <1>9, <1>10, <1>11, <1>12, <1>13, <1>14, <1>15, <1>16, <1>17, <1>18, <1>19, <1>20, <1>21, <1>22, <1>23, <1>24, <1>25, <1>26, <1>27, <1>28, <1>29 DEF Next, Register, Unregister, Wire, Stop

\* The daemon's order of wiring, when no client comes before the end of it.
LEMMA StartupStep ==
  ASSUME Early = {}, RegistryInv, RegistryInv', StartupInv, [Next]_vars
  PROVE  StartupInv'
<1> USE RegistryAssumption
    DEF callVars, wiringVars, engineVars, tableVars, Goto,
        RegistryInv, TypeOK, OnionIsLock, DaemonOrder, StartupInv,
        Clients, Node, Up, Listed, Holding, Recorded
<1>1. ASSUME NEW s \in Streams, CheckName(s) PROVE StartupInv'
  BY <1>1 DEF CheckName
<1>2. ASSUME NEW s \in Streams, CheckOnion(s) PROVE StartupInv'
  <2>1. CASE s = Daemon
    BY <1>2, <2>1 DEF CheckOnion
  <2>2. CASE s \in Clients
    BY <1>2, <2>2 DEF CheckOnion
  <2> QED BY <2>1, <2>2 DEF Clients
<1>3. ASSUME NEW s \in Streams, LoadKey(s) PROVE StartupInv'
  <2>1. CASE s = Daemon
    BY <1>3, <2>1 DEF LoadKey
  <2>2. CASE s \in Clients
    BY <1>3, <2>2 DEF LoadKey
  <2> QED BY <2>1, <2>2 DEF Clients
<1>4. ASSUME NEW s \in Streams, Listen(s) PROVE StartupInv'
  <2>1. CASE s = Daemon
    BY <1>4, <2>1 DEF Listen
  <2>2. CASE s \in Clients
    BY <1>4, <2>2 DEF Listen
  <2> QED BY <2>1, <2>2 DEF Clients
<1>5. ASSUME NEW s \in Streams, SaveKey(s) PROVE StartupInv'
  <2>1. CASE s = Daemon
    BY <1>5, <2>1 DEF SaveKey
  <2>2. CASE s \in Clients
    BY <1>5, <2>2 DEF SaveKey
  <2> QED BY <2>1, <2>2 DEF Clients
<1>6. ASSUME NEW s \in Streams, InsertOnion(s) PROVE StartupInv'
  <2>1. CASE s = Daemon
    BY <1>6, <2>1 DEF InsertOnion
  <2>2. CASE s \in Clients
    BY <1>6, <2>2 DEF InsertOnion
  <2> QED BY <2>1, <2>2 DEF Clients
<1>7. ASSUME NEW s \in Streams, InsertName(s) PROVE StartupInv'
  <2>1. CASE s = Daemon
    BY <1>7, <2>1 DEF InsertName
  <2>2. CASE s \in Clients
    BY <1>7, <2>2 DEF InsertName
  <2> QED BY <2>1, <2>2 DEF Clients
<1>8. ASSUME NEW s \in Streams, Advertise(s) PROVE StartupInv'
  BY <1>8 DEF Advertise
<1>9. ASSUME NEW s \in Streams, ReadHook(s) PROVE StartupInv'
  BY <1>9 DEF ReadHook
<1>10. ASSUME NEW s \in Streams, GetListener(s) PROVE StartupInv'
  BY <1>10 DEF GetListener
<1>11. ASSUME NEW s \in Streams, AddService(s) PROVE StartupInv'
  BY <1>11 DEF AddService
<1>12. ASSUME NEW s \in Streams, Rollback(s) PROVE StartupInv'
  BY <1>12 DEF Rollback
<1>13. ASSUME NEW s \in Streams, Disconnect(s) PROVE StartupInv'
  BY <1>13 DEF Disconnect
<1>14. ASSUME NEW s \in Streams, DeleteName(s) PROVE StartupInv'
  BY <1>14 DEF DeleteName
<1>15. ASSUME NEW s \in Streams, RemoveService(s) PROVE StartupInv'
  BY <1>15 DEF RemoveService
<1>16. ASSUME NEW s \in Streams, Withdraw(s) PROVE StartupInv'
  BY <1>16 DEF Withdraw
<1>17. ASSUME NEW s \in Streams, RemoveOnion(s) PROVE StartupInv'
  BY <1>17 DEF RemoveOnion
<1>18. ASSUME NEW s \in Streams, CloseOnion(s) PROVE StartupInv'
  BY <1>18 DEF CloseOnion
<1>19. ASSUME SetDiscovery PROVE StartupInv'
  BY <1>19 DEF SetDiscovery
<1>20. ASSUME NEW s \in Streams, ReplayIdentity(s) PROVE StartupInv'
  BY <1>20 DEF ReplayIdentity
<1>21. ASSUME StartSignaling PROVE StartupInv'
  BY <1>21 DEF StartSignaling
<1>22. ASSUME SetOnRegister PROVE StartupInv'
  BY <1>22 DEF SetOnRegister
<1>23. ASSUME NEW s \in Streams, ReplayListener(s) PROVE StartupInv'
  BY <1>23 DEF ReplayListener
<1>24. ASSUME ReplayService PROVE StartupInv'
  BY <1>24 DEF ReplayService
<1>25. ASSUME SetOnUnregister PROVE StartupInv'
  BY <1>25 DEF SetOnUnregister
<1>26. ASSUME StopSignaling PROVE StartupInv'
  BY <1>26 DEF StopSignaling
<1>27. ASSUME GracefulStop PROVE StartupInv'
  BY <1>27 DEF GracefulStop
<1>28. ASSUME StopTor PROVE StartupInv'
  BY <1>28 DEF StopTor
<1>29. CASE UNCHANGED vars
  BY <1>29 DEF vars
<1> QED
  BY <1>1, <1>2, <1>3, <1>4, <1>5, <1>6, <1>7, <1>8, <1>9, <1>10, <1>11, <1>12, <1>13, <1>14, <1>15, <1>16, <1>17, <1>18, <1>19, <1>20, <1>21, <1>22, <1>23, <1>24, <1>25, <1>26, <1>27, <1>28, <1>29
  DEF Next, Register, Unregister, Wire, Stop

\* Listen publishes a key only if nobody else's call has it.
LEMMA KeysStep ==
  ASSUME RegistryInv, RegistryInv', KeysInv, [Next]_vars
  PROVE  KeysInv'
<1> USE RegistryAssumption
    DEF callVars, wiringVars, engineVars, tableVars, Goto,
        RegistryInv, TypeOK, OnionIsLock, OwnListener, DaemonOrder,
        KeysInv, Serving, Clients, Holding
<1>1. ASSUME NEW s \in Streams, CheckName(s) PROVE KeysInv'
  BY <1>1 DEF CheckName
<1>2. ASSUME NEW s \in Streams, CheckOnion(s) PROVE KeysInv'
  BY <1>2 DEF CheckOnion
<1>3. ASSUME NEW s \in Streams, LoadKey(s) PROVE KeysInv'
  BY <1>3 DEF LoadKey
<1>4. ASSUME NEW s \in Streams, Listen(s) PROVE KeysInv'
  BY <1>4 DEF Listen
<1>5. ASSUME NEW s \in Streams, SaveKey(s) PROVE KeysInv'
  BY <1>5 DEF SaveKey
<1>6. ASSUME NEW s \in Streams, InsertOnion(s) PROVE KeysInv'
  BY <1>6 DEF InsertOnion
<1>7. ASSUME NEW s \in Streams, InsertName(s) PROVE KeysInv'
  BY <1>7 DEF InsertName
<1>8. ASSUME NEW s \in Streams, Advertise(s) PROVE KeysInv'
  BY <1>8 DEF Advertise
<1>9. ASSUME NEW s \in Streams, ReadHook(s) PROVE KeysInv'
  BY <1>9 DEF ReadHook
<1>10. ASSUME NEW s \in Streams, GetListener(s) PROVE KeysInv'
  BY <1>10 DEF GetListener
<1>11. ASSUME NEW s \in Streams, AddService(s) PROVE KeysInv'
  BY <1>11 DEF AddService
<1>12. ASSUME NEW s \in Streams, Rollback(s) PROVE KeysInv'
  BY <1>12 DEF Rollback
<1>13. ASSUME NEW s \in Streams, Disconnect(s) PROVE KeysInv'
  BY <1>13 DEF Disconnect
<1>14. ASSUME NEW s \in Streams, DeleteName(s) PROVE KeysInv'
  BY <1>14 DEF DeleteName
<1>15. ASSUME NEW s \in Streams, RemoveService(s) PROVE KeysInv'
  BY <1>15 DEF RemoveService
<1>16. ASSUME NEW s \in Streams, Withdraw(s) PROVE KeysInv'
  BY <1>16 DEF Withdraw
<1>17. ASSUME NEW s \in Streams, RemoveOnion(s) PROVE KeysInv'
  BY <1>17 DEF RemoveOnion
<1>18. ASSUME NEW s \in Streams, CloseOnion(s) PROVE KeysInv'
  BY <1>18 DEF CloseOnion
<1>19. ASSUME SetDiscovery PROVE KeysInv'
  BY <1>19 DEF SetDiscovery
<1>20. ASSUME NEW s \in Streams, ReplayIdentity(s) PROVE KeysInv'
  BY <1>20 DEF ReplayIdentity
<1>21. ASSUME StartSignaling PROVE KeysInv'
  BY <1>21 DEF StartSignaling
<1>22. ASSUME SetOnRegister PROVE KeysInv'
  BY <1>22 DEF SetOnRegister
<1>23. ASSUME NEW s \in Streams, ReplayListener(s) PROVE KeysInv'
  BY <1>23 DEF ReplayListener
<1>24. ASSUME ReplayService PROVE KeysInv'
  BY <1>24 DEF ReplayService
<1>25. ASSUME SetOnUnregister PROVE KeysInv'
  BY <1>25 DEF SetOnUnregister
<1>26. ASSUME StopSignaling PROVE KeysInv'
  BY <1>26 DEF StopSignaling
<1>27. ASSUME GracefulStop PROVE KeysInv'
  BY <1>27 DEF GracefulStop
<1>28. ASSUME StopTor PROVE KeysInv'
  BY <1>28 DEF StopTor
<1>29. CASE UNCHANGED vars
  BY <1>29 DEF vars
<1> QED
  BY <1>1, <1>2, <1>3, <1>4, <1>5, <1>6, <1>7, <1>8, <1>9, <1>10, <1>11, <1>12, <1>13, <1>14, <1>15, <1>16, <1>17, <1>18, <1>19, <1>20, <1>21, <1>22, <1>23, <1>24, <1>25, <1>26, <1>27, <1>28, <1>29
  DEF Next, Register, Unregister, Wire, Stop

\* What a client's call has advertised and wired it also takes back.
LEMMA WiringStep ==
  ASSUME RegistryInv, RegistryInv', StartupInv, StartupInv', WiringInv, [Next]_vars
  PROVE  WiringInv'
<1> USE RegistryAssumption
    DEF callVars, wiringVars, engineVars, tableVars, Goto,
        RegistryInv, TypeOK, OnionIsLock, OwnListener, DaemonOrder, StartupInv,
        WiringInv, ClientWired, NothingLeft, Advertised, Served,
        Clients, Node, Up, Holding, Recorded
<1>1. ASSUME NEW s \in Streams, CheckName(s) PROVE WiringInv'
  BY <1>1 DEF CheckName
<1>2. ASSUME NEW s \in Streams, CheckOnion(s) PROVE WiringInv'
  BY <1>2 DEF CheckOnion
<1>3. ASSUME NEW s \in Streams, LoadKey(s) PROVE WiringInv'
  BY <1>3 DEF LoadKey
<1>4. ASSUME NEW s \in Streams, Listen(s) PROVE WiringInv'
  BY <1>4 DEF Listen
<1>5. ASSUME NEW s \in Streams, SaveKey(s) PROVE WiringInv'
  BY <1>5 DEF SaveKey
<1>6. ASSUME NEW s \in Streams, InsertOnion(s) PROVE WiringInv'
  BY <1>6 DEF InsertOnion
<1>7. ASSUME NEW s \in Streams, InsertName(s) PROVE WiringInv'
  BY <1>7 DEF InsertName
<1>8. ASSUME NEW s \in Streams, Advertise(s) PROVE WiringInv'
  <2>1. ASSUME NEW t \in Clients PROVE ClientWired(t)'
    BY <1>8 DEF Advertise
  <2>2. ASSUME NEW m \in Names \ {Node} PROVE NothingLeft(m)'
    BY <1>8 DEF Advertise
  <2> QED BY <2>1, <2>2 DEF WiringInv
<1>9. ASSUME NEW s \in Streams, ReadHook(s) PROVE WiringInv'
  BY <1>9 DEF ReadHook
<1>10. ASSUME NEW s \in Streams, GetListener(s) PROVE WiringInv'
  BY <1>10 DEF GetListener
<1>11. ASSUME NEW s \in Streams, AddService(s) PROVE WiringInv'
  <2>1. ASSUME NEW t \in Clients PROVE ClientWired(t)'
    BY <1>11 DEF AddService
  <2>2. ASSUME NEW m \in Names \ {Node} PROVE NothingLeft(m)'
    <3>1. s \in Clients /\ viaDisc[s]
      <4>1. s \in Clients /\ pc[s] = "serve"
        BY <1>11 DEF AddService
      <4>2. ClientWired(s)
        BY <4>1
      <4> QED BY <4>1, <4>2, Zenon
    <3>2. signal'[m] # None => \E t \in Clients : NameOf[t] = m /\ Served(t)'
      <4>1. CASE m = NameOf[s] /\ CanAddService(m)
        BY <1>11, <3>1, <4>1 DEF AddService
      <4>2. CASE ~(m = NameOf[s] /\ CanAddService(m))
        BY <1>11, <4>2 DEF AddService
      <4> QED BY <4>1, <4>2
    <3>3. localIds'[m] # None => \E t \in Clients : NameOf[t] = m /\ Advertised(t)'
      BY <1>11, <3>1 DEF AddService
    <3> QED BY <3>2, <3>3
  <2> QED BY <2>1, <2>2 DEF WiringInv
<1>12. ASSUME NEW s \in Streams, Rollback(s) PROVE WiringInv'
  BY <1>12 DEF Rollback
<1>13. ASSUME NEW s \in Streams, Disconnect(s) PROVE WiringInv'
  BY <1>13 DEF Disconnect
<1>14. ASSUME NEW s \in Streams, DeleteName(s) PROVE WiringInv'
  BY <1>14 DEF DeleteName
<1>15. ASSUME NEW s \in Streams, RemoveService(s) PROVE WiringInv'
  <2>1. ASSUME NEW t \in Clients PROVE ClientWired(t)'
    BY <1>15 DEF RemoveService
  <2>2. ASSUME NEW m \in Names \ {Node} PROVE NothingLeft(m)'
    <3>1. s \in Clients /\ viaHook[s] /\ viaDisc[s] /\ NameOf[s] # Node
      <4>1. s \in Clients /\ pc[s] = "unserve" /\ NameOf[s] # Node
        BY <1>15 DEF RemoveService
      <4>2. ClientWired(s)
        BY <4>1
      <4> QED BY <4>1, <4>2, Zenon
    <3>2. signal'[m] # None => \E t \in Clients : NameOf[t] = m /\ Served(t)'
      <4>1. CASE m = NameOf[s]
        BY <1>15, <3>1, <4>1 DEF RemoveService
      <4>2. CASE m # NameOf[s]
        BY <1>15, <4>2 DEF RemoveService
      <4> QED BY <4>1, <4>2
    <3>3. localIds'[m] # None => \E t \in Clients : NameOf[t] = m /\ Advertised(t)'
      BY <1>15, <3>1 DEF RemoveService
    <3> QED BY <3>2, <3>3
  <2> QED BY <2>1, <2>2 DEF WiringInv
<1>16. ASSUME NEW s \in Streams, Withdraw(s) PROVE WiringInv'
  BY <1>16 DEF Withdraw
<1>17. ASSUME NEW s \in Streams, RemoveOnion(s) PROVE WiringInv'
  <2>1. ASSUME NEW t \in Clients PROVE ClientWired(t)'
    BY <1>17 DEF RemoveOnion
  <2>2. ASSUME NEW m \in Names \ {Node} PROVE NothingLeft(m)'
    BY <1>17 DEF RemoveOnion
  <2> QED BY <2>1, <2>2 DEF WiringInv
<1>18. ASSUME NEW s \in Streams, CloseOnion(s) PROVE WiringInv'
  BY <1>18 DEF CloseOnion
<1>19. ASSUME SetDiscovery PROVE WiringInv'
  BY <1>19 DEF SetDiscovery
<1>20. ASSUME NEW s \in Streams, ReplayIdentity(s) PROVE WiringInv'
  BY <1>20 DEF ReplayIdentity
<1>21. ASSUME StartSignaling PROVE WiringInv'
  BY <1>21 DEF StartSignaling
<1>22. ASSUME SetOnRegister PROVE WiringInv'
  BY <1>22 DEF SetOnRegister
<1>23. ASSUME NEW s \in Streams, ReplayListener(s) PROVE WiringInv'
  BY <1>23 DEF ReplayListener
<1>24. ASSUME ReplayService PROVE WiringInv'
  BY <1>24 DEF ReplayService
<1>25. ASSUME SetOnUnregister PROVE WiringInv'
  BY <1>25 DEF SetOnUnregister
<1>26. ASSUME StopSignaling PROVE WiringInv'
  <2>1. stopped' /\ UNCHANGED <<callVars, localIds>>
    BY <1>26 DEF StopSignaling
  <2>2. ASSUME NEW t \in Clients PROVE ClientWired(t)'
    <3>1. ClientWired(t)
      OBVIOUS
    <3> QED BY <2>1, <3>1, Zenon
  <2>3. ASSUME NEW m \in Names \ {Node} PROVE NothingLeft(m)'
    BY <1>26, <2>1 DEF StopSignaling
  <2> QED BY <2>2, <2>3 DEF WiringInv
<1>27. ASSUME GracefulStop PROVE WiringInv'
  BY <1>27 DEF GracefulStop
<1>28. ASSUME StopTor PROVE WiringInv'
  BY <1>28 DEF StopTor
<1>29. CASE UNCHANGED vars
  BY <1>29 DEF vars
<1> QED
  BY <1>1, <1>2, <1>3, <1>4, <1>5, <1>6, <1>7, <1>8, <1>9, <1>10, <1>11, <1>12, <1>13, <1>14, <1>15, <1>16, <1>17, <1>18, <1>19, <1>20, <1>21, <1>22, <1>23, <1>24, <1>25, <1>26, <1>27, <1>28, <1>29
  DEF Next, Register, Unregister, Wire, Stop

\* A key is generated only for a name that has none.
LEMMA KeyedStep ==
  ASSUME RegistryInv, KeyedInv, [Next]_vars
  PROVE  KeyedInv'
<1> USE RegistryAssumption
    DEF callVars, wiringVars, engineVars, tableVars, Goto,
        RegistryInv, TypeOK, KeyedInv, Serving, Holding
<1>1. ASSUME NEW s \in Streams, CheckName(s) PROVE KeyedInv'
  BY <1>1 DEF CheckName
<1>2. ASSUME NEW s \in Streams, CheckOnion(s) PROVE KeyedInv'
  BY <1>2 DEF CheckOnion
<1>3. ASSUME NEW s \in Streams, LoadKey(s) PROVE KeyedInv'
  BY <1>3 DEF LoadKey
<1>4. ASSUME NEW s \in Streams, Listen(s) PROVE KeyedInv'
  BY <1>4 DEF Listen
<1>5. ASSUME NEW s \in Streams, SaveKey(s) PROVE KeyedInv'
  BY <1>5 DEF SaveKey
<1>6. ASSUME NEW s \in Streams, InsertOnion(s) PROVE KeyedInv'
  BY <1>6 DEF InsertOnion
<1>7. ASSUME NEW s \in Streams, InsertName(s) PROVE KeyedInv'
  BY <1>7 DEF InsertName
<1>8. ASSUME NEW s \in Streams, Advertise(s) PROVE KeyedInv'
  BY <1>8 DEF Advertise
<1>9. ASSUME NEW s \in Streams, ReadHook(s) PROVE KeyedInv'
  BY <1>9 DEF ReadHook
<1>10. ASSUME NEW s \in Streams, GetListener(s) PROVE KeyedInv'
  BY <1>10 DEF GetListener
<1>11. ASSUME NEW s \in Streams, AddService(s) PROVE KeyedInv'
  BY <1>11 DEF AddService
<1>12. ASSUME NEW s \in Streams, Rollback(s) PROVE KeyedInv'
  BY <1>12 DEF Rollback
<1>13. ASSUME NEW s \in Streams, Disconnect(s) PROVE KeyedInv'
  BY <1>13 DEF Disconnect
<1>14. ASSUME NEW s \in Streams, DeleteName(s) PROVE KeyedInv'
  BY <1>14 DEF DeleteName
<1>15. ASSUME NEW s \in Streams, RemoveService(s) PROVE KeyedInv'
  BY <1>15 DEF RemoveService
<1>16. ASSUME NEW s \in Streams, Withdraw(s) PROVE KeyedInv'
  BY <1>16 DEF Withdraw
<1>17. ASSUME NEW s \in Streams, RemoveOnion(s) PROVE KeyedInv'
  BY <1>17 DEF RemoveOnion
<1>18. ASSUME NEW s \in Streams, CloseOnion(s) PROVE KeyedInv'
  BY <1>18 DEF CloseOnion
<1>19. CASE Wire \/ Stop
  BY <1>19 DEF Wire, Stop, SetDiscovery, ReplayIdentity, StartSignaling, SetOnRegister,
              ReplayListener, ReplayService, SetOnUnregister, StopSignaling,
              GracefulStop, StopTor
<1>20. CASE UNCHANGED vars
  BY <1>20 DEF vars
<1> QED
  BY <1>1, <1>2, <1>3, <1>4, <1>5, <1>6, <1>7, <1>8, <1>9, <1>10, <1>11, <1>12, <1>13, <1>14, <1>15, <1>16, <1>17, <1>18, <1>19, <1>20
  DEF Next, Register, Unregister

----------------------------------------------------------------------------
(* Services registered while the daemon is still wiring.                   *)

Own(s) == [svc |-> s, lis |-> s]
Begun == Holding \cup {"close", "ended"}

\* What is installed when, and what is still to be replayed: one service per name, and
\* after SetDiscovery never the node service.
OrderInv ==
  /\ disc <=> dpc # "register"
  /\ onRegister <=> dpc \notin {"register", "readvertise", "signaling"}
  /\ stopped => dpc \in {"stopping", "draining", "down"}
  /\ dpc \notin {"readvertise", "rehook"} => replay = {}
  /\ dpc # "rehook" => current = None
  /\ \A s \in replay, t \in replay : NameOf[s] = NameOf[t] => s = t
  /\ \A s \in replay : current # None => NameOf[s] # NameOf[current.svc]
  /\ dpc = "rehook" => \A s \in replay : NameOf[s] # Node
  /\ \A s \in replay : pc[s] \in Begun
  /\ current # None => /\ NameOf[current.svc] # Node /\ pc[current.svc] \in Begun
                       /\ pc[current.svc] \in Holding => current = Own(current.svc)
  /\ \A s \in Streams : pc[s] \in {"listener", "serve"} => NameOf[s] # Node /\ onRegister

\* Before the hook is installed nobody but the node is served; afterwards a live service is
\* served, or will be by the replay that has it on its list or in its hand.
SignalInv ==
  /\ ~onRegister => \A n \in Names : n # Node => signal[n] = None
  /\ dpc \notin {"register", "readvertise"} /\ ~stopped => signal[Node] = Own(Daemon)
  /\ onRegister /\ ~stopped =>
       \A s \in Streams : pc[s] = "live" /\ NameOf[s] # Node =>
         /\ s \in replay \/ current = Own(s) \/ signal[NameOf[s]] = Own(s)
         /\ signal[NameOf[s]] \in {None, Own(s)}

\* The calls that count on the replay of SetDiscovery, or have advertised.
Announced(s) ==
  \/ pc[s] \in {"hook", "listener", "serve", "live"}
  \/ pc[s] = "advertise" /\ ~viaDisc[s]

\* With the keys on disk a name has one key, so that a replay that comes late for a service
\* that is gone cannot put a wrong one in place of that of its successor.
IdentityInv ==
  /\ \A s \in Streams : key[s] \in {None, NameOf[s]}
  /\ \A s \in replay : key[s] = NameOf[s]
  /\ disc => \A s \in Streams : Announced(s) =>
       (dpc = "readvertise" /\ s \in replay) \/ localIds[NameOf[s]] = key[s]

\* A call moves only its own pc, leaves the daemon's wiring alone and comes to the hook's
\* steps, and to its end without them, only as the hook it read tells it to.
LEMMA CallSteps ==
  ASSUME RegistryInv, NEW s \in Streams, Register(s) \/ Disconnect(s) \/ Unregister(s)
  PROVE  /\ UNCHANGED <<wiringVars, stopped>>
         /\ \A t \in Streams : t # s => pc'[t] = pc[t]
         /\ pc'[s] = "listener" => onRegister /\ NameOf[s] # Node
         /\ pc'[s] = "serve" => pc[s] = "listener"
         /\ pc'[s] = "live" /\ NameOf[s] # Node => AddService(s) \/ ~onRegister
         /\ UNCHANGED signal \/ AddService(s) \/ RemoveService(s)
         /\ pc[s] \in Begun => pc'[s] \in Begun /\ (pc'[s] \in Holding => pc[s] \in Holding)
<1> USE DEF Goto, wiringVars, tableVars, Begun, Holding
<1>0. DOMAIN pc = Streams
  BY DEF RegistryInv, TypeOK
<1>1. CASE CheckName(s) \/ CheckOnion(s) \/ LoadKey(s) \/ Listen(s) \/ SaveKey(s) \/ InsertOnion(s)
  BY <1>0, <1>1 DEF CheckName, CheckOnion, LoadKey, Listen, SaveKey, InsertOnion
<1>2. CASE InsertName(s) \/ Advertise(s) \/ ReadHook(s)
  BY <1>0, <1>2 DEF InsertName, Advertise, ReadHook
<1>3. CASE GetListener(s) \/ AddService(s) \/ Rollback(s) \/ Disconnect(s)
  BY <1>0, <1>3 DEF GetListener, AddService, Rollback, Disconnect
<1>4. CASE DeleteName(s) \/ RemoveService(s) \/ Withdraw(s) \/ RemoveOnion(s) \/ CloseOnion(s)
  BY <1>0, <1>4 DEF DeleteName, RemoveService, Withdraw, RemoveOnion, CloseOnion
<1> QED BY <1>1, <1>2, <1>3, <1>4 DEF Register, Unregister

\* Services on the list have different names.
LEMMA ListedOnce ==
  ASSUME RegistryInv
  PROVE  /\ Listed \subseteq Streams
         /\ \A s \in Listed, t \in Listed : NameOf[s] = NameOf[t] => s = t
         /\ \A s \in Streams : s \in Listed <=> pc[s] \in Recorded
         /\ pc[Daemon] = "live" => \A s \in Listed \ {Daemon} : NameOf[s] # Node
<1>1. \A s \in Streams : s \in Listed <=> pc[s] \in Recorded
  BY RegistryAssumption DEF RegistryInv, OnionIsLock, Listed
<1>2. Listed \subseteq Streams /\ \A s \in Listed, t \in Listed : NameOf[s] = NameOf[t] => s = t
  BY DEF Listed
<1>3. pc[Daemon] = "live" => Daemon \in Listed
  BY <1>1, RegistryAssumption DEF Recorded
<1> QED BY <1>1, <1>2, <1>3 DEF Node

\* Every step keeps the order of the wiring.
LEMMA OrderStep ==
  ASSUME RegistryInv, OrderInv, [Next]_vars
  PROVE  OrderInv'
<1> USE DEF callVars, wiringVars, engineVars, tableVars
<1>0. TypeOK
  BY DEF RegistryInv
<1>1. ASSUME NEW s \in Streams, Register(s) \/ Disconnect(s) \/ Unregister(s) PROVE OrderInv'
  <2>1. UNCHANGED <<wiringVars, stopped>>
    BY <1>1, CallSteps
  <2>2. ASSUME NEW t \in Streams, pc'[t] \in {"listener", "serve"} PROVE NameOf[t] # Node /\ onRegister
    BY <1>1, <2>2, CallSteps DEF OrderInv
  <2>3. \A t \in Streams : pc[t] \in Begun => pc'[t] \in Begun /\ (pc'[t] \in Holding => pc[t] \in Holding)
    BY <1>1, CallSteps
  <2>4. replay \subseteq Streams /\ (current # None => current.svc \in Streams)
    BY <1>0 DEF TypeOK, Entry
  <2> QED BY <2>1, <2>2, <2>3, <2>4 DEF OrderInv, Node, Own
<1>2. CASE SetDiscovery
  BY <1>2, ListedOnce DEF SetDiscovery, OrderInv, Node, Begun, Holding, Recorded
<1>3. CASE \E s \in Streams : ReplayIdentity(s)
  BY <1>3 DEF ReplayIdentity, OrderInv, Node
<1>4. CASE StartSignaling
  BY <1>4 DEF StartSignaling, OrderInv, Node
<1>5. CASE SetOnRegister
  <2>1. pc[Daemon] = "live"
    BY <1>5 DEF SetOnRegister, RegistryInv, DaemonOrder
  <2> QED BY <1>5, <2>1, ListedOnce DEF SetOnRegister, OrderInv, Node, Begun, Holding, Recorded
<1>6. ASSUME NEW s \in Streams, ReplayListener(s) PROVE OrderInv'
  <2>1. current' = None \/ current'.svc = s
    BY <1>6 DEF ReplayListener
  <2>2. pc[s] \in Holding => current' = Own(s)
    BY <1>6, RegistryAssumption DEF ReplayListener, RegistryInv, OnionIsLock, Own
  <2> QED BY <1>6, <2>1, <2>2 DEF ReplayListener, OrderInv, Node
<1>7. CASE ReplayService
  BY <1>7 DEF ReplayService, OrderInv, Node
<1>8. CASE SetOnUnregister
  BY <1>8 DEF SetOnUnregister, OrderInv, Node
<1>9. CASE StopSignaling \/ GracefulStop \/ StopTor
  BY <1>9 DEF StopSignaling, GracefulStop, StopTor, OrderInv, Node
<1>10. CASE UNCHANGED vars
  BY <1>10 DEF vars, OrderInv, Node
<1> QED
  BY <1>1, <1>2, <1>3, <1>4, <1>5, <1>6, <1>7, <1>8, <1>9, <1>10 DEF Next, Wire, Stop

\* One call at a time holds a name.
LEMMA OneHolder ==
  ASSUME RegistryInv, NEW s \in Streams, NEW t \in Streams,
         NameOf[s] = NameOf[t], pc[s] \in Holding, pc[t] \in Holding
  PROVE  s = t
<1>1. CASE dpc # "down"
  BY <1>1, RegistryAssumption DEF RegistryInv, OnionIsLock
<1>2. CASE dpc = "down"
  BY <1>2, RegistryAssumption DEF RegistryInv, DaemonOrder, Clients, Holding
<1> QED BY <1>1, <1>2

\* A live service stays served, and the replay serves who was not.
LEMMA SignalStep ==
  ASSUME RegistryInv, OrderInv, OrderInv', SignalInv, [Next]_vars
  PROVE  SignalInv'
<1> USE RegistryAssumption DEF callVars, wiringVars, engineVars, tableVars
<1>0. TypeOK /\ DOMAIN signal = Names /\ NameOf \in [Streams -> Names] /\ Node \in Names
  BY DEF RegistryInv, TypeOK, Node
<1>1. ASSUME NEW s \in Streams, Register(s) \/ Disconnect(s) \/ Unregister(s) PROVE SignalInv'
  <2>1. UNCHANGED <<wiringVars, stopped>>
    BY <1>1, CallSteps
  <2>2. CASE AddService(s)
    <3>1. /\ pc[s] = "serve" /\ NameOf[s] # Node /\ onRegister /\ lis[s] = s
          /\ pc' = [pc EXCEPT ![s] = pc'[s]]
          /\ \/ signal' = [signal EXCEPT ![NameOf[s]] = Own(s)] /\ pc'[s] = "live"
             \/ signal' = signal /\ pc'[s] = "rollback"
      BY <1>0, <2>2 DEF AddService, Goto, OrderInv, RegistryInv, OwnListener, TypeOK, Own
    <3>2. \A t \in Streams : t # s /\ pc[t] = "live" => NameOf[t] # NameOf[s]
      BY <3>1, OneHolder DEF Holding
    <3> QED BY <1>0, <2>1, <3>1, <3>2 DEF SignalInv, TypeOK, Node, Own
  <2>3. CASE RemoveService(s)
    <3>1. /\ pc[s] = "unserve" /\ pc'[s] = "withdraw" /\ pc' = [pc EXCEPT ![s] = pc'[s]]
          /\ \/ signal' = [signal EXCEPT ![NameOf[s]] = None] /\ NameOf[s] # Node
             \/ signal' = signal
      BY <1>0, <2>3 DEF RemoveService, Goto, TypeOK
    <3>2. \A t \in Streams : t # s /\ pc[t] = "live" => NameOf[t] # NameOf[s]
      BY <3>1, OneHolder DEF Holding
    <3> QED BY <1>0, <2>1, <3>1, <3>2 DEF SignalInv, TypeOK, Node, Own
  <2>4. CASE UNCHANGED signal /\ ~AddService(s)
    <3>1. \A t \in Streams : pc'[t] = "live" /\ NameOf[t] # Node /\ onRegister => pc[t] = "live"
      BY <1>1, <2>4, CallSteps
    <3> QED BY <2>1, <2>4, <3>1 DEF SignalInv, Node, Own
  <2> QED BY <1>1, <2>2, <2>3, <2>4, CallSteps
<1>2. CASE SetDiscovery
  BY <1>2 DEF SetDiscovery, SignalInv, OrderInv, Node, Own
<1>3. CASE \E s \in Streams : ReplayIdentity(s)
  BY <1>3 DEF ReplayIdentity, SignalInv, OrderInv, Node, Own
<1>4. CASE StartSignaling
  BY <1>0, <1>4 DEF StartSignaling, SignalInv, OrderInv, Node, Own
<1>5. CASE SetOnRegister
  <2>1. \A s \in Streams : pc[s] = "live" /\ NameOf[s] # Node => s \in replay'
    BY <1>5, ListedOnce DEF SetOnRegister, Recorded, Node
  <2> QED BY <1>5, <2>1 DEF SetOnRegister, SignalInv, Node, Own
<1>6. ASSUME NEW s \in Streams, ReplayListener(s) PROVE SignalInv'
  <2>1. UNCHANGED <<callVars, signal, onRegister, stopped, dpc>> /\ replay' = replay \ {s} /\ current = None
    BY <1>6 DEF ReplayListener
  <2>2. pc[s] = "live" => current' = Own(s)
    BY <1>6 DEF ReplayListener, RegistryInv, OnionIsLock, Holding, Own
  <2>3. \A t \in Streams : None # Own(t)
    BY DEF Own
  <2> QED BY <2>1, <2>2, <2>3 DEF SignalInv, Node, Own
<1>7. CASE ReplayService
  <2> DEFINE e == current
             n == NameOf[e.svc]
  <2>1. /\ UNCHANGED <<callVars, onRegister, stopped, dpc, replay>> /\ e \in Entry /\ e # None /\ n # Node /\ n \in Names
        /\ e.svc \in Streams /\ current' = None /\ onRegister
    BY <1>0, <1>7 DEF ReplayService, TypeOK, OrderInv, Entry, Node
  <2>2. CASE CanAddService(n) /\ signal' = [signal EXCEPT ![n] = e]
    <3>1. ASSUME NEW s \in Streams, pc[s] = "live", NameOf[s] # Node, ~stopped
          PROVE  /\ s \in replay \/ signal'[NameOf[s]] = Own(s)
                 /\ signal'[NameOf[s]] \in {None, Own(s)}
      <4>1. /\ s \in replay \/ current = Own(s) \/ signal[NameOf[s]] = Own(s)
            /\ signal[NameOf[s]] \in {None, Own(s)}
        BY <2>1, <3>1 DEF SignalInv
      <4>2. CASE NameOf[s] # n
        <5>1. current # Own(s) /\ signal'[NameOf[s]] = signal[NameOf[s]]
          BY <1>0, <2>1, <2>2, <4>2 DEF Own
        <5> QED BY <4>1, <5>1
      <4>3. CASE NameOf[s] = n
        <5>1. signal[NameOf[s]] = None /\ Own(s) # None
          BY <2>2, <4>3 DEF CanAddService, Own
        <5>2. s \notin replay
          BY <2>1, <4>3 DEF OrderInv
        <5>3. current = Own(s)
          BY <4>1, <5>1, <5>2
        <5> QED BY <1>0, <2>1, <2>2, <4>3, <5>3
      <4> QED BY <4>2, <4>3
    <3>2. signal'[Node] = signal[Node]
      BY <1>0, <2>1, <2>2
    <3> QED BY <2>1, <3>1, <3>2 DEF SignalInv, Node, Own
  <2>3. CASE ~CanAddService(n) /\ signal' = signal
    <3>1. ASSUME NEW s \in Streams, pc[s] = "live", NameOf[s] # Node, ~stopped
          PROVE  /\ s \in replay \/ signal[NameOf[s]] = Own(s)
                 /\ signal[NameOf[s]] \in {None, Own(s)}
      <4>1. /\ s \in replay \/ current = Own(s) \/ signal[NameOf[s]] = Own(s)
            /\ signal[NameOf[s]] \in {None, Own(s)}
        BY <2>1, <3>1 DEF SignalInv
      <4> QED BY <2>3, <3>1, <4>1 DEF CanAddService, Own
    <3> QED BY <2>1, <2>3, <3>1 DEF SignalInv, Node, Own
  <2> QED BY <1>7, <2>2, <2>3 DEF ReplayService
<1>8. CASE SetOnUnregister
  BY <1>8 DEF SetOnUnregister, SignalInv, Node, Own
<1>9. CASE StopSignaling \/ GracefulStop \/ StopTor
  BY <1>9 DEF StopSignaling, GracefulStop, StopTor, SignalInv, OrderInv, Node, Own
<1>10. CASE UNCHANGED vars
  BY <1>10 DEF vars, SignalInv, Node, Own
<1> QED
  BY <1>1, <1>2, <1>3, <1>4, <1>5, <1>6, <1>7, <1>8, <1>9, <1>10 DEF Next, Wire, Stop

\* What a call does to the identities: under its own name, and with its own key.
LEMMA IdentityMoves ==
  ASSUME Keyed = Names, RegistryInv, KeyedInv, NEW s \in Streams,
         Register(s) \/ Disconnect(s) \/ Unregister(s)
  PROVE  /\ \A t \in Streams : t # s => pc'[t] = pc[t] /\ viaDisc'[t] = viaDisc[t] /\ key'[t] = key[t]
         /\ key'[s] = key[s] \/ (key'[s] = NameOf[s] /\ pc'[s] \in {"listen", "save", "insert"})
         /\ \A n \in Names : n # NameOf[s] => localIds'[n] = localIds[n]
         /\ localIds' = localIds \/ pc[s] \in {"advertise", "withdraw"}
         /\ Announced(s)' /\ disc =>
              \/ Announced(s) /\ localIds' = localIds
              \/ localIds'[NameOf[s]] = key[s]
<1> USE DEF Goto, tableVars, Announced
<1>0. /\ DOMAIN pc = Streams /\ DOMAIN viaDisc = Streams /\ DOMAIN key = Streams
      /\ DOMAIN localIds = Names /\ NameOf[s] \in Names
  BY RegistryAssumption DEF RegistryInv, TypeOK
<1>1. CASE CheckName(s) \/ CheckOnion(s) \/ SaveKey(s) \/ InsertOnion(s)
  BY <1>0, <1>1 DEF CheckName, CheckOnion, SaveKey, InsertOnion
<1>2. CASE LoadKey(s)
  <2>1. keyFile[NameOf[s]] = NameOf[s]
    BY <1>0 DEF KeyedInv
  <2> QED BY <1>0, <1>2, <2>1 DEF LoadKey
<1>3. CASE Listen(s)
  <2>1. key[s] = NameOf[s] /\ key[s] # None
    BY <1>0, <1>3, RegistryAssumption DEF Listen, KeyedInv
  <2> QED BY <1>0, <1>3, <2>1 DEF Listen
<1>4. CASE InsertName(s)
  BY <1>0, <1>4 DEF InsertName
<1>5. CASE Advertise(s)
  <2>1. CASE pc' = [pc EXCEPT ![s] = "hook"] /\ viaDisc' = viaDisc
    <3>1. /\ key' = key /\ pc[s] = "advertise" /\ pc'[s] = "hook"
          /\ \A t \in Streams : t # s => pc'[t] = pc[t]
          /\ \E k : localIds' = [localIds EXCEPT ![NameOf[s]] = k]
      BY <1>0, <1>5, <2>1 DEF Advertise
    <3>2. CASE viaDisc[s]
      <4>1. localIds'[NameOf[s]] = key[s]
        BY <1>0, <1>5, <2>1, <3>2 DEF Advertise
      <4> QED BY <1>0, <2>1, <3>1, <4>1
    <3>3. CASE ~viaDisc[s]
      <4>1. localIds' = localIds
        <5>1. localIds' = [localIds EXCEPT ![NameOf[s]] = localIds[NameOf[s]]]
          BY <1>5, <2>1, <3>3 DEF Advertise
        <5> QED BY <5>1 DEF RegistryInv, TypeOK
      <4> QED BY <2>1, <3>1, <3>3, <4>1
    <3> QED BY <3>2, <3>3
  <2>2. CASE pc' = [pc EXCEPT ![s] = "rollback"]
    BY <1>0, <1>5, <2>2 DEF Advertise
  <2> QED BY <1>5, <2>1, <2>2 DEF Advertise
<1>6. CASE ReadHook(s) \/ GetListener(s) \/ AddService(s) \/ Rollback(s) \/ Disconnect(s)
  BY <1>0, <1>6 DEF ReadHook, GetListener, AddService, Rollback, Disconnect
<1>7. CASE DeleteName(s) \/ RemoveService(s) \/ Withdraw(s) \/ RemoveOnion(s) \/ CloseOnion(s)
  BY <1>0, <1>7 DEF DeleteName, RemoveService, Withdraw, RemoveOnion, CloseOnion
<1> QED BY <1>1, <1>2, <1>3, <1>4, <1>5, <1>6, <1>7 DEF Register, Unregister

\* Who counts on being advertised is, or is on the list of SetDiscovery.
LEMMA IdentityStep ==
  ASSUME Keyed = Names, RegistryInv, KeyedInv, OrderInv, IdentityInv, [Next]_vars
  PROVE  IdentityInv'
<1> USE RegistryAssumption DEF callVars, wiringVars, engineVars, tableVars
<1>0. TypeOK /\ DOMAIN localIds = Names /\ NameOf \in [Streams -> Names]
  BY DEF RegistryInv, TypeOK
<1>1. ASSUME NEW s \in Streams, Register(s) \/ Disconnect(s) \/ Unregister(s) PROVE IdentityInv'
  <2>1. UNCHANGED <<disc, dpc, replay>>
    BY <1>1, CallSteps
  <2>2. \A t \in Streams : key'[t] = key[t] \/ key'[t] = NameOf[t]
    BY <1>1, IdentityMoves
  <2>3. ASSUME NEW t \in Streams, Announced(t)', disc
        PROVE  (dpc = "readvertise" /\ t \in replay) \/ localIds'[NameOf[t]] = key'[t]
    <3>1. CASE t = s
      <4>1. key'[s] = key[s]
        BY <1>1, <2>3, <3>1, IdentityMoves DEF Announced
      <4> QED BY <1>1, <2>3, <3>1, <4>1, IdentityMoves DEF IdentityInv
    <3>2. CASE t # s
      <4>1. Announced(t) /\ key'[t] = key[t]
        BY <1>1, <2>3, <3>2, IdentityMoves DEF Announced
      <4>2. localIds'[NameOf[t]] = localIds[NameOf[t]]
        <5>1. CASE NameOf[t] # NameOf[s]
          BY <1>0, <1>1, <5>1, IdentityMoves
        <5>2. CASE NameOf[t] = NameOf[s]
          <6>1. pc[s] \notin {"advertise", "withdraw"}
            BY <3>2, <4>1, <5>2, OneHolder DEF Announced, Holding
          <6> QED BY <1>1, <6>1, IdentityMoves
        <5> QED BY <5>1, <5>2
      <4> QED BY <2>3, <4>1, <4>2 DEF IdentityInv
    <3> QED BY <3>1, <3>2
  <2>4. replay \subseteq Streams
    BY <1>0 DEF TypeOK
  <2> QED BY <2>1, <2>2, <2>3, <2>4 DEF IdentityInv
<1>2. CASE SetDiscovery
  <2>1. \A s \in Streams : pc[s] \in Recorded => s \in replay' /\ key[s] = NameOf[s]
    BY <1>0, <1>2, ListedOnce DEF SetDiscovery, KeyedInv, Serving, Holding, Recorded
  <2>2. \A s \in replay' : s \in Streams /\ pc[s] \in Recorded
    BY <1>2, ListedOnce DEF SetDiscovery
  <2> QED BY <1>2, <2>1, <2>2 DEF SetDiscovery, IdentityInv, Announced, Recorded
<1>3. ASSUME NEW s \in Streams, ReplayIdentity(s) PROVE IdentityInv'
  <2>1. /\ UNCHANGED <<callVars, disc, dpc>> /\ replay' = replay \ {s} /\ key[s] = NameOf[s]
        /\ localIds' = [localIds EXCEPT ![NameOf[s]] = key[s]] /\ dpc = "readvertise"
    BY <1>3 DEF ReplayIdentity, IdentityInv
  <2>2. ASSUME NEW t \in Streams, Announced(t), disc
        PROVE  t \in replay' \/ localIds'[NameOf[t]] = key[t]
    <3>1. CASE NameOf[t] = NameOf[s]
      <4>1. key[t] = NameOf[t]
        BY <1>0, <2>2 DEF KeyedInv, Announced, Serving, Holding
      <4> QED BY <1>0, <2>1, <3>1, <4>1
    <3>2. CASE NameOf[t] # NameOf[s]
      BY <1>0, <2>1, <2>2, <3>2 DEF IdentityInv
    <3> QED BY <3>1, <3>2
  <2> QED BY <2>1, <2>2 DEF IdentityInv, Announced
<1>4. CASE StartSignaling
  BY <1>4 DEF StartSignaling, IdentityInv, Announced
<1>5. CASE SetOnRegister
  <2>1. \A s \in replay' : s \in Streams /\ key[s] = NameOf[s]
    BY <1>0, <1>5, ListedOnce DEF SetOnRegister, KeyedInv, Serving, Holding, Recorded
  <2> QED BY <1>5, <2>1 DEF SetOnRegister, IdentityInv, Announced
<1>6. CASE (\E s \in Streams : ReplayListener(s)) \/ ReplayService \/ SetOnUnregister
  BY <1>6 DEF ReplayListener, ReplayService, SetOnUnregister, IdentityInv, Announced
<1>7. CASE StopSignaling \/ GracefulStop \/ StopTor
  BY <1>7 DEF StopSignaling, GracefulStop, StopTor, IdentityInv, Announced
<1>8. CASE UNCHANGED vars
  BY <1>8 DEF vars, IdentityInv, Announced
<1> QED
  BY <1>1, <1>2, <1>3, <1>4, <1>5, <1>6, <1>7, <1>8 DEF Next, Wire, Stop

----------------------------------------------------------------------------
(* Theorems *)

\* The onion map is the lock of a name, however many streams compete for it,
\* whenever they come and whatever fails.
THEOREM RegistryInvariant == Spec => []RegistryInv
<1>1. Init => RegistryInv
  BY RegistryInit
<1>2. RegistryInv /\ [Next]_vars => RegistryInv'
  BY RegistryStep
<1> QED
  BY <1>1, <1>2, PTL DEF Spec

\* A registered client keeps its record and its onion until its stream ends.
THEOREM OwnerKept == Spec => []OwnerServed
<1>1. RegistryInv => OwnerServed
  BY RegistryAssumption DEF RegistryInv, OnionIsLock, OwnerServed, Holding, Recorded
<1> QED
  BY <1>1, RegistryInvariant, PTL

\* A name with a key on disk has one onion address for good.
THEOREM AddressStability == Spec => []KeyedAddressStable
<1>1. Init => KeyedInv
  BY RegistryAssumption DEF Init, KeyedInv, Serving, Holding
<1>2. RegistryInv /\ KeyedInv /\ [Next]_vars => KeyedInv'
  BY KeyedStep
<1>3. RegistryInv /\ KeyedInv => KeyedAddressStable
  BY RegistryAssumption
  DEF RegistryInv, TypeOK, OnionIsLock, KeyedInv, KeyedAddressStable, Serving
<1> QED
  BY <1>1, <1>2, <1>3, RegistryInvariant, PTL DEF Spec

\* With the clients coming after the daemon has wired everything.
THEOREM WiredInvariant ==
  ASSUME Early = {}
  PROVE  Spec => []WiredInv
<1>1. Init => StartupInv /\ WiringInv /\ KeysInv
  BY RegistryAssumption
  DEF Init, StartupInv, WiringInv, ClientWired, NothingLeft, KeysInv, Advertised, Served,
      Serving, Clients, Node, Up, Holding
<1>2. RegistryInv /\ RegistryInv' /\ StartupInv /\ [Next]_vars => StartupInv'
  BY StartupStep
<1>3. RegistryInv /\ RegistryInv' /\ StartupInv /\ StartupInv' /\ WiringInv /\ [Next]_vars
        => WiringInv'
  BY WiringStep
<1>4. RegistryInv /\ RegistryInv' /\ KeysInv /\ [Next]_vars => KeysInv'
  BY KeysStep
<1> QED
  BY <1>1, <1>2, <1>3, <1>4, RegistryInvariant, PTL DEF Spec, WiredInv

\* Registry, Tor engine, DHT and signaling server agree about every name on
\* which no call is in progress.
THEOREM Coherence ==
  ASSUME Early = {}
  PROVE  Spec => []Coherent
<1>1. WiredInv => Coherent
  <2> SUFFICES ASSUME WiredInv, dpc = "up",
                      NEW n \in Names, Settled(n)
               PROVE  IF byName[n] = None
                        THEN onions[n] = None /\ localIds[n] = None /\ signal[n] = None
                        ELSE /\ pc[byName[n]] = "live"
                             /\ onions[n] = byName[n]
                             /\ localIds[n] = key[byName[n]]
                             /\ signal[n] = [svc |-> byName[n], lis |-> byName[n]]
                             /\ key[byName[n]] \in published
    BY DEF Coherent
  <2> USE RegistryAssumption DEF WiredInv, RegistryInv, TypeOK, OnionIsLock, Settled,
                                 Holding, Recorded
  <2>1. CASE byName[n] = None
    <3>1. onions[n] = None
      BY <2>1
    <3>2. n # Node
      BY <2>1 DEF DaemonOrder, Node
    <3>3. localIds[n] = None /\ signal[n] = None
      BY <2>1, <3>2 DEF WiringInv, NothingLeft, Advertised, Served, Clients
    <3> QED BY <2>1, <3>1, <3>3
  <2>2. ASSUME NEW s \in Streams, byName[n] = s PROVE
          /\ pc[s] = "live" /\ onions[n] = s /\ localIds[n] = key[s]
          /\ signal[n] = [svc |-> s, lis |-> s] /\ key[s] \in published
    <3>1. pc[s] = "live" /\ onions[n] = s /\ NameOf[s] = n
      BY <2>2
    <3>2. key[s] \in published
      BY <3>1 DEF KeysInv, Serving
    <3>3. CASE s = Daemon
      BY <3>1, <3>2, <3>3 DEF StartupInv, Node, Up
    <3>4. CASE s \in Clients
      <4>1. ~stopped
        BY DEF StartupInv
      <4>2. ClientWired(s)
        BY <3>4 DEF WiringInv
      <4>3. localIds[n] = key[s] /\ signal[n] = [svc |-> s, lis |-> s]
        BY <3>1, <4>1, <4>2, Zenon DEF ClientWired, Advertised, Served
      <4> QED BY <3>1, <3>2, <4>3
    <3> QED BY <3>3, <3>4 DEF Clients
  <2> QED BY <2>1, <2>2
<1> QED
  BY <1>1, WiredInvariant, PTL

\* Whenever the clients come: a service that is live when the daemon is up is advertised
\* under its key and served at its listener.  Every name has its key on disk, as after the
\* first start; two keys for one name could otherwise be advertised in the wrong order.
THEOREM LiveServicesWired ==
  ASSUME Keyed = Names
  PROVE  Spec => []LiveIsWired
<1>1. Init => KeyedInv /\ OrderInv /\ SignalInv /\ IdentityInv
  BY RegistryAssumption
  DEF Init, KeyedInv, Serving, Holding, OrderInv, SignalInv, IdentityInv, Announced, Node
<1>2. RegistryInv /\ KeyedInv /\ [Next]_vars => KeyedInv'
  BY KeyedStep
<1>3. RegistryInv /\ OrderInv /\ [Next]_vars => OrderInv'
  BY OrderStep
<1>4. RegistryInv /\ OrderInv /\ OrderInv' /\ SignalInv /\ [Next]_vars => SignalInv'
  BY SignalStep
<1>5. RegistryInv /\ KeyedInv /\ OrderInv /\ IdentityInv /\ [Next]_vars => IdentityInv'
  BY IdentityStep
<1>6. RegistryInv /\ OrderInv /\ SignalInv /\ IdentityInv => LiveIsWired
  <2> SUFFICES ASSUME RegistryInv, OrderInv, SignalInv, IdentityInv,
                      NEW s \in Streams, pc[s] = "live", dpc = "up"
               PROVE  localIds[NameOf[s]] = key[s] /\ signal[NameOf[s]] = [svc |-> s, lis |-> s]
    BY DEF LiveIsWired
  <2>1. localIds[NameOf[s]] = key[s]
    BY DEF OrderInv, IdentityInv, Announced
  <2>2. CASE NameOf[s] = Node
    <3>1. pc[Daemon] = "live" /\ Daemon \in Streams
      BY RegistryAssumption DEF RegistryInv, DaemonOrder
    <3>2. s = Daemon
      BY <2>2, <3>1, OneHolder DEF Node, Holding
    <3> QED BY <2>1, <2>2, <3>2 DEF OrderInv, SignalInv, Own
  <2>3. CASE NameOf[s] # Node
    <3>1. replay = {} /\ current = None /\ onRegister /\ ~stopped
      BY DEF OrderInv
    <3>2. Own(s) # None
      BY RegistryAssumption DEF Own
    <3> QED BY <2>1, <2>3, <3>1, <3>2 DEF SignalInv, Own
  <2> QED BY <2>2, <2>3
<1> QED
  BY <1>1, <1>2, <1>3, <1>4, <1>5, <1>6, RegistryInvariant, PTL DEF Spec
============================================================================
