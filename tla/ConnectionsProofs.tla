--------------------------- MODULE ConnectionsProofs ---------------------------
(***************************************************************************)
(* Proofs about Connections, for any finite set of connections and any     *)
(* cap; NoLeftover for clients with one account per connection.            *)
(***************************************************************************)
EXTENDS Connections, FiniteSetTheorems, TLAPS

Shaking == {c \in Connections : task[c].at = "handshake"}
Served  == {c \in Connections : task[c].at \in InTable}

(* Sets of connections are counted by naturals, and none is larger than    *)
(* the set of all.                                                         *)
LEMMA Countable ==
  ASSUME NEW S \in SUBSET Connections
  PROVE  /\ IsFiniteSet(S)
         /\ Cardinality(S) \in 0..Cardinality(Connections)
<1>1. IsFiniteSet(S) /\ Cardinality(S) <= Cardinality(Connections)
  BY FiniteAssumption, FS_Subset
<1>2. Cardinality(S) \in Nat /\ Cardinality(Connections) \in Nat
  BY <1>1, FiniteAssumption, FS_CardinalityType
<1> QED
  BY <1>1, <1>2

(* One connection more, or one less, under handshake changes the number of *)
(* them by one.                                                            *)
LEMMA ShakingGrows ==
  ASSUME NEW c \in Connections, c \notin Shaking, Shaking' = Shaking \cup {c}
  PROVE  Cardinality(Shaking') = Cardinality(Shaking) + 1
<1>1. IsFiniteSet(Shaking)
  BY Countable DEF Shaking
<1> QED
  BY <1>1, FS_AddElement

LEMMA ShakingShrinks ==
  ASSUME NEW c \in Connections, c \in Shaking, Shaking' = Shaking \ {c}
  PROVE  Cardinality(Shaking') = Cardinality(Shaking) - 1
<1>1. IsFiniteSet(Shaking)
  BY Countable DEF Shaking
<1> QED
  BY <1>1, FS_RemoveElement

LEMMA TaskEntry ==
  ASSUME NEW c \in Connections, NEW at \in TaskSteps, NEW e \in Extensions \cup {None},
         task \in [Connections -> [at: TaskSteps, ext: Extensions \cup {None}]],
         Goes(c, at, e)
  PROVE  /\ task' \in [Connections -> [at: TaskSteps, ext: Extensions \cup {None}]]
         /\ task'[c].at = at /\ task'[c].ext = e
         /\ \A d \in Connections \ {c} : task'[d] = task[d]
  BY DEF Goes
------------------------------------------------------------------------------
(* A step of connection c's task between states that are neither before    *)
(* nor in a handshake, with the table following the task.                  *)
LEMMA TaskMoves ==
  ASSUME CountsIInv, NEW c \in Connections, NEW at \in TaskSteps,
         NEW e \in Extensions \cup {None}, Goes(c, at, e),
         task[c].at \notin {"new", "handshake"}, at \notin {"new", "handshake"},
         DOMAIN connections' = IF at \in InTable THEN DOMAIN connections \cup {c}
                               ELSE DOMAIN connections \ {c},
         \A d \in DOMAIN connections' : connections'[d] \in Extensions \cup {None},
         writers' \in [Extensions -> Connections \cup {None}],
         registered' \subseteq Extensions,
         UNCHANGED <<listener, pending_handshakes>>
  PROVE  CountsIInv'
<1>1. /\ task' \in [Connections -> [at: TaskSteps, ext: Extensions \cup {None}]]
      /\ task'[c].at = at
      /\ \A d \in Connections \ {c} : task'[d] = task[d]
  BY TaskEntry DEF CountsIInv, TypeOK
<1>2. TypeOK'
  BY <1>1 DEF CountsIInv, TypeOK, Listening
<1>3. Shaking' = Shaking
  BY <1>1 DEF Shaking
<1>4. Served' = IF at \in InTable THEN Served \cup {c} ELSE Served \ {c}
  BY <1>1 DEF Served
<1>5. CountsExact'
  BY <1>3, <1>4 DEF CountsIInv, CountsExact, Shaking, Served
<1>6. (listener # Listening => task[listener.conn].at = "new")'
  <2>1. listener' # Listening =>
          listener.conn \in Connections \ {c} /\ task[listener.conn].at = "new"
    BY DEF CountsIInv, TypeOK
  <2> QED
    BY <1>1, <2>1 DEF Listening
<1> QED
  BY <1>2, <1>5, <1>6 DEF CountsIInv

LEMMA CountsInit == Init => CountsIInv
<1> SUFFICES ASSUME Init PROVE CountsIInv
  OBVIOUS
<1>1. TypeOK
  BY MaxAssumption DEF Init, TypeOK, TaskSteps, InTable
<1>2. Shaking = {} /\ Served = {}
  BY DEF Init, Shaking, Served, InTable
<1>3. CountsExact
  BY <1>2, FS_EmptySet DEF Init, CountsExact, Shaking, Served
<1> QED
  BY <1>1, <1>3 DEF Init, CountsIInv

LEMMA CountsStep == CountsIInv /\ [Next]_vars => CountsIInv'
<1> SUFFICES ASSUME CountsIInv, [Next]_vars PROVE CountsIInv'
  OBVIOUS
<1> USE DEF TaskSteps, InTable
<1>1. CASE UNCHANGED vars
  BY <1>1 DEF vars, CountsIInv, TypeOK, CountsExact, Listening
<1>2. ASSUME NEW c \in Connections, AcceptReads(c) PROVE CountsIInv'
  <2>1. Cardinality(DOMAIN connections) \in 0..Cardinality(Connections)
    BY Countable DEF CountsIInv, TypeOK
  <2>2. listener' \in [at: {"check"}, conn: Connections, established: 0..Cardinality(Connections)]
    BY <1>2, <2>1 DEF AcceptReads
  <2>3. TypeOK'
    BY <1>2, <2>2 DEF AcceptReads, CountsIInv, TypeOK
  <2> QED
    BY <1>2, <2>3 DEF AcceptReads, CountsIInv, CountsExact
<1>3. CASE AcceptRefuses
  <2>1. listener.conn \in Connections /\ task[listener.conn].at = "new"
    BY <1>3 DEF AcceptRefuses, CountsIInv, TypeOK
  <2>2. /\ task' \in [Connections -> [at: TaskSteps, ext: Extensions \cup {None}]]
        /\ task'[listener.conn].at = "gone"
        /\ \A d \in Connections \ {listener.conn} : task'[d] = task[d]
    BY <1>3, <2>1, TaskEntry DEF AcceptRefuses, CountsIInv, TypeOK
  <2>3. TypeOK'
    BY <1>3, <2>2 DEF AcceptRefuses, CountsIInv, TypeOK
  <2>4. Shaking' = Shaking /\ Served' = Served
    BY <2>1, <2>2 DEF Shaking, Served
  <2>5. CountsExact'
    BY <1>3, <2>4 DEF AcceptRefuses, CountsIInv, CountsExact, Shaking, Served
  <2> QED
    BY <1>3, <2>3, <2>5 DEF AcceptRefuses, CountsIInv
<1>4. CASE AcceptSpawns
  <2>1. listener.conn \in Connections /\ task[listener.conn].at = "new" /\ listener.established \in Nat
    BY <1>4 DEF AcceptSpawns, CountsIInv, TypeOK
  <2>2. /\ task' \in [Connections -> [at: TaskSteps, ext: Extensions \cup {None}]]
        /\ task'[listener.conn].at = "handshake"
        /\ \A d \in Connections \ {listener.conn} : task'[d] = task[d]
    BY <1>4, <2>1, TaskEntry DEF AcceptSpawns, CountsIInv, TypeOK
  <2>3. pending_handshakes' \in 0..MaxConnections
    BY <1>4, <2>1, MaxAssumption DEF AcceptSpawns, AtCapacity, CountsIInv, TypeOK
  <2>4. TypeOK'
    BY <1>4, <2>2, <2>3 DEF AcceptSpawns, CountsIInv, TypeOK
  <2>5. Shaking' = Shaking \cup {listener.conn} /\ listener.conn \notin Shaking
    BY <2>1, <2>2 DEF Shaking
  <2>6. Served' = Served
    BY <2>1, <2>2 DEF Served
  <2>7. Cardinality(Shaking') = Cardinality(Shaking) + 1
    BY <2>1, <2>5, ShakingGrows
  <2>8. CountsExact'
    BY <1>4, <2>6, <2>7 DEF AcceptSpawns, CountsIInv, CountsExact, Shaking, Served
  <2> QED
    BY <1>4, <2>4, <2>8 DEF AcceptSpawns, CountsIInv
<1>5. ASSUME NEW c \in Connections, HandshakeEnds(c) PROVE CountsIInv'
  <2>1. PICK at \in {"shaken", "gone"} : Goes(c, at, None)
    BY <1>5 DEF HandshakeEnds
  <2>2. /\ task' \in [Connections -> [at: TaskSteps, ext: Extensions \cup {None}]]
        /\ task'[c].at = at
        /\ \A d \in Connections \ {c} : task'[d] = task[d]
    BY <2>1, TaskEntry DEF CountsIInv, TypeOK
  <2>3. Shaking' = Shaking \ {c} /\ c \in Shaking
    BY <1>5, <2>1, <2>2 DEF Shaking, HandshakeEnds
  <2>4. Served' = Served
    BY <1>5, <2>1, <2>2 DEF Served, HandshakeEnds
  <2>5. Cardinality(Shaking') = Cardinality(Shaking) - 1
    BY <2>3, ShakingShrinks
  <2>6. Cardinality(Shaking) \in Nat /\ Cardinality(Shaking) # 0
    BY <2>3, Countable, FS_EmptySet DEF Shaking
  <2>7. pending_handshakes' \in 0..MaxConnections
    BY <1>5, <2>6, MaxAssumption DEF HandshakeEnds, CountsIInv, CountsExact, TypeOK, Shaking
  <2>8. TypeOK'
    BY <1>5, <2>2, <2>7 DEF HandshakeEnds, CountsIInv, TypeOK, Listening
  <2>9. CountsExact'
    BY <1>5, <2>4, <2>5 DEF HandshakeEnds, CountsIInv, CountsExact, Shaking, Served
  <2>10. (listener # Listening => task[listener.conn].at = "new")'
    <3>1. listener # Listening =>
            listener.conn \in Connections \ {c} /\ task[listener.conn].at = "new"
      BY <1>5 DEF HandshakeEnds, CountsIInv, TypeOK
    <3> QED
      BY <1>5, <2>2, <3>1 DEF HandshakeEnds, Listening
  <2> QED
    BY <2>8, <2>9, <2>10 DEF CountsIInv
<1>6. ASSUME NEW c \in Connections, register_connection(c) PROVE CountsIInv'
  <2> QED
    BY <1>6, TaskMoves DEF register_connection, CountsIInv, TypeOK, CountsExact
<1>7. ASSUME NEW c \in Connections, NEW e \in Extensions, Registers(c, e) \/ Unregisters(c, e)
      PROVE CountsIInv'
  <2>1. c \in DOMAIN connections
    BY <1>7 DEF Registers, Unregisters, CountsIInv, CountsExact
  <2>2. PICK at \in {"accepted", "withdrawn"} : Goes(c, at, e)
    BY <1>7 DEF Registers, Unregisters
  <2>3. /\ task[c].at \notin {"new", "handshake"} /\ UNCHANGED <<listener, pending_handshakes>>
        /\ connections' = connections /\ writers' = writers
        /\ registered' \subseteq Extensions
    BY <1>7 DEF Registers, Unregisters, CountsIInv, TypeOK
  <2>4. /\ DOMAIN connections' = DOMAIN connections \cup {c}
        /\ \A d \in DOMAIN connections' : connections'[d] \in Extensions \cup {None}
        /\ writers' \in [Extensions -> Connections \cup {None}]
    BY <2>1, <2>3 DEF CountsIInv, TypeOK
  <2> QED
    BY <2>2, <2>3, <2>4, TaskMoves
<1>8. ASSUME NEW c \in Connections,
             set_connection_extension(c) \/ clear_connection_extension(c)
      PROVE CountsIInv'
  <2>1. c \in DOMAIN connections /\ task[c].ext \in Extensions \cup {None}
    BY <1>8 DEF set_connection_extension, clear_connection_extension, CountsIInv, CountsExact, TypeOK
  <2>2. PICK at \in {"registered", "unregistered"} : Goes(c, at, task[c].ext)
    BY <1>8 DEF set_connection_extension, clear_connection_extension
  <2>3. /\ DOMAIN connections' = DOMAIN connections
        /\ \A d \in DOMAIN connections' : connections'[d] \in Extensions \cup {None}
    BY <1>8, <2>1 DEF set_connection_extension, clear_connection_extension, CountsIInv, TypeOK
  <2>4. /\ task[c].at \notin {"new", "handshake"} /\ UNCHANGED <<listener, pending_handshakes>>
        /\ registered' \subseteq Extensions
        /\ writers' \in [Extensions -> Connections \cup {None}]
    BY <1>8 DEF set_connection_extension, clear_connection_extension, CountsIInv, TypeOK
  <2>5. DOMAIN connections' = DOMAIN connections \cup {c}
    BY <2>1, <2>3
  <2> QED
    BY <2>1, <2>2, <2>3, <2>4, <2>5, TaskMoves
<1>9. ASSUME NEW c \in Connections, register_writer(c) \/ unregister_writer(c)
      PROVE CountsIInv'
  <2>1. c \in DOMAIN connections
    BY <1>9 DEF register_writer, unregister_writer, CountsIInv, CountsExact
  <2>2. writers' \in [Extensions -> Connections \cup {None}]
    BY <1>9 DEF register_writer, unregister_writer, CountsIInv, TypeOK
  <2>3. /\ task[c].at \notin {"new", "handshake"} /\ UNCHANGED <<listener, pending_handshakes>>
        /\ registered' \subseteq Extensions /\ connections' = connections
        /\ Goes(c, "open", None)
        /\ \A d \in DOMAIN connections : connections[d] \in Extensions \cup {None}
    BY <1>9 DEF register_writer, unregister_writer, CountsIInv, TypeOK
  <2>4. /\ DOMAIN connections' = DOMAIN connections \cup {c}
        /\ \A d \in DOMAIN connections' : connections'[d] \in Extensions \cup {None}
    BY <2>1, <2>3
  <2> QED
    BY <2>2, <2>3, <2>4, TaskMoves
<1>10. ASSUME NEW c \in Connections, remove_connection(c) PROVE CountsIInv'
  <2>1. c \in DOMAIN connections
    BY <1>10 DEF remove_connection, CountsIInv, CountsExact
  <2>2. PICK at \in {"gone", "leaving"}, e \in Extensions \cup {None} : Goes(c, at, e)
    BY <1>10, <2>1 DEF remove_connection, CountsIInv, TypeOK
  <2> QED
    BY <1>10, <2>2, TaskMoves DEF remove_connection, CountsIInv, TypeOK
<1>11. ASSUME NEW c \in Connections, LeavingLooks(c) \/ LeavingUnregisters(c)
       PROVE CountsIInv'
  <2>1. c \notin DOMAIN connections
    BY <1>11 DEF LeavingLooks, LeavingUnregisters, CountsIInv, CountsExact
  <2>2. PICK at \in {"gone", "last"}, e \in Extensions \cup {None} : Goes(c, at, e)
    BY <1>11 DEF LeavingLooks, LeavingUnregisters, CountsIInv, TypeOK
  <2>3. writers' \in [Extensions -> Connections \cup {None}]
    BY <1>11 DEF LeavingLooks, LeavingUnregisters, CountsIInv, TypeOK
  <2>4. /\ task[c].at \notin {"new", "handshake"} /\ UNCHANGED <<listener, pending_handshakes>>
        /\ registered' \subseteq Extensions /\ connections' = connections
        /\ \A d \in DOMAIN connections : connections[d] \in Extensions \cup {None}
    BY <1>11 DEF LeavingLooks, LeavingUnregisters, CountsIInv, TypeOK
  <2>5. /\ DOMAIN connections' = DOMAIN connections \ {c}
        /\ \A d \in DOMAIN connections' : connections'[d] \in Extensions \cup {None}
    BY <2>1, <2>4
  <2>6. at \in TaskSteps /\ at \notin InTable /\ at \notin {"new", "handshake"}
    BY <2>2
  <2>7. DOMAIN connections' = IF at \in InTable THEN DOMAIN connections \cup {c}
                              ELSE DOMAIN connections \ {c}
    BY <2>5, <2>6
  <2> HIDE DEF TaskSteps, InTable
  <2> QED
    BY <2>2, <2>3, <2>4, <2>5, <2>6, <2>7, TaskMoves
<1>12. ASSUME NEW e \in Extensions, Lapses(e) PROVE CountsIInv'
  BY <1>12 DEF Lapses, CountsIInv, TypeOK, CountsExact, Listening
<1> QED
  BY <1>1, <1>2, <1>3, <1>4, <1>5, <1>6, <1>7, <1>8, <1>9, <1>10, <1>11, <1>12
  DEF Next, ListenerStep, TaskStep

(* The counts the accept loop relies on are exact, for every cap and any   *)
(* number of connections, however they fail.                               *)
THEOREM CountsInvariant == Spec => []CountsIInv
<1> QED
  BY CountsInit, CountsStep, PTL DEF Spec

THEOREM TypeCorrect == Spec => []TypeOK
<1>1. CountsIInv => TypeOK
  BY DEF CountsIInv
<1> QED
  BY <1>1, CountsInvariant, PTL

THEOREM ExactCounts == Spec => []CountsExact
<1>1. CountsIInv => CountsExact
  BY DEF CountsIInv
<1> QED
  BY <1>1, CountsInvariant, PTL
------------------------------------------------------------------------------
(* An extension with a connection in the table, or a task not done with it.*)
Held(e) == HasConnection(e) \/ ~Quiet(e)

LEMMA SinksHeld ==
  ASSUME NoLeftover,
         \A e \in Extensions : writers'[e] # None =>
           Held(e)' \/ (writers[e] # None /\ (Held(e) => Held(e)'))
  PROVE  NoLeftover'
  BY DEF NoLeftover, Held

LEMMA OwnInit == Init => OwnAccounts /\ NoLeftover
  BY DEF Init, OwnAccounts, NoLeftover, InTable

(* The task of c moves, and takes its entry of the table with it.          *)
LEMMA HeldByOthers ==
  ASSUME CountsIInv, NEW c \in Connections, NEW e \in Extensions, Held(e),
         \A d \in Connections \ {c} : task'[d] = task[d],
         \A d \in DOMAIN connections \ {c} :
           d \in DOMAIN connections' /\ connections'[d] = connections[d],
         \/ task'[c].ext = e
         \/ c \in DOMAIN connections' /\ connections'[c] = e
         \/ ~Associated(c, e) /\ task[c].ext # e
  PROVE  Held(e)'
  BY DEF Held, HasConnection, Quiet, Associated, CountsIInv, TypeOK

(* What a task does with an extension keeps the table and the sinks about  *)
(* the account of its connection.                                          *)
LEMMA OwnStep ==
  ASSUME OneAccount, CountsIInv, CountsIInv', OwnAccounts, NoLeftover, [Next]_vars
  PROVE  OwnAccounts' /\ NoLeftover'
<1> USE NoneAssumption DEF InTable
<1>0. /\ task \in [Connections -> [at: TaskSteps, ext: Extensions \cup {None}]]
      /\ DOMAIN connections = Served /\ DOMAIN connections' = Served'
      /\ writers \in [Extensions -> Connections \cup {None}]
      /\ AccountsOf \in [Connections -> SUBSET Extensions]
  BY AccountsAssumption DEF CountsIInv, TypeOK, CountsExact, Served
<1>1. CASE UNCHANGED vars
  BY <1>1 DEF vars, OwnAccounts, NoLeftover, Quiet, HasConnection
<1>2. ASSUME NEW c \in Connections, AcceptReads(c) PROVE OwnAccounts' /\ NoLeftover'
  BY <1>2 DEF AcceptReads, OwnAccounts, NoLeftover, Quiet, HasConnection
<1>3. CASE ListenerStep
  <2>1. listener.conn \in Connections /\ task[listener.conn].at = "new"
    BY <1>3 DEF ListenerStep, AcceptRefuses, AcceptSpawns, CountsIInv, TypeOK
  <2>2. PICK at \in {"gone", "handshake"} : Goes(listener.conn, at, None)
    BY <1>3 DEF ListenerStep, AcceptRefuses, AcceptSpawns
  <2>3. /\ task'[listener.conn].at = at /\ task'[listener.conn].ext = None
        /\ \A d \in Connections \ {listener.conn} : task'[d] = task[d]
    BY <2>1, <2>2, <1>0, TaskEntry DEF TaskSteps
  <2>4. connections' = connections /\ writers' = writers
    BY <1>3 DEF ListenerStep, AcceptRefuses, AcceptSpawns
  <2>5. OwnAccounts'
    BY <2>1, <2>3, <2>4 DEF OwnAccounts
  <2>6. task[listener.conn].ext = None
    BY <2>1 DEF OwnAccounts
  <2>7. NoLeftover'
    BY <2>1, <2>3, <2>4, <2>6 DEF NoLeftover, Quiet, HasConnection
  <2> QED
    BY <2>5, <2>7
<1>4. ASSUME NEW c \in Connections, HandshakeEnds(c) PROVE OwnAccounts' /\ NoLeftover'
  <2>1. PICK at \in {"shaken", "gone"} : Goes(c, at, None)
    BY <1>4 DEF HandshakeEnds
  <2>2. /\ task'[c].at = at /\ task'[c].ext = None
        /\ \A d \in Connections \ {c} : task'[d] = task[d]
    BY <2>1, <1>0, TaskEntry DEF TaskSteps
  <2>3. connections' = connections /\ writers' = writers /\ task[c].ext = None
    BY <1>4 DEF HandshakeEnds, OwnAccounts
  <2>4. OwnAccounts'
    BY <2>2, <2>3 DEF OwnAccounts
  <2>5. NoLeftover'
    BY <2>2, <2>3 DEF NoLeftover, Quiet, HasConnection
  <2> QED
    BY <2>4, <2>5
<1>5. ASSUME NEW c \in Connections, register_connection(c) PROVE OwnAccounts' /\ NoLeftover'
  <2>1. /\ task'[c].at = "open" /\ task'[c].ext = None
        /\ \A d \in Connections \ {c} : task'[d] = task[d]
    BY <1>5, <1>0, TaskEntry DEF TaskSteps, register_connection
  <2>2. /\ c \notin DOMAIN connections /\ task[c].ext = None /\ writers' = writers
        /\ connections' = [d \in DOMAIN connections \cup {c} |->
                             IF d = c THEN None ELSE connections[d]]
    BY <1>5, <1>0 DEF register_connection, OwnAccounts, Served
  <2>3. OwnAccounts'
    BY <1>0, <2>1, <2>2 DEF OwnAccounts, Served
  <2>4. \A e \in Extensions : Held(e) => Held(e)'
    BY <2>1, <2>2, HeldByOthers DEF Associated
  <2> QED
    BY <2>2, <2>3, <2>4, SinksHeld
<1>6. ASSUME NEW c \in Connections, NEW e \in Extensions, Registers(c, e) \/ Unregisters(c, e)
      PROVE OwnAccounts' /\ NoLeftover'
  <2>1. PICK at \in {"accepted", "withdrawn"} : Goes(c, at, e)
    BY <1>6 DEF Registers, Unregisters
  <2>2. /\ task'[c].at = at /\ task'[c].ext = e
        /\ \A d \in Connections \ {c} : task'[d] = task[d]
    BY <2>1, <1>0, TaskEntry DEF TaskSteps
  <2>3. connections' = connections /\ writers' = writers /\ task[c].ext = None /\ e \in AccountsOf[c]
    BY <1>6 DEF Registers, Unregisters, OwnAccounts
  <2>4. OwnAccounts'
    BY <2>2, <2>3 DEF OwnAccounts
  <2>5. NoLeftover'
    BY <2>2, <2>3 DEF NoLeftover, Quiet, HasConnection
  <2> QED
    BY <2>4, <2>5
<1>7. ASSUME NEW c \in Connections, set_connection_extension(c) PROVE OwnAccounts' /\ NoLeftover'
  <2>1. /\ task'[c].at = "registered" /\ task'[c].ext = task[c].ext
        /\ \A d \in Connections \ {c} : task'[d] = task[d]
    BY <1>7, <1>0, TaskEntry DEF TaskSteps, set_connection_extension
  <2>2. /\ c \in DOMAIN connections /\ writers' = writers
        /\ connections' = [connections EXCEPT ![c] = task[c].ext]
    BY <1>7, <1>0 DEF set_connection_extension, Served
  <2>3. OwnAccounts'
    BY <1>7, <2>1, <2>2 DEF OwnAccounts, set_connection_extension
  <2>4. ASSUME NEW e \in Extensions, Held(e), writers[e] # None PROVE Held(e)'
    <3>1. CASE task[c].ext = e
      BY <3>1, <2>1, <2>2 DEF Held, HasConnection, Quiet
    <3>2. CASE task[c].ext # e /\ ~Associated(c, e)
      BY <3>2, <2>1, <2>2, <2>4, HeldByOthers
    <3>3. CASE task[c].ext # e /\ Associated(c, e)
      BY <3>3, <1>7, <2>1, <2>2 DEF set_connection_extension, Associated, OwnAccounts, OneAccount
    <3> QED
      BY <3>1, <3>2, <3>3
  <2> QED
    BY <2>2, <2>3, <2>4, SinksHeld
<1>8. ASSUME NEW c \in Connections, register_writer(c) PROVE OwnAccounts' /\ NoLeftover'
  <2>1. /\ task'[c].at = "open" /\ task'[c].ext = None
        /\ \A d \in Connections \ {c} : task'[d] = task[d]
    BY <1>8, <1>0, TaskEntry DEF TaskSteps, register_writer
  <2>2. /\ c \in DOMAIN connections /\ connections' = connections
        /\ connections[c] = task[c].ext
        /\ writers' = [writers EXCEPT ![task[c].ext] = c]
    BY <1>8, <1>0 DEF register_writer, Served, OwnAccounts
  <2>3. OwnAccounts'
    BY <2>1, <2>2 DEF OwnAccounts
  <2>4. ASSUME NEW e \in Extensions, Held(e) PROVE Held(e)'
    <3>1. CASE task[c].ext = e
      BY <3>1, <2>2 DEF Held, HasConnection
    <3>2. CASE task[c].ext # e
      BY <3>2, <2>1, <2>2, <2>4, HeldByOthers DEF Associated
    <3> QED
      BY <3>1, <3>2
  <2>5. ASSUME NEW e \in Extensions, writers'[e] # writers[e] PROVE Held(e)'
    <3>1. task[c].ext = e
      BY <2>2, <2>5, <1>0
    <3> QED
      BY <3>1, <2>2 DEF Held, HasConnection
  <2> QED
    BY <2>3, <2>4, <2>5, SinksHeld
<1>9. ASSUME NEW c \in Connections, clear_connection_extension(c) PROVE OwnAccounts' /\ NoLeftover'
  <2>1. /\ task'[c].at = "unregistered" /\ task'[c].ext = task[c].ext
        /\ \A d \in Connections \ {c} : task'[d] = task[d]
    BY <1>9, <1>0, TaskEntry DEF TaskSteps, clear_connection_extension
  <2>2. /\ c \in DOMAIN connections /\ writers' = writers
        /\ connections' = [connections EXCEPT ![c] = None]
    BY <1>9, <1>0 DEF clear_connection_extension, Served
  <2>3. OwnAccounts'
    BY <1>9, <2>1, <2>2 DEF OwnAccounts, clear_connection_extension
  <2>4. ASSUME NEW e \in Extensions, Held(e) PROVE Held(e)'
    <3>1. CASE task[c].ext = e
      BY <3>1, <2>1, <2>2 DEF Held, HasConnection, Quiet
    <3>2. CASE task[c].ext # e /\ ~Associated(c, e)
      BY <3>2, <2>1, <2>2, <2>4, HeldByOthers
    <3>3. CASE task[c].ext # e /\ Associated(c, e)
      BY <3>3, <1>9, <2>1, <2>2 DEF clear_connection_extension, Associated, OwnAccounts, OneAccount
    <3> QED
      BY <3>1, <3>2, <3>3
  <2> QED
    BY <2>2, <2>3, <2>4, SinksHeld
<1>10. ASSUME NEW c \in Connections, unregister_writer(c) \/ LeavingUnregisters(c)
       PROVE OwnAccounts' /\ NoLeftover'
  <2>1. PICK at \in {"open", "gone"} : Goes(c, at, None)
    BY <1>10 DEF unregister_writer, LeavingUnregisters
  <2>2. /\ task'[c].at = at /\ task'[c].ext = None
        /\ \A d \in Connections \ {c} : task'[d] = task[d]
    BY <2>1, <1>0, TaskEntry DEF TaskSteps
  <2>3. connections' = connections /\ writers' = [writers EXCEPT ![task[c].ext] = None]
    BY <1>10 DEF unregister_writer, LeavingUnregisters
  <2>4. OwnAccounts'
    BY <2>2, <2>3 DEF OwnAccounts
  <2>5. ASSUME NEW e \in Extensions, Held(e), writers'[e] # None PROVE Held(e)' /\ writers[e] # None
    <3>1. task[c].ext # e /\ writers[e] # None
      BY <2>3, <2>5, <1>0
    <3>2. CASE Associated(c, e)
      BY <3>1, <3>2, <2>3 DEF Associated, Held, HasConnection
    <3>3. CASE ~Associated(c, e)
      BY <3>1, <3>3, <2>2, <2>3, <2>5, HeldByOthers
    <3> QED
      BY <3>1, <3>2, <3>3
  <2>6. \A e \in Extensions : writers'[e] # None => writers[e] # None
    BY <2>3, <1>0
  <2> QED
    BY <2>4, <2>5, <2>6, SinksHeld
<1>11. ASSUME NEW c \in Connections, remove_connection(c) PROVE OwnAccounts' /\ NoLeftover'
  <2>1. /\ c \in DOMAIN connections /\ writers' = writers /\ task[c].ext = None
        /\ connections' = [d \in DOMAIN connections \ {c} |-> connections[d]]
        /\ connections[c] \in AccountsOf[c] \cup {None}
    BY <1>11, <1>0 DEF remove_connection, Served, OwnAccounts
  <2> DEFINE at == IF connections[c] = None THEN "gone" ELSE "leaving"
  <2>2. Goes(c, at, connections[c])
    BY <1>11 DEF remove_connection
  <2>3. /\ task'[c].at = at /\ task'[c].ext = connections[c]
        /\ \A d \in Connections \ {c} : task'[d] = task[d]
    BY <2>1, <2>2, <1>0, TaskEntry DEF TaskSteps
  <2>4. OwnAccounts'
    BY <1>0, <2>1, <2>3 DEF OwnAccounts, Served
  <2>5. ASSUME NEW e \in Extensions, Held(e) PROVE Held(e)'
    <3>1. CASE connections[c] = e
      BY <3>1, <2>3 DEF Held, Quiet
    <3>2. CASE connections[c] # e
      BY <3>2, <2>1, <2>3, <2>5, HeldByOthers DEF Associated
    <3> QED
      BY <3>1, <3>2
  <2> QED
    BY <2>1, <2>4, <2>5, SinksHeld
<1>12. ASSUME NEW c \in Connections, LeavingLooks(c) PROVE OwnAccounts' /\ NoLeftover'
  <2>1. /\ connections' = connections /\ writers' = writers
        /\ c \notin DOMAIN connections
    BY <1>12, <1>0 DEF LeavingLooks, Served
  <2>2. CASE HasConnection(task[c].ext) /\ Goes(c, "gone", None)
    <3>1. /\ task'[c].at = "gone" /\ task'[c].ext = None
          /\ \A d \in Connections \ {c} : task'[d] = task[d]
      BY <2>2, <1>0, TaskEntry DEF TaskSteps
    <3>2. OwnAccounts'
      BY <2>1, <3>1 DEF OwnAccounts
    <3>3. ASSUME NEW e \in Extensions, Held(e) PROVE Held(e)'
      <4>1. CASE task[c].ext = e
        BY <4>1, <2>1, <2>2 DEF Held, HasConnection
      <4>2. CASE task[c].ext # e
        BY <4>2, <2>1, <3>1, <3>3, HeldByOthers DEF Associated
      <4> QED
        BY <4>1, <4>2
    <3> QED
      BY <2>1, <3>2, <3>3, SinksHeld
  <2>3. CASE Goes(c, "last", task[c].ext)
    <3>1. /\ task'[c].at = "last" /\ task'[c].ext = task[c].ext
          /\ \A d \in Connections \ {c} : task'[d] = task[d]
      BY <2>3, <1>0, TaskEntry DEF TaskSteps
    <3>2. OwnAccounts'
      BY <1>12, <2>1, <3>1 DEF OwnAccounts, LeavingLooks
    <3>3. NoLeftover'
      BY <2>1, <3>1 DEF NoLeftover, Quiet, HasConnection
    <3> QED
      BY <3>2, <3>3
  <2> QED
    BY <1>12, <2>2, <2>3 DEF LeavingLooks
<1>13. ASSUME NEW e \in Extensions, Lapses(e) PROVE OwnAccounts' /\ NoLeftover'
  BY <1>13 DEF Lapses, OwnAccounts, NoLeftover, Quiet, HasConnection
<1> QED
  BY <1>1, <1>2, <1>3, <1>4, <1>5, <1>6, <1>7, <1>8, <1>9, <1>10, <1>11, <1>12, <1>13
  DEF Next, TaskStep

(* The inductive invariant holds for any number of connections of clients  *)
(* that have one account each.                                             *)
THEOREM Invariant == OneAccount /\ Spec => []IInv
<1> SUFFICES ASSUME OneAccount PROVE Spec => []IInv
  OBVIOUS
<1>1. Init => IInv
  BY CountsInit, OwnInit DEF IInv
<1>2. IInv /\ [Next]_vars => IInv'
  BY CountsStep, OwnStep DEF IInv
<1> QED
  BY <1>1, <1>2, PTL DEF Spec

(* No sink outlives the last connection of its extension.                  *)
THEOREM NoSinkLeft == OneAccount /\ Spec => []NoLeftover
<1>1. IInv => NoLeftover
  BY DEF IInv
<1> QED
  BY <1>1, Invariant, PTL
==============================================================================
