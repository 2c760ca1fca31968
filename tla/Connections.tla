------------------------------ MODULE Connections ------------------------------
(***************************************************************************)
(* The TLS connections of the server (src/sip/server.rs) and the sinks     *)
(* extensions are reached through (connection_writers, src/sip/router.rs). *)
(*                                                                         *)
(* The accept loop counts what is open and spawns a task for each          *)
(* connection; the task runs the handshake, takes messages one at a time   *)
(* and cleans up when the connection ends.  Each lock or atomic operation  *)
(* is an action.  A connection stands for its peer address: TCP does not   *)
(* give it to another one while the first is open.                         *)
(*                                                                         *)
(* Of the messages only REGISTERs that were answered 200 are modelled;     *)
(* what leads to the answer is in module Registrar.                        *)
(***************************************************************************)
EXTENDS Naturals, FiniteSets

CONSTANTS
  Connections,      \* TCP connections clients make, each once
  Extensions,
  AccountsOf,       \* AccountsOf[c]: the extensions the client of c registers
  Unregistering,    \* the connections whose client unregisters, too
  MaxConnections    \* MAX_CONNECTIONS

ASSUME AccountsAssumption ==
  /\ AccountsOf \in [Connections -> SUBSET Extensions]
  /\ Unregistering \subseteq Connections
ASSUME MaxAssumption == MaxConnections \in Nat \ {0}
ASSUME FiniteAssumption == IsFiniteSet(Connections)

None == "none"
ASSUME NoneAssumption == None \notin Connections \cup Extensions

VARIABLES
  listener,             \* the accept loop
  pending_handshakes,
  connections,          \* the extension of each connection in the table
  registered,           \* the extensions the registrar finds
  writers,              \* connection_writers: where each extension is reached
  task                  \* where the task of each connection is

vars == <<listener, pending_handshakes, connections, registered, writers, task>>

Listening == [at |-> "accept"]

Init ==
  /\ listener = Listening
  /\ pending_handshakes = 0
  /\ connections = [c \in {} |-> None]
  /\ registered = {}
  /\ writers = [e \in Extensions |-> None]
  /\ task = [c \in Connections |-> [at |-> "new", ext |-> None]]

Associated(c, e) == c \in DOMAIN connections /\ connections[c] = e

(* has_connection_for_extension.                                           *)
HasConnection(e) == \E c \in DOMAIN connections : connections[c] = e

Goes(c, at, e) == task' = [task EXCEPT ![c] = [at |-> at, ext |-> e]]
------------------------------------------------------------------------------
(* The accept loop reads the size of the table and then the counter.       *)

AcceptReads(c) ==
  /\ listener = Listening /\ task[c].at = "new"
  /\ listener' = [at |-> "check", conn |-> c, established |-> Cardinality(DOMAIN connections)]
  /\ UNCHANGED <<pending_handshakes, connections, registered, writers, task>>

(* Variant: one more is let in.                                            *)
AtCapacity_late == listener.established + pending_handshakes > MaxConnections

AtCapacity == listener.established + pending_handshakes >= MaxConnections

AcceptRefuses ==
  /\ listener # Listening /\ AtCapacity
  /\ Goes(listener.conn, "gone", None)
  /\ listener' = Listening
  /\ UNCHANGED <<pending_handshakes, connections, registered, writers>>

AcceptSpawns ==
  /\ listener # Listening /\ ~AtCapacity
  /\ pending_handshakes' = pending_handshakes + 1
  /\ Goes(listener.conn, "handshake", None)
  /\ listener' = Listening
  /\ UNCHANGED <<connections, registered, writers>>
------------------------------------------------------------------------------
(* The task of a connection.                                               *)

(* Variant: a handshake that fails or times out is not counted out.        *)
HandshakeEnds_uncounted(c) ==
  /\ task[c].at = "handshake"
  /\ \/ Goes(c, "shaken", None) /\ pending_handshakes' = pending_handshakes - 1
     \/ Goes(c, "gone", None) /\ UNCHANGED pending_handshakes
  /\ UNCHANGED <<listener, connections, registered, writers>>

(* The handshake succeeds, fails or times out, and is counted out first.   *)
HandshakeEnds(c) ==
  /\ task[c].at = "handshake"
  /\ pending_handshakes' = pending_handshakes - 1
  /\ Goes(c, "shaken", None) \/ Goes(c, "gone", None)
  /\ UNCHANGED <<listener, connections, registered, writers>>

register_connection(c) ==
  /\ task[c].at = "shaken"
  /\ connections' = [d \in DOMAIN connections \cup {c} |->
                       IF d = c THEN None ELSE connections[d]]
  /\ Goes(c, "open", None)
  /\ UNCHANGED <<listener, pending_handshakes, registered, writers>>

(* The registrar accepts a REGISTER; then the answer is acted upon.        *)
Registers(c, e) ==
  /\ task[c].at = "open" /\ e \in AccountsOf[c]
  /\ registered' = registered \cup {e}
  /\ Goes(c, "accepted", e)
  /\ UNCHANGED <<listener, pending_handshakes, connections, writers>>

set_connection_extension(c) ==
  /\ task[c].at = "accepted"
  /\ connections' = [connections EXCEPT ![c] = task[c].ext]
  /\ Goes(c, "registered", task[c].ext)
  /\ UNCHANGED <<listener, pending_handshakes, registered, writers>>

(* Variant: a sink that is already there is left in place.                 *)
register_writer_if_none(c) ==
  /\ task[c].at = "registered"
  /\ writers' = [writers EXCEPT ![task[c].ext] = IF @ = None THEN c ELSE @]
  /\ Goes(c, "open", None)
  /\ UNCHANGED <<listener, pending_handshakes, connections, registered>>

register_writer(c) ==
  /\ task[c].at = "registered"
  /\ writers' = [writers EXCEPT ![task[c].ext] = c]
  /\ Goes(c, "open", None)
  /\ UNCHANGED <<listener, pending_handshakes, connections, registered>>

(* It accepts one with Expires 0.                                          *)
Unregisters(c, e) ==
  /\ task[c].at = "open" /\ e \in AccountsOf[c] /\ c \in Unregistering
  /\ registered' = registered \ {e}
  /\ Goes(c, "withdrawn", e)
  /\ UNCHANGED <<listener, pending_handshakes, connections, writers>>

(* Variant: the sink stays.                                                *)
clear_connection_extension_only(c) ==
  /\ task[c].at = "withdrawn"
  /\ connections' = [connections EXCEPT ![c] = None]
  /\ Goes(c, "open", None)
  /\ UNCHANGED <<listener, pending_handshakes, registered, writers>>

clear_connection_extension(c) ==
  /\ task[c].at = "withdrawn"
  /\ connections' = [connections EXCEPT ![c] = None]
  /\ Goes(c, "unregistered", task[c].ext)
  /\ UNCHANGED <<listener, pending_handshakes, registered, writers>>

unregister_writer(c) ==
  /\ task[c].at = "unregistered"
  /\ writers' = [writers EXCEPT ![task[c].ext] = None]
  /\ Goes(c, "open", None)
  /\ UNCHANGED <<listener, pending_handshakes, connections, registered>>

(* The client closes, is idle for too long or sends something malformed.   *)
remove_connection(c) ==
  /\ task[c].at = "open"
  /\ connections' = [d \in DOMAIN connections \ {c} |-> connections[d]]
  /\ IF connections[c] = None THEN Goes(c, "gone", None) ELSE Goes(c, "leaving", connections[c])
  /\ UNCHANGED <<listener, pending_handshakes, registered, writers>>

LeavingLooks(c) ==
  /\ task[c].at = "leaving"
  /\ IF HasConnection(task[c].ext) THEN Goes(c, "gone", None)
     ELSE Goes(c, "last", task[c].ext)
  /\ UNCHANGED <<listener, pending_handshakes, connections, registered, writers>>

LeavingUnregisters(c) ==
  /\ task[c].at = "last"
  /\ writers' = [writers EXCEPT ![task[c].ext] = None]
  /\ Goes(c, "gone", None)
  /\ UNCHANGED <<listener, pending_handshakes, connections, registered>>

(* A registration expires.                                                 *)
Lapses(e) ==
  /\ e \in registered
  /\ registered' = registered \ {e}
  /\ UNCHANGED <<listener, pending_handshakes, connections, writers, task>>
------------------------------------------------------------------------------
(* Steps a task takes by itself, once it is where it is.                   *)
TaskStep(c) ==
  \/ HandshakeEnds(c) \/ register_connection(c)
  \/ set_connection_extension(c) \/ register_writer(c)
  \/ clear_connection_extension(c) \/ unregister_writer(c)
  \/ LeavingLooks(c) \/ LeavingUnregisters(c)

ListenerStep == AcceptRefuses \/ AcceptSpawns

Next ==
  \/ ListenerStep
  \/ \E c \in Connections :
       \/ AcceptReads(c) \/ TaskStep(c) \/ remove_connection(c)
       \/ \E e \in Extensions : Registers(c, e) \/ Unregisters(c, e)
  \/ \E e \in Extensions : Lapses(e)

Spec == Init /\ [][Next]_vars

(* Tasks that are not waiting for the client go on, the handshake within   *)
(* HANDSHAKE_TIMEOUT_SECS.  A client refreshes the registration it has.    *)
Refresh(c) == \E e \in Extensions : Associated(c, e) /\ Registers(c, e)

FairSpec ==
  /\ Spec
  /\ WF_vars(ListenerStep)
  /\ \A c \in Connections : WF_vars(TaskStep(c)) /\ WF_vars(Refresh(c))
------------------------------------------------------------------------------
InTable == {"open", "accepted", "registered", "withdrawn", "unregistered"}
TaskSteps == {"new", "handshake", "shaken", "leaving", "last", "gone"} \cup InTable

(* Type invariant.  The handshakes under way alone never exceed the cap.   *)
TypeOK ==
  /\ listener \in {Listening} \cup
       [at: {"check"}, conn: Connections, established: 0..Cardinality(Connections)]
  /\ pending_handshakes \in 0..MaxConnections
  /\ DOMAIN connections \subseteq Connections
  /\ \A c \in DOMAIN connections : connections[c] \in Extensions \cup {None}
  /\ registered \subseteq Extensions
  /\ writers \in [Extensions -> Connections \cup {None}]
  /\ task \in [Connections -> [at: TaskSteps, ext: Extensions \cup {None}]]

(* What the accept loop counts is what there is: pending_handshakes is the *)
(* number of handshakes under way, so none that fails, is timed out or     *)
(* turns into a connection uses up capacity for good; and the table holds  *)
(* the connections that are served.                                        *)
CountsExact ==
  /\ pending_handshakes = Cardinality({c \in Connections : task[c].at = "handshake"})
  /\ DOMAIN connections = {c \in Connections : task[c].at \in InTable}

(* The tasks in the middle of changing where e is reached.                 *)
Quiet(e) == \A c \in Connections : task[c].ext # e

(* When the last connection of an extension has ended or unregistered it,  *)
(* whatever the order in which several of them ended, its sink is gone:    *)
(* callers get 404 or 480 and messages are kept (server.rs:384-391).       *)
NoLeftover ==
  \A e \in Extensions : Quiet(e) /\ ~HasConnection(e) => writers[e] = None

(* Why the counts stay exact: the connection the listener is about to let  *)
(* in or refuse has no task yet.                                           *)
CountsIInv ==
  /\ TypeOK /\ CountsExact
  /\ listener # Listening => task[listener.conn].at = "new"

(* Why no sink is left: with one account per connection, whatever a task   *)
(* writes into the table or is about to write into the sinks is about that *)
(* account, and a sink is written while the table says the same.           *)
OneAccount == \A c \in Connections : \A e, f \in AccountsOf[c] : e = f

OwnAccounts ==
  /\ \A c \in DOMAIN connections : connections[c] \in AccountsOf[c] \cup {None}
  /\ \A c \in Connections :
       /\ task[c].ext \in AccountsOf[c] \cup {None}
       /\ task[c].ext # None <=> task[c].at \in (InTable \ {"open"}) \cup {"leaving", "last"}
       /\ task[c].at = "registered" => connections[c] = task[c].ext

IInv == CountsIInv /\ OwnAccounts /\ NoLeftover

(* A registered extension with a connection is reached through one that is *)
(* open (router.rs:150-153; server.rs:104 and 388 keep the sink because    *)
(* another connection is there to use it).                                 *)
Alive(w) == w # None /\ task[w].at \in InTable

ReachedWhereOpen ==
  \A e \in registered : Quiet(e) /\ HasConnection(e) => Alive(writers[e])

(* What an extension has instead: while the client of an open connection   *)
(* refreshes its registration, the extension is reached again and again.   *)
Heals ==
  \A c \in Connections, e \in Extensions :
    []<>(~Associated(c, e) \/ Alive(writers[e]))
==============================================================================
