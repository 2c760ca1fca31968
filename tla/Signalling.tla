------------------------------ MODULE Signalling ------------------------------
(***************************************************************************)
(* How messages travel (handle_connection, run_udp_listener and            *)
(* process_sip_message of src/sip/server.rs, frame_sip_message of          *)
(* src/sip/parser.rs, ConnectionSink::send of src/sip/transport.rs).       *)
(*                                                                         *)
(* The task of a TLS connection reads bytes, cuts messages out of them and *)
(* handles one at a time; what it sends, to its own client or to another,  *)
(* goes into the bounded channel of that client's connection, from which   *)
(* a second task writes.  A send to a full channel waits.                  *)
(*                                                                         *)
(* Bytes come in symbols: the start line and headers of a message, or a    *)
(* CRLF.  Each symbol ends a line, so the end of the headers is a CRLF     *)
(* that follows any symbol, and a read that stops inside a symbol frames   *)
(* like one that stops before it.                                          *)
(***************************************************************************)
EXTENDS Integers, Sequences, FiniteSetsExt, Functions

CONSTANTS
  Clients,        \* TLS connections, each of one client
  Scripts,        \* Scripts[c]: what the client of c may say in its time
  Leaving,        \* clients that may go away in the middle
  ChannelSize,    \* the 64 of mpsc::channel
  BufferCap,      \* the 65536 after which a connection is cut
  ReadSize,       \* the 8192 of read_buf
  Backlog         \* Backlog[c]: messages kept for the client of c

(* A lone CRLF that keeps the connection alive, or a message: what it      *)
(* asks for, the lengths its headers declare, and the length of its body.  *)
Ping == [kind |-> "ping", lengths |-> {}, body |-> 0]

Malformed(m) == Cardinality(m.lengths) > 1 \/ -1 \in m.lengths

Kinds == {"options", "register", "request", "cancel", "oneway", "ping"}

ASSUME SizeAssumption ==
  {ChannelSize, ReadSize, BufferCap} \subseteq Nat \ {0}
ASSUME ClientsAssumption ==
  Leaving \subseteq Clients /\ Backlog \in [Clients -> Nat]
(* A client declares the length of its bodies, unless they are empty, or   *)
(* makes a mistake that can be seen; -1 is a length that does not parse    *)
(* or is too large to add up.                                              *)
Items ==
  {m \in [kind: Kinds, lengths: SUBSET (Nat \cup {-1}), body: Nat] :
     /\ m.kind = "ping" => m = Ping
     /\ m.lengths = {m.body} \/ (m.lengths = {} /\ m.body = 0) \/ Malformed(m)}

ASSUME ScriptsAssumption == Scripts \in [Clients -> SUBSET Seq(Items)]

Udp == "udp"
ASSUME UdpAssumption == Udp \notin Clients

VARIABLES
  said,         \* what each client says in its time
  client,       \* whether it has closed its connection
  wire,         \* what it has said or will say and the server has not read
  buffer,       \* what the server has read and not framed
  reader,       \* the task of each connection: where it is, whom it has to send to
  chan,         \* how much is in the channel of each connection
  writer,       \* the task that writes what is in the channel
  backlog,      \* messages kept for each client
  delivering,   \* of those, the ones a delivery task has still to send
  udp,          \* whom the UDP listener has to send to
  heard         \* history: the messages of each client that were handled

vars == <<said, client, wire, buffer, reader, chan, writer, backlog, delivering, udp, heard>>
------------------------------------------------------------------------------
(* Bytes.                                                                  *)

Crlf == [of |-> 0, lengths |-> {}, crlf |-> TRUE]
Headers(i, lengths) == [of |-> i, lengths |-> lengths, crlf |-> FALSE]

(* The worst a body can hold: something that reads like a message.         *)
Body(n) == [j \in 1..n |-> IF j % 2 = 1 THEN Headers(0, {}) ELSE Crlf]

Bytes(i, m) ==
  IF m = Ping THEN <<Crlf>> ELSE <<Headers(i, m.lengths), Crlf>> \o Body(m.body)

(* The bytes of what is said from an item on.                              *)
BytesFrom(items) ==
  LET from[p \in 1..(Len(items) + 1)] ==
        IF p > Len(items) THEN <<>> ELSE Bytes(p, items[p]) \o from[p + 1]
  IN  from

BytesOf(items) == BytesFrom(items)[1]

(* Where the headers end, if they do: the first CRLF that ends a line      *)
(* after another.                                                          *)
HeaderEnds(buf) == {i \in 2..Len(buf) : buf[i] = Crlf}
HeaderEnd(buf) == Min(HeaderEnds(buf))

DeclaredLengths(buf) == UNION {buf[i].lengths : i \in 1..HeaderEnd(buf)}

Incomplete == [is |-> "incomplete"]
Invalid == [is |-> "invalid"]

(* Variant: of several lengths, the smallest counts.                       *)
frame_sip_message_lenient(buf) ==
  LET lengths == DeclaredLengths(buf)
      total == HeaderEnd(buf) + IF lengths = {} THEN 0 ELSE Min(lengths)
  IN IF HeaderEnds(buf) = {} THEN Incomplete
     ELSE IF -1 \in lengths THEN Invalid
     ELSE IF Len(buf) >= total THEN [is |-> "complete", length |-> total]
     ELSE Incomplete

frame_sip_message(buf) ==
  LET lengths == DeclaredLengths(buf)
      total == HeaderEnd(buf) + IF lengths = {} THEN 0 ELSE CHOOSE l \in lengths : TRUE
  IN IF HeaderEnds(buf) = {} THEN Incomplete
     ELSE IF Cardinality(lengths) > 1 \/ -1 \in lengths THEN Invalid
     ELSE IF Len(buf) >= total THEN [is |-> "complete", length |-> total]
     ELSE Incomplete
------------------------------------------------------------------------------
(* Handling.                                                               *)

(* Whom a message is sent on to or answered, in order.  The other side may *)
(* be any client or unknown; over UDP nothing waits.                       *)
Routes(c, kind) ==
  LET others == {<<>>} \cup {<<d>> : d \in Clients \ {c}}
      own == IF c = Udp THEN <<>> ELSE <<c>>
  IN CASE kind \in {"options", "register"} -> {own}
       [] kind = "request" -> {o \o own : o \in others}      \* INVITE, BYE, MESSAGE
       [] kind = "cancel" -> {o \o own : o \in others} \cup {o \o own \o own : o \in others}
       [] kind = "oneway" -> others                          \* ACK, responses

Idle == [at |-> "read", todo |-> <<>>, registers |-> FALSE]

Init ==
  /\ said \in {f \in [Clients -> UNION {Scripts[c] : c \in Clients}] :
                 \A c \in Clients : f[c] \in Scripts[c]}
  /\ client = [c \in Clients |-> "open"]
  /\ wire = [c \in Clients |-> BytesOf(said[c])]
  /\ buffer = [c \in Clients |-> <<>>]
  /\ reader = [c \in Clients |-> Idle]
  /\ chan = [c \in Clients |-> 0]
  /\ writer = [c \in Clients |-> "waits"]
  /\ backlog = Backlog
  /\ delivering = [c \in Clients |-> 0]
  /\ udp = <<>>
  /\ heard = [c \in Clients |-> <<>>]

Goes(c, at) == reader' = [reader EXCEPT ![c] = [Idle EXCEPT !.at = at]]

(* The end of the connection: the writing task is stopped, and the channel *)
(* is gone with it.                                                        *)
Leaves(c) ==
  /\ Goes(c, "ended")
  /\ writer' = [writer EXCEPT ![c] = "gone"]
  /\ chan' = [chan EXCEPT ![c] = 0]

(* A handler has still to send to these, one after the other, and returns. *)
(* One of a REGISTER that was accepted then spawns the delivery of what is *)
(* kept.                                                                   *)
GoesOn(c, todo, registers) ==
  IF todo # <<>>
  THEN /\ reader' = [reader EXCEPT ![c] = [at |-> "send", todo |-> todo, registers |-> registers]]
       /\ UNCHANGED <<backlog, delivering>>
  ELSE /\ Goes(c, "frame")
       /\ delivering' = [delivering EXCEPT ![c] = @ + IF registers THEN backlog[c] ELSE 0]
       /\ backlog' = [backlog EXCEPT ![c] = IF registers THEN 0 ELSE @]
------------------------------------------------------------------------------
(* Clients.                                                                *)

(* A client goes away in the middle of what it had to say.                 *)
Closes(c) ==
  /\ client[c] = "open" /\ c \in Leaving
  /\ client' = [client EXCEPT ![c] = "gone"]
  /\ \E n \in 0..Len(wire[c]) : wire' = [wire EXCEPT ![c] = SubSeq(@, 1, n)]
  /\ UNCHANGED <<said, buffer, reader, chan, writer, backlog, delivering, udp, heard>>
------------------------------------------------------------------------------
(* The task of a connection.                                               *)

(* Variant: the buffer is measured before messages are taken out of it.    *)
Reads_measured(c) ==
  /\ reader[c].at = "read"
  /\ \E n \in 1..ReadSize :
       /\ n <= Len(wire[c])
       /\ buffer' = [buffer EXCEPT ![c] = @ \o SubSeq(wire[c], 1, n)]
       /\ wire' = [wire EXCEPT ![c] = SubSeq(@, n + 1, Len(@))]
       /\ IF Len(buffer[c]) + n > BufferCap THEN Leaves(c)
          ELSE Goes(c, "frame") /\ UNCHANGED <<chan, writer>>
  /\ UNCHANGED <<said, client, backlog, delivering, udp, heard>>

(* Any part of what is on the way may have arrived.                        *)
Reads(c) ==
  /\ reader[c].at = "read"
  /\ \E n \in 1..ReadSize :
       /\ n <= Len(wire[c])
       /\ buffer' = [buffer EXCEPT ![c] = @ \o SubSeq(wire[c], 1, n)]
       /\ wire' = [wire EXCEPT ![c] = SubSeq(@, n + 1, Len(@))]
  /\ Goes(c, "frame")
  /\ UNCHANGED <<said, client, chan, writer, backlog, delivering, udp, heard>>

(* The client has closed, or said nothing for CONNECTION_IDLE_TIMEOUT_SECS.*)
ReadEnds(c) ==
  /\ reader[c].at = "read" /\ wire[c] = <<>>
  /\ Leaves(c)
  /\ UNCHANGED <<said, client, wire, buffer, backlog, delivering, udp, heard>>

Framed(c) == frame_sip_message(buffer[c])

Drains(c) == buffer' = [buffer EXCEPT ![c] = SubSeq(@, Framed(c).length + 1, Len(@))]

(* A message that is blank, or whose first line is: nobody is told.        *)
Ignores(c) ==
  /\ reader[c].at = "frame" /\ Framed(c).is = "complete"
  /\ buffer[c][1] = Crlf
  /\ Drains(c)
  /\ UNCHANGED <<said, client, wire, reader, chan, writer, backlog, delivering, udp, heard>>

KindOf(c, i) == IF i = 0 THEN "options" ELSE said[c][i].kind

Handles(c) ==
  /\ reader[c].at = "frame" /\ Framed(c).is = "complete"
  /\ buffer[c][1] # Crlf
  /\ Drains(c)
  /\ LET i == buffer[c][1].of
         kind == KindOf(c, i)
     IN /\ heard' = [heard EXCEPT ![c] = Append(@, i)]
        /\ \E todo \in Routes(c, kind), accepted \in BOOLEAN :
             GoesOn(c, todo, accepted /\ kind = "register")
  /\ UNCHANGED <<said, client, wire, chan, writer, udp>>

FramesNothing(c) ==
  /\ reader[c].at = "frame" /\ Framed(c) = Incomplete
  /\ IF Len(buffer[c]) > BufferCap THEN Leaves(c)
     ELSE Goes(c, "read") /\ UNCHANGED <<chan, writer>>
  /\ UNCHANGED <<said, client, wire, buffer, backlog, delivering, udp, heard>>

Refuses(c) ==
  /\ reader[c].at = "frame" /\ Framed(c) = Invalid
  /\ Leaves(c)
  /\ UNCHANGED <<said, client, wire, buffer, backlog, delivering, udp, heard>>

(* Variant: room for one more than there is.                               *)
HasRoom_off_by_one(d) == chan[d] <= ChannelSize

HasRoom(d) == chan[d] < ChannelSize

(* ConnectionSink::send: it waits for room, or finds the channel closed.   *)
Send(d) ==
  \/ writer[d] = "gone" /\ UNCHANGED chan
  \/ writer[d] # "gone" /\ HasRoom(d) /\ chan' = [chan EXCEPT ![d] = @ + 1]

Sends(c) ==
  /\ reader[c].at = "send" /\ reader[c].todo # <<>>
  /\ Send(Head(reader[c].todo))
  /\ GoesOn(c, Tail(reader[c].todo), reader[c].registers)
  /\ UNCHANGED <<said, client, wire, buffer, writer, udp, heard>>
------------------------------------------------------------------------------
(* The writing task.                                                       *)

(* Variant: one task reads and writes in turn.                             *)
Takes_in_turn(c) ==
  /\ writer[c] = "waits" /\ chan[c] > 0
  /\ reader[c].at = "read"
  /\ chan' = [chan EXCEPT ![c] = @ - 1]
  /\ writer' = [writer EXCEPT ![c] = "writes"]
  /\ UNCHANGED <<said, client, wire, buffer, reader, backlog, delivering, udp, heard>>

Takes(c) ==
  /\ writer[c] = "waits" /\ chan[c] > 0
  /\ chan' = [chan EXCEPT ![c] = @ - 1]
  /\ writer' = [writer EXCEPT ![c] = "writes"]
  /\ UNCHANGED <<said, client, wire, buffer, reader, backlog, delivering, udp, heard>>

(* The client reads what is written to it, or is gone.                     *)
Writes(c) ==
  /\ writer[c] = "writes"
  /\ \/ writer' = [writer EXCEPT ![c] = "waits"] /\ UNCHANGED chan
     \/ /\ client[c] = "gone"
        /\ writer' = [writer EXCEPT ![c] = "gone"] /\ chan' = [chan EXCEPT ![c] = 0]
  /\ UNCHANGED <<said, client, wire, buffer, reader, backlog, delivering, udp, heard>>
------------------------------------------------------------------------------
(* Deliveries and the UDP listener.                                        *)

(* One message sent, or the rest put back.                                 *)
Delivers(c) ==
  /\ delivering[c] > 0
  /\ Send(c)
  /\ IF writer[c] = "gone"
     THEN /\ delivering' = [delivering EXCEPT ![c] = 0]
          /\ backlog' = [backlog EXCEPT ![c] = @ + delivering[c]]
     ELSE delivering' = [delivering EXCEPT ![c] = @ - 1] /\ UNCHANGED backlog
  /\ UNCHANGED <<said, client, wire, buffer, reader, writer, udp, heard>>

(* A datagram is a message.  The next is received when this one is handled.*)
Receives ==
  /\ udp = <<>>
  /\ \E kind \in Kinds \ {"ping"} : udp' \in Routes(Udp, kind)
  /\ UNCHANGED <<said, client, wire, buffer, reader, chan, writer, backlog, delivering, heard>>

Forwards ==
  /\ udp # <<>>
  /\ Send(Head(udp))
  /\ udp' = Tail(udp)
  /\ UNCHANGED <<said, client, wire, buffer, reader, writer, backlog, delivering, heard>>
------------------------------------------------------------------------------
ReaderStep(c) ==
  Ignores(c) \/ Handles(c) \/ FramesNothing(c) \/ Refuses(c)

WriterStep(c) == Takes(c) \/ Writes(c)

Next ==
  \/ \E c \in Clients :
       \/ Closes(c) \/ Reads(c) \/ ReadEnds(c) \/ Sends(c) \/ Delivers(c)
       \/ ReaderStep(c) \/ WriterStep(c)
  \/ Receives \/ Forwards

Spec == Init /\ [][Next]_vars

(* Tasks go on where they do not wait for anybody; what a client sends     *)
(* arrives; a client reads what is written to it, or goes away.  Senders   *)
(* that wait for room get it in the order in which they came.              *)
FairSpec ==
  /\ Spec
  /\ \A c \in Clients :
       /\ WF_vars(Reads(c)) /\ WF_vars(ReaderStep(c)) /\ WF_vars(WriterStep(c))
       /\ SF_vars(Sends(c)) /\ SF_vars(Delivers(c))
  /\ SF_vars(Forwards)
------------------------------------------------------------------------------
(* Type invariant.  No channel holds more than it has room for, and no     *)
(* buffer more than the cap and one read.                                  *)
TypeOK ==
  /\ client \in [Clients -> {"open", "gone"}]
  /\ \A c \in Clients :
       /\ Len(buffer[c]) <= BufferCap + ReadSize
       /\ reader[c].at \in {"read", "frame", "send", "ended"}
       /\ Range(reader[c].todo) \subseteq Clients
  /\ chan \in [Clients -> 0..ChannelSize]
  /\ writer \in [Clients -> {"waits", "writes", "gone"}]
  /\ \A c \in Clients : delivering[c] \in Nat /\ backlog[c] + delivering[c] <= Backlog[c]
  /\ Range(udp) \subseteq Clients

(* What a client's words mean, told from the words: a lone CRLF joins the  *)
(* message that follows it, a second one cancels it.  Nothing is meant to  *)
(* be heard from a malformed message on.                                   *)
IsMessage(items, i) == items[i] # Ping

PingsBefore(items, i) ==
  i - 1 - Max({0} \cup {j \in 1..(i - 1) : IsMessage(items, j)})

Lost(items, i) == PingsBefore(items, i) % 2 = 1

Meant(items) ==
  {i \in DOMAIN items : /\ IsMessage(items, i) /\ ~Lost(items, i)
                        /\ \A j \in 1..i : ~Malformed(items[j])}

Increasing(numbers) == \A i, j \in DOMAIN numbers : i < j => numbers[i] < numbers[j]

(* However the bytes of a client arrive, its messages are handled whole,   *)
(* once, in order and with no gap, and nothing else is: no body is ever    *)
(* taken for a request, nothing behind a malformed message is              *)
(* (parser.rs:539).                                                        *)
HeardInOrder ==
  \A c \in Clients :
    /\ Increasing(heard[c])
    /\ Range(heard[c]) \subseteq Meant(said[c])
    /\ \A i \in Meant(said[c]), k \in Range(heard[c]) : i < k => i \in Range(heard[c])

(* The server ends a connection whose client is there only when it has     *)
(* said all, when a message was malformed, or when one alone, with the     *)
(* CRLF before it, is longer than the cap (server.rs:377): many messages   *)
(* at once are no reason.                                                  *)
TooLong(items, i) ==
  IsMessage(items, i) /\ 2 + items[i].body + (PingsBefore(items, i) % 2) > BufferCap

HeardAll(c) == Range(heard[c]) = Meant(said[c])

EndsForCause ==
  \A c \in Clients :
    reader[c].at = "ended" /\ client[c] = "open" =>
      HeardAll(c) \/ \E i \in DOMAIN said[c] : TooLong(said[c], i)

(* While clients read or go away, full channels never hold each other up:  *)
(* every connection gets to hear all its client said, or ends, deliveries  *)
(* end, and the UDP listener gets back to its socket.                      *)
Served(c) ==
  \/ reader[c].at = "ended"
  \/ reader[c].at = "read" /\ (HeardAll(c) \/ client[c] = "gone")

NobodyStuck ==
  []<>(udp = <<>> /\ \A c \in Clients : Served(c) /\ delivering[c] = 0)
==============================================================================
