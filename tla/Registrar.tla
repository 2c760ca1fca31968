------------------------------- MODULE Registrar -------------------------------
(***************************************************************************)
(* Registration of extensions (src/sip/registrar.rs): digest challenges,   *)
(* the nonces they issue, the count of failures of every IP address and    *)
(* the addresses it has blocked, which INVITEs share (src/sip/router.rs).  *)
(*                                                                         *)
(* handle_register has no await, but the tasks of different connections    *)
(* run on several threads: an action is one section under one of the four  *)
(* locks, or what a thread does between two.  The requests of one phone    *)
(* come over one connection, or all through the UDP listener, and are      *)
(* handled one at a time.                                                  *)
(*                                                                         *)
(* A request is reduced to what decides: the extension and the address it  *)
(* comes from, the nonce and nonce count of its credentials (nonce 0: none *)
(* the server can parse), whether it expires at once, and how the checks   *)
(* that touch no state go.                                                 *)
(***************************************************************************)
EXTENDS Integers, Sequences, FiniteSets

CONSTANTS
  Extensions,      \* extensions with a phone
  Ips,             \* source addresses
  IpsOf,           \* IpsOf[e]: the addresses the phone of e sends from
  Misconfigured,   \* phones with a wrong password or a wrong extension
  WithoutQop,      \* phones that answer a challenge without qop
  Callers,         \* phones that place calls
  Handlers,        \* connection tasks
  MaxFailures, WindowSecs, MaxFailedIps, MaxBlockedIps,   \* IpBlockPolicy
  NonceTtl,        \* NONCE_TTL_SECS
  MaxNonces,       \* MAX_ISSUED_NONCES
  Expires,         \* the Expires value of a REGISTER
  MaxRequests,     \* bound: requests the phones make
  MaxFaults,       \* bound: datagrams that are lost or repeated
  MaxRestarts,     \* bound: restarts of the server
  MaxTime          \* bound: the last tick of the clock

ASSUME PhonesAssumption ==
  /\ IpsOf \in [Extensions -> SUBSET Ips]
  /\ Misconfigured \subseteq Extensions /\ WithoutQop \subseteq Extensions
  /\ Callers \subseteq Extensions

ASSUME LimitsAssumption ==
  /\ {MaxFailures, WindowSecs, MaxFailedIps, MaxBlockedIps, NonceTtl, MaxNonces, Expires}
       \subseteq Nat \ {0}
  /\ {MaxRequests, MaxFaults, MaxRestarts, MaxTime} \subseteq Nat

ASSUME FiniteAssumption == IsFiniteSet(Ips)

VARIABLES
  now,             \* the system clock
  registrations,   \* the registration of each extension
  failed_ips,      \* the failures counted for each address, 0 if it has no entry
  blocked_ips,     \* the addresses blocked
  issued_nonces,   \* the entry of each nonce that is known
  request,         \* the request each connection task is handling
  cleaner,         \* the cleanup task
  phone,           \* the nonce each phone holds and the nonce count it last used
  wire,            \* requests with credentials that have been sent
  nNonces, nRequests, nFaults, nRestarts,
  strikes,         \* history: when an address failed, since its last success
  guilty,          \* history: addresses with MaxFailures strikes in one window
  passed,          \* history: the <<nonce, nc>> that validate_nonce let pass
  repassed         \* history: those it let pass more than once

server == <<registrations, failed_ips, blocked_ips, issued_nonces>>
bounds == <<nRequests, nFaults, nRestarts>>
clients == <<phone, wire>>
history == <<strikes, guilty, passed, repassed>>
vars == <<now, server, request, cleaner, clients, nNonces, bounds, history>>

Times == 0..MaxTime
NonceCounts == 0..nRequests

NotRegistered == [expires_at |-> 0]
NoFailures == [count |-> 0, window_start |-> 0]
NotBusy == [at |-> "idle"]
Sleeping == [at |-> "asleep", now |-> 0]

Init ==
  /\ now = 0
  /\ registrations = [e \in Extensions |-> NotRegistered]
  /\ failed_ips = [i \in Ips |-> NoFailures]
  /\ blocked_ips = {}
  /\ issued_nonces = [n \in {} |-> 0]
  /\ request = [h \in Handlers |-> NotBusy]
  /\ cleaner = Sleeping
  /\ phone = [e \in Extensions |-> [nonce |-> 0, nc |-> 0, known |-> FALSE]]
  /\ wire = {}
  /\ nNonces = 0 /\ nRequests = 0 /\ nFaults = 0 /\ nRestarts = 0
  /\ strikes = [i \in Ips |-> <<>>]
  /\ guilty = {} /\ passed = {} /\ repassed = {}

Keep(f, S) == [x \in DOMAIN f \cap S |-> f[x]]

(* lookup, is_registered.                                                  *)
Online(e) == registrations[e].expires_at > now

Step(h, at) == request' = [request EXCEPT ![h].at = at]
Answered(h) == request' = [request EXCEPT ![h] = NotBusy]

(* record_failure comes next, then the answer or a new challenge.          *)
Fails(h, then) == request' = [request EXCEPT ![h].at = "failure", ![h].then = then]
------------------------------------------------------------------------------
(* A request arrives.                                                      *)

(* Serial: no task is busy with a request of this phone.                   *)
Serial(e) == e \notin {request[h].ext : h \in {g \in Handlers : request[g] # NotBusy}}

(* The first section reads blocked_ips; then come the checks of the To     *)
(* header, the range, the transport and the user name ("refused").         *)
Handle(h, r) ==
  request' = [request EXCEPT ![h] =
    IF r.ip \in blocked_ips THEN NotBusy
    ELSE [ext |-> r.ext, ip |-> r.ip, nonce |-> r.nonce, nc |-> r.nc,
          verdict |-> r.verdict, expires |-> r.expires, then |-> "reject",
          at |-> CASE r.verdict = "refused" -> "failure"
                   [] r.verdict = "call"    -> "invite"
                   [] OTHER -> IF r.nonce = 0 THEN "challenge" ELSE "nonce"]]

(* What the checks without state and validate_digest come to for a phone   *)
(* that has its password and extension right, and for one that has not.    *)
Verdicts(e) == IF e \in Misconfigured THEN {"refused", "wrong"} ELSE {"right"}

RegisterArrives(h, e) ==
  /\ request[h] = NotBusy /\ Serial(e) /\ nRequests < MaxRequests
  /\ \E ip \in IpsOf[e], verdict \in Verdicts(e), expires \in {0, Expires} :
       LET r == [ext |-> e, ip |-> ip, nonce |-> phone[e].nonce,
                 nc |-> IF phone[e].nonce = 0 THEN 0 ELSE phone[e].nc + 1,
                 verdict |-> verdict, expires |-> expires]
       IN
       /\ Handle(h, r)
       /\ phone' = [phone EXCEPT ![e].nc = r.nc]
       /\ wire' = IF r.nonce = 0 THEN wire ELSE wire \cup {r}
  /\ nRequests' = nRequests + 1
  /\ UNCHANGED <<now, server, cleaner, nNonces, nFaults, nRestarts, history>>

(* A datagram is repeated, by the network or by the phone.                 *)
RegisterRepeated(h) ==
  /\ request[h] = NotBusy /\ nFaults < MaxFaults
  /\ \E r \in wire : Serial(r.ext) /\ Handle(h, r)
  /\ nFaults' = nFaults + 1
  /\ UNCHANGED <<now, server, cleaner, clients, nNonces, nRequests, nRestarts, history>>

(* handle_invite, up to the checks of who is calling.  A phone places      *)
(* calls once it has been registered.                                      *)
InviteArrives(h, e) ==
  /\ e \in Callers /\ phone[e].known
  /\ request[h] = NotBusy /\ Serial(e) /\ nRequests < MaxRequests
  /\ \E ip \in IpsOf[e] :
       Handle(h, [ext |-> e, ip |-> ip, nonce |-> 0, nc |-> 0, verdict |-> "call",
                  expires |-> 0])
  /\ nRequests' = nRequests + 1
  /\ UNCHANGED <<now, server, cleaner, clients, nNonces, nFaults, nRestarts, history>>

(* Refused and counted: a caller that is not registered, and one that is   *)
(* but whose connection, or over UDP whose address, is not known as its    *)
(* own.  What connections are known as is an input here.                   *)
InviteChecked(h) ==
  /\ request[h].at = "invite"
  /\ Fails(h, "reject") \/ (Online(request[h].ext) /\ Answered(h))
  /\ UNCHANGED <<now, server, cleaner, clients, nNonces, bounds, history>>
------------------------------------------------------------------------------
(* validate_nonce.                                                         *)

NonceAlive(entry, t) == t - entry.issued_at < NonceTtl

NonceKnown(h) ==
  /\ request[h].nonce \in DOMAIN issued_nonces
  /\ issued_nonces[request[h].nonce].ip = request[h].ip

NonceUnknown(h) ==
  /\ request[h].at = "nonce"
  /\ ~NonceKnown(h)
  /\ Fails(h, "challenge")
  /\ UNCHANGED <<now, server, cleaner, clients, nNonces, bounds, history>>

NonceExpired(h) ==
  /\ request[h].at = "nonce"
  /\ NonceKnown(h) /\ ~NonceAlive(issued_nonces[request[h].nonce], now)
  /\ issued_nonces' = Keep(issued_nonces, DOMAIN issued_nonces \ {request[h].nonce})
  /\ Fails(h, "challenge")
  /\ UNCHANGED <<now, registrations, failed_ips, blocked_ips, cleaner, clients, nNonces,
                 bounds, history>>

(* Variant: a nonce count may be used again.                               *)
NcRises_weakly(nc, max_nc) == nc >= max_nc

NcRises(nc, max_nc) == nc > max_nc

ChecksNc(h) == request[h].ext \notin WithoutQop

NonceReplayed(h) ==
  /\ request[h].at = "nonce"
  /\ NonceKnown(h) /\ NonceAlive(issued_nonces[request[h].nonce], now)
  /\ ChecksNc(h)
  /\ ~NcRises(request[h].nc, issued_nonces[request[h].nonce].max_nc)
  /\ Fails(h, "challenge")
  /\ UNCHANGED <<now, server, cleaner, clients, nNonces, bounds, history>>

(* The nonce passes; validate_digest follows and touches no state.         *)
NonceAccepted(h) ==
  LET n == request[h].nonce
      nc == request[h].nc
  IN
  /\ request[h].at = "nonce"
  /\ NonceKnown(h) /\ NonceAlive(issued_nonces[n], now)
  /\ IF ChecksNc(h)
     THEN /\ NcRises(nc, issued_nonces[n].max_nc)
          /\ issued_nonces' = [issued_nonces EXCEPT ![n].max_nc = nc]
          /\ passed' = passed \cup {<<n, nc>>}
          /\ repassed' = IF <<n, nc>> \in passed THEN repassed \cup {<<n, nc>>} ELSE repassed
     ELSE UNCHANGED <<issued_nonces, passed, repassed>>
  /\ IF request[h].verdict = "right" THEN Step(h, "clear") ELSE Fails(h, "reject")
  /\ UNCHANGED <<now, registrations, failed_ips, blocked_ips, cleaner, clients, nNonces,
                 bounds, strikes, guilty>>

(* Variant: the table stays as it is if nothing in it has expired.         *)
MakeRoom_of_dead(nonces) ==
  IF Cardinality(DOMAIN nonces) < MaxNonces THEN nonces
  ELSE Keep(nonces, {n \in DOMAIN nonces : NonceAlive(nonces[n], now)})

(* digest_challenge: a full table is rid of dead entries, and emptied if   *)
(* that frees none.  The answer reaches the phone or is lost.              *)
MakeRoom(nonces) ==
  LET alive == {n \in DOMAIN nonces : NonceAlive(nonces[n], now)} IN
  IF Cardinality(DOMAIN nonces) < MaxNonces THEN nonces
  ELSE IF Cardinality(alive) < MaxNonces THEN Keep(nonces, alive)
  ELSE Keep(nonces, {})

Challenge(h) ==
  LET n == nNonces + 1
      e == request[h].ext
      room == MakeRoom(issued_nonces)
  IN
  /\ request[h].at = "challenge"
  /\ nNonces' = n
  /\ issued_nonces' = [m \in DOMAIN room \cup {n} |->
       IF m = n THEN [issued_at |-> now, ip |-> request[h].ip, max_nc |-> 0] ELSE room[m]]
  /\ \/ phone' = [phone EXCEPT ![e].nonce = n, ![e].nc = 0] /\ UNCHANGED nFaults
     \/ nFaults < MaxFaults /\ nFaults' = nFaults + 1 /\ UNCHANGED phone
  /\ Answered(h)
  /\ UNCHANGED <<now, registrations, failed_ips, blocked_ips, cleaner, wire, nRequests,
                 nRestarts, history>>
------------------------------------------------------------------------------
(* record_failure.                                                         *)

InWindow(entry) == now - entry.window_start < WindowSecs

(* Variant: a count goes on after its window has ended.                    *)
Entry_forever(table, i) ==
  IF table[i].count > 0 THEN table[i] ELSE [count |-> 0, window_start |-> now]

Entry(table, i) ==
  IF table[i].count > 0 /\ InWindow(table[i]) THEN table[i]
  ELSE [count |-> 0, window_start |-> now]

Counted(table) == {i \in Ips : table[i].count > 0}

Pruned(table) ==
  LET kept == {i \in Counted(table) : InWindow(table[i])}
      left == IF Cardinality(kept) < MaxFailedIps THEN kept ELSE {}
  IN IF Cardinality(Counted(table)) < MaxFailedIps THEN table
     ELSE [i \in Ips |-> IF i \in left THEN table[i] ELSE NoFailures]

(* MaxFailures strikes, the last of them now, within one window.           *)
Guilty(times) ==
  /\ Len(times) >= MaxFailures
  /\ times[Len(times)] - times[Len(times) - MaxFailures + 1] < WindowSecs

(* First section.  At the threshold the entry goes and the address is      *)
(* blocked in a section of its own.                                        *)
RecordFailure(h) ==
  LET i == request[h].ip
      table == Pruned(failed_ips)
      count == Entry(table, i).count + 1
      times == Append(strikes[i], now)
  IN
  /\ request[h].at = "failure"
  /\ strikes' = [strikes EXCEPT ![i] = times]
  /\ guilty' = IF Guilty(times) THEN guilty \cup {i} ELSE guilty
  /\ IF count < MaxFailures
     THEN /\ failed_ips' = [table EXCEPT ![i] = [Entry(table, i) EXCEPT !.count = count]]
          /\ IF request[h].then = "challenge" THEN Step(h, "challenge") ELSE Answered(h)
     ELSE /\ failed_ips' = [table EXCEPT ![i] = NoFailures]
          /\ Step(h, "block")
  /\ UNCHANGED <<now, registrations, blocked_ips, issued_nonces, cleaner, clients, nNonces,
                 bounds, passed, repassed>>

(* Second section.  A full table takes no new address.                     *)
Block(h) ==
  /\ request[h].at = "block"
  /\ blocked_ips' = IF Cardinality(blocked_ips) >= MaxBlockedIps THEN blocked_ips
                    ELSE blocked_ips \cup {request[h].ip}
  /\ IF request[h].then = "challenge" THEN Step(h, "challenge") ELSE Answered(h)
  /\ UNCHANGED <<now, registrations, failed_ips, issued_nonces, cleaner, clients, nNonces,
                 bounds, history>>
------------------------------------------------------------------------------
(* The digest is right.                                                    *)

ClearFailures(h) ==
  LET i == request[h].ip IN
  /\ request[h].at = "clear"
  /\ failed_ips' = [failed_ips EXCEPT ![i] = NoFailures]
  /\ strikes' = [strikes EXCEPT ![i] = <<>>]
  /\ Step(h, "register")
  /\ UNCHANGED <<now, registrations, blocked_ips, issued_nonces, cleaner, clients, nNonces,
                 bounds, guilty, passed, repassed>>

(* register, or unregister if the request expires at once.                 *)
Register(h) ==
  LET e == request[h].ext
      expires == request[h].expires
  IN
  /\ request[h].at = "register"
  /\ registrations' = [registrations EXCEPT ![e] =
       IF expires = 0 THEN NotRegistered ELSE [expires_at |-> now + expires]]
  /\ phone' = [phone EXCEPT ![e].known = @ \/ expires # 0]
  /\ Answered(h)
  /\ UNCHANGED <<now, failed_ips, blocked_ips, issued_nonces, cleaner, wire, nNonces,
                 bounds, history>>
------------------------------------------------------------------------------
(* cleanup_expired: the clock is read once, then come two sections.        *)

CleanupWakes ==
  /\ cleaner = Sleeping
  /\ cleaner' = [at |-> "registrations", now |-> now]
  /\ UNCHANGED <<now, server, request, clients, nNonces, bounds, history>>

(* Variant: registrations in their last second go too.                     *)
Lapsed_early(r, t) == r.expires_at <= t + 1

Lapsed(r, t) == r.expires_at <= t

CleanupRegistrations ==
  /\ cleaner.at = "registrations"
  /\ registrations' = [e \in Extensions |->
       IF Lapsed(registrations[e], cleaner.now) THEN NotRegistered ELSE registrations[e]]
  /\ cleaner' = [cleaner EXCEPT !.at = "nonces"]
  /\ UNCHANGED <<now, failed_ips, blocked_ips, issued_nonces, request, clients, nNonces,
                 bounds, history>>

CleanupNonces ==
  /\ cleaner.at = "nonces"
  /\ issued_nonces' = Keep(issued_nonces,
       {n \in DOMAIN issued_nonces : NonceAlive(issued_nonces[n], cleaner.now)})
  /\ cleaner' = Sleeping
  /\ UNCHANGED <<now, registrations, failed_ips, blocked_ips, request, clients, nNonces,
                 bounds, history>>

(* The server restarts.  All its tables are in memory.                     *)
Restart ==
  /\ nRestarts < MaxRestarts
  /\ nRestarts' = nRestarts + 1
  /\ registrations' = [e \in Extensions |-> NotRegistered]
  /\ failed_ips' = [i \in Ips |-> NoFailures]
  /\ blocked_ips' = {}
  /\ issued_nonces' = Keep(issued_nonces, {})
  /\ request' = [h \in Handlers |-> NotBusy]
  /\ cleaner' = Sleeping
  /\ strikes' = [i \in Ips |-> <<>>]
  /\ guilty' = {}
  /\ UNCHANGED <<now, clients, nNonces, nRequests, nFaults, passed, repassed>>

Tick ==
  /\ now < MaxTime
  /\ now' = now + 1
  /\ UNCHANGED <<server, request, cleaner, clients, nNonces, bounds, history>>
------------------------------------------------------------------------------
HandlerStep(h) ==
  \/ InviteChecked(h)
  \/ NonceUnknown(h) \/ NonceExpired(h) \/ NonceReplayed(h) \/ NonceAccepted(h)
  \/ Challenge(h) \/ RecordFailure(h) \/ Block(h) \/ ClearFailures(h) \/ Register(h)

Cleanup == CleanupWakes \/ CleanupRegistrations \/ CleanupNonces

Next ==
  \/ \E h \in Handlers :
       \/ HandlerStep(h)
       \/ RegisterRepeated(h)
       \/ \E e \in Extensions : RegisterArrives(h, e) \/ InviteArrives(h, e)
  \/ Cleanup
  \/ Restart
  \/ Tick

Spec == Init /\ [][Next]_vars
------------------------------------------------------------------------------
(* Type invariant.  The tables keep to their capacities, and a count that  *)
(* has reached the threshold is never left in failed_ips.                  *)
Busy ==
  [at: {"invite", "nonce", "challenge", "failure", "block", "clear", "register"},
   then: {"reject", "challenge"}, ext: Extensions, ip: Ips, nonce: 0..nNonces,
   nc: NonceCounts, verdict: {"refused", "wrong", "right", "call"}, expires: {0, Expires}]

TypeOK ==
  /\ now \in Times
  /\ registrations \in [Extensions -> [expires_at: 0..(MaxTime + Expires)]]
  /\ failed_ips \in [Ips -> [count: 0..(MaxFailures - 1), window_start: Times]]
  /\ Cardinality(Counted(failed_ips)) <= MaxFailedIps
  /\ blocked_ips \subseteq Ips /\ Cardinality(blocked_ips) <= MaxBlockedIps
  /\ DOMAIN issued_nonces \subseteq 1..nNonces
  /\ Cardinality(DOMAIN issued_nonces) <= MaxNonces
  /\ \A n \in DOMAIN issued_nonces :
       issued_nonces[n] \in [issued_at: Times, ip: Ips, max_nc: NonceCounts]
  /\ request \in [Handlers -> Busy \cup {NotBusy}]
  /\ cleaner \in [at: {"asleep", "registrations", "nonces"}, now: Times]
  /\ phone \in [Extensions -> [nonce: 0..nNonces, nc: NonceCounts, known: BOOLEAN]]
  /\ wire \subseteq [ext: Extensions, ip: Ips, nonce: 0..nNonces, nc: NonceCounts,
                     verdict: {"refused", "wrong", "right"}, expires: {0, Expires}]
  /\ nNonces \in Nat
  /\ nRequests \in 0..MaxRequests /\ nFaults \in 0..MaxFaults
  /\ nRestarts \in 0..MaxRestarts
  /\ guilty \subseteq Ips

(* Credentials with qop authenticate one request: a nonce and nonce count  *)
(* that passed validate_nonce never pass again, whatever is repeated,      *)
(* expired, cleaned up, crowded out or lost in a restart in between        *)
(* (registrar.rs:587-592).                                                 *)
NonceOnce == repassed = {}

(* An address is blocked only if it failed MaxFailures times within one    *)
(* window and did not succeed in between (README.md:198-200).              *)
BlockEarned == blocked_ips \subseteq guilty

(* What makes the three above inductive: a nonce that is known has its     *)
(* newest count; a count of failures is one of strikes in its window; who  *)
(* is about to be blocked is guilty; who registers has a right digest.     *)
CountsKept ==
  /\ passed \subseteq (0..nNonces) \X NonceCounts
  /\ \A p \in passed : p[1] \in DOMAIN issued_nonces => p[2] <= issued_nonces[p[1]].max_nc

CountFits(entry, times) ==
  /\ entry.count <= Len(times) /\ entry.window_start <= now
  /\ \A k \in (Len(times) - entry.count + 1)..Len(times) : times[k] >= entry.window_start

StrikesCounted == \A i \in Ips : CountFits(failed_ips[i], strikes[i])

HandlersRight ==
  \A h \in Handlers :
    /\ request[h].at = "block" => request[h].ip \in guilty
    /\ request[h].at \in {"clear", "register"} => request[h].verdict = "right"

IInv ==
  /\ TypeOK /\ NonceOnce /\ BlockEarned
  /\ CountsKept /\ StrikesCounted /\ HandlersRight
  /\ strikes \in [Ips -> Seq(Times)] /\ cleaner.now <= now

(* An extension goes offline when its registration runs out or its phone   *)
(* unregisters it, or when the server restarts, and for no other reason;   *)
(* the cleanup task in particular works from an old reading of the clock.  *)
KeepsOnline ==
  [][\A e \in Extensions :
       Online(e) /\ ~Online(e)' =>
         \/ now' > now
         \/ nRestarts' > nRestarts
         \/ \E h \in Handlers : /\ request[h].at = "register" /\ request[h].ext = e
                                /\ request[h].expires = 0 /\ request[h].verdict = "right"]_vars
==============================================================================
