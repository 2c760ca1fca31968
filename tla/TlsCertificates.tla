---------------------------- MODULE TlsCertificates ----------------------------
(***************************************************************************)
(* The self-signed certificate of the server (src/tls.rs): the files       *)
(* server.crt, server.key and server.expiry, the acceptor made from them   *)
(* at start-up, and the task that renews them.                             *)
(*                                                                         *)
(* A generation writes the three files one after the other; each write may *)
(* fail and leave the file as it was or cut short, and the process may end *)
(* between or during the writes.  The acceptor is built last, and that may *)
(* fail with the files already saved.  Time is counted in check intervals, *)
(* and a certificate lasts Validity of them.  A pair of certificate and    *)
(* key is a number, in the order of their generation.                      *)
(***************************************************************************)
EXTENDS Integers

CONSTANTS
  Validity,       \* CERT_VALIDITY_DAYS
  RenewBefore,    \* RENEWAL_DAYS_BEFORE
  MaxMisses,      \* renewals in a row that fail before a file is written
  MaxTime,        \* bound of the clock
  MaxPairs,       \* bound of the generations
  MaxFaults       \* bound of failed writes and builds, ends, deletions

ASSUME PeriodsAssumption ==
  /\ Validity \in Nat /\ RenewBefore \in Nat /\ MaxMisses \in Nat
  /\ MaxMisses < RenewBefore /\ RenewBefore <= Validity
ASSUME BoundsAssumption == MaxTime \in Nat /\ MaxPairs \in Nat /\ MaxFaults \in Nat

Absent == -2      \* a file that is not there
Torn == -1        \* a file that was cut short

VARIABLES
  now,
  crt,            \* server.crt: its pair, Not After and modification time
  key,            \* server.key: its pair
  expiry,         \* server.expiry; a file that does not parse counts as absent
  server,         \* where the process is, and whether its writes succeeded
  serving,        \* what new connections are shown
  checked,        \* the renewal task has run in this interval
  generated,      \* pairs generated so far
  misses,         \* renewals in a row that failed
  faults,
  incomplete,     \* history: a file is missing since the last full generation
  tried           \* history: the last pair an acceptor was to be built from

disk == <<crt, key, expiry>>
vars == <<now, disk, server, serving, checked, generated, misses, faults, incomplete, tried>>

NoFile == [pair |-> Absent, until |-> 0, at |-> 0]
NoCertificate == [pair |-> Absent, until |-> 0]
At(where) == [at |-> where, persisted |-> TRUE]
Unsaved(where) == [at |-> where, persisted |-> FALSE]

Init ==
  /\ now = 0
  /\ crt = NoFile /\ key = Absent /\ expiry = Absent
  /\ server = At("down")
  /\ serving = NoCertificate
  /\ checked = TRUE
  /\ generated = 0 /\ misses = 0 /\ faults = 0
  /\ incomplete = TRUE /\ tried = NoCertificate

Stopped == server.at \in {"down", "failed"}
------------------------------------------------------------------------------
(* Variant: it is renewed when it has expired.                             *)
is_cert_expiring_soon_late ==
  IF expiry # Absent THEN expiry - now < 0 ELSE Validity - (now - crt.at) < 0

(* server.expiry if it is there, or else the age of server.crt.            *)
is_cert_expiring_soon ==
  IF expiry # Absent THEN expiry - now < RenewBefore
  ELSE Validity - (now - crt.at) < RenewBefore

(* What start-up uses when it is there, and the renewal task leaves alone. *)
FilesUsed == crt.pair # Absent /\ key # Absent /\ ~is_cert_expiring_soon
NeedsRenewal == crt.pair = Absent \/ is_cert_expiring_soon

(* Identity::from_pkcs8 takes a certificate with its own key only.         *)
Matching == crt.pair = key /\ key # Torn

StartLoads ==
  /\ Stopped /\ FilesUsed /\ Matching
  /\ serving' = [pair |-> crt.pair, until |-> crt.until]
  /\ tried' = serving'
  /\ server' = At("up") /\ checked' = TRUE /\ misses' = 0
  /\ UNCHANGED <<now, disk, generated, faults, incomplete>>

Fault == faults < MaxFaults /\ faults' = faults + 1

(* No acceptor can be made of the files, as they are or for another reason. *)
StartRefused ==
  /\ Stopped /\ FilesUsed
  /\ Fault \/ (~Matching /\ UNCHANGED faults)
  /\ server' = At("failed")
  /\ UNCHANGED <<now, disk, serving, checked, generated, misses, incomplete, tried>>

(* generate_self_signed fails, or certs/ is missing and cannot be created. *)
StartFails ==
  /\ Stopped /\ ~FilesUsed
  /\ server' = At("failed")
  /\ UNCHANGED <<now, disk, serving, checked, generated, misses, faults, incomplete, tried>>

Generate ==
  /\ generated < MaxPairs
  /\ generated' = generated + 1
  /\ server' = At("crt")
  /\ UNCHANGED <<now, disk, serving, faults, incomplete, tried>>

StartGenerates == Stopped /\ ~FilesUsed /\ Generate /\ UNCHANGED <<checked, misses>>
------------------------------------------------------------------------------
(* generate_and_save_cert.                                                 *)

(* Variant: the pair generated before is written again.                    *)
Written_previous == [pair |-> generated - 1, until |-> now + Validity, at |-> now]

Written == [pair |-> generated, until |-> now + Validity, at |-> now]
TornFile == [pair |-> Torn, until |-> 0, at |-> now]

WriteCrt ==
  /\ server.at = "crt"
  /\ \/ crt' = Written /\ server' = At("key") /\ UNCHANGED faults
     \/ /\ crt' \in {crt, TornFile} /\ Fault
        /\ server' = Unsaved("key")
  /\ UNCHANGED <<now, key, expiry, serving, checked, generated, misses, incomplete, tried>>

(* Variant: the time is saved whether or not the pair was.                 *)
WriteKey_always ==
  /\ server.at = "key"
  /\ \/ key' = generated /\ UNCHANGED faults
     \/ key' \in {key, Torn} /\ Fault
  /\ server' = At("expiry")
  /\ UNCHANGED <<now, crt, expiry, serving, checked, generated, misses, incomplete, tried>>

WriteKey ==
  /\ server.at = "key"
  /\ \/ /\ key' = generated /\ UNCHANGED faults
        /\ server' = IF server.persisted THEN At("expiry") ELSE Unsaved("reload")
     \/ /\ key' \in {key, Torn} /\ Fault
        /\ server' = Unsaved("reload")
  /\ UNCHANGED <<now, crt, expiry, serving, checked, generated, misses, incomplete, tried>>

WriteExpiry ==
  /\ server.at = "expiry"
  /\ \/ /\ expiry' = now + Validity /\ UNCHANGED faults
        /\ incomplete' = (incomplete /\ ~(crt.pair = generated /\ key = generated))
     \/ /\ expiry' \in {expiry, Absent} /\ Fault
        /\ incomplete' = (incomplete \/ expiry' = Absent)
  /\ server' = At("reload")
  /\ UNCHANGED <<now, crt, key, serving, checked, generated, misses, tried>>

(* The pair in memory is served, saved or not; at start-up the task that   *)
(* renews it starts with a sleep.                                          *)
Current == [pair |-> generated, until |-> now + Validity]

Reload ==
  /\ server.at = "reload"
  /\ serving' = Current /\ tried' = Current
  /\ server' = At("up") /\ checked' = TRUE /\ misses' = 0
  /\ UNCHANGED <<now, disk, generated, faults, incomplete>>

(* build_acceptor fails: start-up ends, the renewal task logs it and goes  *)
(* on sleeping.  The files stay, and so does the acceptor in use.          *)
ReloadFails ==
  /\ server.at = "reload" /\ Fault
  /\ tried' = Current
  /\ IF serving.pair = Absent
     THEN server' = At("failed") /\ UNCHANGED <<checked, misses>>
     ELSE server' = At("up") /\ checked' = TRUE /\ misses' = 0
  /\ UNCHANGED <<now, disk, serving, generated, incomplete>>
------------------------------------------------------------------------------
(* start_cert_renewal_task.                                                *)

CheckIdle ==
  /\ server.at = "up" /\ ~checked /\ ~NeedsRenewal
  /\ checked' = TRUE /\ misses' = 0
  /\ UNCHANGED <<now, disk, server, serving, generated, faults, incomplete, tried>>

CheckRenews ==
  server.at = "up" /\ ~checked /\ NeedsRenewal /\ Generate /\ UNCHANGED <<checked, misses>>

(* generate_and_save_cert returns an error, which is logged: nothing has   *)
(* been written.                                                           *)
CheckFails ==
  /\ server.at = "up" /\ ~checked /\ NeedsRenewal
  /\ misses < MaxMisses
  /\ checked' = TRUE /\ misses' = misses + 1
  /\ UNCHANGED <<now, disk, server, serving, generated, faults, incomplete, tried>>
------------------------------------------------------------------------------
(* The surroundings.                                                       *)

(* The task runs once in each interval the process is up.                  *)
Tick ==
  /\ now < MaxTime
  /\ Stopped \/ (server.at = "up" /\ checked)
  /\ now' = now + 1 /\ checked' = FALSE
  /\ UNCHANGED <<disk, server, serving, generated, misses, faults, incomplete, tried>>

(* The process ends, a file it is writing may be cut short.                *)
Ends ==
  /\ ~Stopped /\ Fault
  /\ server' = At("down") /\ serving' = NoCertificate /\ tried' = NoCertificate
  /\ crt' \in {crt} \cup (IF server.at = "crt" THEN {TornFile} ELSE {})
  /\ key' \in {key} \cup (IF server.at = "key" THEN {Torn} ELSE {})
  /\ expiry' \in {expiry} \cup (IF server.at = "expiry" THEN {Absent} ELSE {})
  /\ incomplete' = (incomplete \/ expiry' = Absent)
  /\ UNCHANGED <<now, checked, generated, misses>>

(* Someone deletes a file.                                                 *)
Deletes ==
  /\ Fault
  /\ \/ crt' = NoFile /\ UNCHANGED <<key, expiry>>
     \/ key' = Absent /\ UNCHANGED <<crt, expiry>>
     \/ expiry' = Absent /\ UNCHANGED <<crt, key>>
  /\ incomplete' = TRUE
  /\ UNCHANGED <<now, server, serving, checked, generated, misses, tried>>
------------------------------------------------------------------------------
Next ==
  \/ StartLoads \/ StartRefused \/ StartFails \/ StartGenerates
  \/ WriteCrt \/ WriteKey \/ WriteExpiry \/ Reload \/ ReloadFails
  \/ CheckIdle \/ CheckRenews \/ CheckFails
  \/ Tick \/ Ends \/ Deletes

Spec == Init /\ [][Next]_vars
------------------------------------------------------------------------------
Pairs == 1..MaxPairs
Steps == {"down", "failed", "up", "crt", "key", "expiry", "reload"}

(* Type invariant.                                                         *)
TypeOK ==
  /\ now \in Nat
  /\ crt \in [pair: Pairs \cup {Absent, Torn}, until: Nat, at: Nat]
  /\ key \in Pairs \cup {Absent, Torn}
  /\ expiry \in Nat \cup {Absent}
  /\ server \in [at: Steps, persisted: BOOLEAN]
  /\ {serving, tried} \subseteq [pair: Pairs \cup {Absent}, until: Nat]
  /\ checked \in BOOLEAN /\ incomplete \in BOOLEAN
  /\ generated \in 0..MaxPairs /\ misses \in 0..MaxMisses /\ faults \in 0..MaxFaults

(* An expired certificate is shown only where no acceptor could be built   *)
(* from the pair that was to replace it (tls.rs:173), and no longer than   *)
(* that pair lasts: then the task tries again.  The task looks at files    *)
(* that may have been lost, torn or left by another generation, and not at *)
(* what is served, so it takes a pair that was saved for one that is used. *)
RenewedInTime ==
  serving.pair # Absent =>
    now <= serving.until \/ (tried # serving /\ now <= tried.until)

(* A renewal that fails half-way or is cut off never leaves files that the *)
(* next start takes and that do not match, if all were there before:       *)
(* server.expiry, written last, still says that the pair is due.           *)
RenewalRestarts == FilesUsed /\ ~Matching => incomplete

==============================================================================
