------------------------- MODULE TlsCertificatesProofs -------------------------
(* Proofs about TlsCertificates, for every length of the periods and any   *)
(* number of faults.                                                       *)
EXTENDS TlsCertificates, TLAPS

Generating == server.at \in {"crt", "key", "expiry", "reload"}
Due == expiry - now < RenewBefore

(* What the files say is never later than what they hold.                  *)
DiskHonest ==
  /\ expiry <= now + Validity
  /\ crt.pair # Absent => crt.at <= now
  /\ crt.pair \in Pairs => crt.until = crt.at + Validity /\ expiry <= crt.until

(* A generation's certificate is on the disk, unless it has been deleted.  *)
InProgress ==
  /\ Generating => generated \in Pairs
  /\ server.at \in {"key", "expiry"} /\ server.persisted /\ crt.pair # Absent =>
       crt.pair = generated /\ crt.at = now
  /\ server.at = "expiry" => server.persisted

(* The files do not outlive the pair an acceptor was to be built from last, *)
(* which has as much left as the checks that were missed allow.            *)
Margin ==
  /\ Stopped => serving.pair = Absent
  /\ server.at = "up" =>
       /\ expiry <= tried.until
       /\ crt.pair # Absent => crt.at + Validity <= tried.until
       /\ checked => RenewBefore - misses <= tried.until - now
       /\ ~checked => RenewBefore - misses - 1 <= tried.until - now
  /\ Generating /\ serving.pair # Absent => now <= tried.until

(* With all files there, only a pair that is due is ever written over.     *)
Restartable ==
  ~incomplete =>
    /\ expiry # Absent /\ crt.pair # Absent /\ key # Absent
    /\ Matching \/ Due
    /\ server.at \in {"crt", "key"} => Due
    /\ server.at = "expiry" => crt.pair = generated /\ key = generated

IInv == TypeOK /\ DiskHonest /\ InProgress /\ Margin /\ Restartable
------------------------------------------------------------------------------
USE PeriodsAssumption, BoundsAssumption
USE DEF Absent, Torn, At, Unsaved, NoFile, NoCertificate, Stopped, Pairs, Steps, disk

LEMMA ServerTypes ==
  \A where \in Steps : {At(where), Unsaved(where)} \subseteq [at: Steps, persisted: BOOLEAN]
OBVIOUS

LEMMA InitInv == Init => IInv
BY DEF Init, IInv, TypeOK, DiskHonest, InProgress, Margin, Restartable, Generating,
       Matching, Due

LEMMA StartLoadsInv == IInv /\ StartLoads => IInv'
<1> SUFFICES ASSUME IInv, StartLoads PROVE IInv'
  OBVIOUS
<1> USE DEF StartLoads, IInv, FilesUsed, Matching, is_cert_expiring_soon
<1>1. TypeOK'
  BY DEF TypeOK
<1>2. DiskHonest'
  BY DEF TypeOK, DiskHonest, InProgress
<1>3. InProgress'
  BY DEF TypeOK, InProgress, Generating
<1>4. Margin'
  BY DEF TypeOK, DiskHonest, Margin, Generating
<1>5. Restartable'
  BY DEF TypeOK, InProgress, Restartable, Matching, Due, Generating
<1>6. QED
  BY <1>1, <1>2, <1>3, <1>4, <1>5

LEMMA StartRefusedInv == IInv /\ StartRefused => IInv'
<1> SUFFICES ASSUME IInv, StartRefused PROVE IInv'
  OBVIOUS
<1> USE DEF StartRefused, IInv, Fault
<1>1. TypeOK'
  BY DEF TypeOK
<1>2. DiskHonest'
  BY DEF TypeOK, DiskHonest, InProgress
<1>3. InProgress'
  BY DEF TypeOK, InProgress, Generating
<1>4. Margin'
  BY DEF TypeOK, DiskHonest, Margin, Generating
<1>5. Restartable'
  BY DEF TypeOK, InProgress, Restartable, Matching, Due, Generating
<1>6. QED
  BY <1>1, <1>2, <1>3, <1>4, <1>5

LEMMA StartFailsInv == IInv /\ StartFails => IInv'
<1> SUFFICES ASSUME IInv, StartFails PROVE IInv'
  OBVIOUS
<1> USE DEF StartFails, IInv
<1>1. TypeOK'
  BY DEF TypeOK
<1>2. DiskHonest'
  BY DEF TypeOK, DiskHonest, InProgress
<1>3. InProgress'
  BY DEF TypeOK, InProgress, Generating
<1>4. Margin'
  BY DEF TypeOK, DiskHonest, Margin, Generating
<1>5. Restartable'
  BY DEF TypeOK, InProgress, Restartable, Matching, Due, Generating
<1>6. QED
  BY <1>1, <1>2, <1>3, <1>4, <1>5

LEMMA StartGeneratesInv == IInv /\ StartGenerates => IInv'
<1> SUFFICES ASSUME IInv, StartGenerates PROVE IInv'
  OBVIOUS
<1> USE DEF StartGenerates, IInv, Generate, FilesUsed, is_cert_expiring_soon
<1>1. TypeOK'
  BY DEF TypeOK
<1>2. DiskHonest'
  BY DEF TypeOK, DiskHonest, InProgress
<1>3. InProgress'
  BY DEF TypeOK, InProgress, Generating
<1>4. Margin'
  BY DEF TypeOK, DiskHonest, Margin, Generating
<1>5. Restartable'
  BY DEF TypeOK, InProgress, Restartable, Matching, Due, Generating
<1>6. QED
  BY <1>1, <1>2, <1>3, <1>4, <1>5

LEMMA WriteCrtInv == IInv /\ WriteCrt => IInv'
<1> SUFFICES ASSUME IInv, WriteCrt PROVE IInv'
  OBVIOUS
<1> USE DEF WriteCrt, IInv, Fault, Written, TornFile
<1>1. TypeOK'
  <2>1. server' \in [at: Steps, persisted: BOOLEAN]
    <3>1. server' \in {At("key"), Unsaved("key")}
      OBVIOUS
    <3>2. QED
      BY <3>1, ServerTypes
  <2>2. QED
    BY <2>1 DEF TypeOK, InProgress, Generating
<1>2. DiskHonest'
  BY DEF TypeOK, DiskHonest, InProgress
<1>3. InProgress'
  BY DEF TypeOK, InProgress, Generating
<1>4. Margin'
  BY DEF TypeOK, DiskHonest, Margin, Generating
<1>5. Restartable'
  BY DEF TypeOK, InProgress, Restartable, Matching, Due, Generating
<1>6. QED
  BY <1>1, <1>2, <1>3, <1>4, <1>5

LEMMA WriteKeyInv == IInv /\ WriteKey => IInv'
<1> SUFFICES ASSUME IInv, WriteKey PROVE IInv'
  OBVIOUS
<1> USE DEF WriteKey, IInv, Fault
<1>1. TypeOK'
  <2>1. server' \in [at: Steps, persisted: BOOLEAN]
    <3>1. server' \in {At("expiry"), Unsaved("expiry")} \/ server' \in {At("reload"), Unsaved("reload")}
      OBVIOUS
    <3>2. QED
      BY <3>1, ServerTypes
  <2>2. QED
    BY <2>1 DEF TypeOK, InProgress, Generating
<1>2. DiskHonest'
  BY DEF TypeOK, DiskHonest, InProgress
<1>3. InProgress'
  BY DEF TypeOK, InProgress, Generating
<1>4. Margin'
  BY DEF TypeOK, DiskHonest, Margin, Generating
<1>5. Restartable'
  BY DEF TypeOK, InProgress, Restartable, Matching, Due, Generating
<1>6. QED
  BY <1>1, <1>2, <1>3, <1>4, <1>5

LEMMA WriteExpiryInv == IInv /\ WriteExpiry => IInv'
<1> SUFFICES ASSUME IInv, WriteExpiry PROVE IInv'
  OBVIOUS
<1> USE DEF WriteExpiry, IInv, Fault
<1>1. TypeOK'
  <2>1. server' \in [at: Steps, persisted: BOOLEAN]
    BY ServerTypes
  <2>2. incomplete' \in BOOLEAN
    BY DEF TypeOK
  <2>3. UNCHANGED <<now, crt, key, serving, checked, generated, misses, tried>>
    OBVIOUS
  <2>4. expiry' \in Nat \cup {Absent} /\ faults' \in 0..MaxFaults
    BY DEF TypeOK
  <2>5. QED
    BY <2>1, <2>2, <2>3, <2>4 DEF TypeOK
<1>2. DiskHonest'
  BY DEF TypeOK, DiskHonest, InProgress
<1>3. InProgress'
  BY DEF TypeOK, InProgress, Generating
<1>4. Margin'
  BY DEF TypeOK, DiskHonest, Margin, Generating
<1>5. Restartable'
  BY DEF TypeOK, InProgress, Restartable, Matching, Due, Generating
<1>6. QED
  BY <1>1, <1>2, <1>3, <1>4, <1>5

LEMMA ReloadInv == IInv /\ Reload => IInv'
<1> SUFFICES ASSUME IInv, Reload PROVE IInv'
  OBVIOUS
<1> USE DEF Reload, Current, IInv
<1>1. TypeOK'
  BY DEF TypeOK, InProgress, Generating
<1>2. DiskHonest'
  BY DEF TypeOK, DiskHonest, InProgress
<1>3. InProgress'
  BY DEF TypeOK, InProgress, Generating
<1>4. Margin'
  BY DEF TypeOK, DiskHonest, Margin, Generating
<1>5. Restartable'
  BY DEF TypeOK, InProgress, Restartable, Matching, Due, Generating
<1>6. QED
  BY <1>1, <1>2, <1>3, <1>4, <1>5

LEMMA ReloadFailsInv == IInv /\ ReloadFails => IInv'
<1> SUFFICES ASSUME IInv, ReloadFails PROVE IInv'
  OBVIOUS
<1> USE DEF ReloadFails, Current, Fault, IInv
<1>1. TypeOK'
  <2>1. server' \in [at: Steps, persisted: BOOLEAN]
    <3>1. server' \in {At("up"), At("failed")}
      OBVIOUS
    <3>2. QED
      BY <3>1, ServerTypes
  <2>2. checked' \in BOOLEAN
    <3>1. checked' \in {checked, TRUE}
      OBVIOUS
    <3>2. QED
      BY <3>1 DEF TypeOK
  <2>3. misses' \in 0..MaxMisses /\ faults' \in 0..MaxFaults
    BY DEF TypeOK
  <2>4. tried' \in [pair: Pairs \cup {Absent}, until: Nat]
    BY DEF TypeOK, InProgress, Generating
  <2>5. UNCHANGED <<now, crt, key, expiry, serving, generated, incomplete>>
    OBVIOUS
  <2>6. QED
    BY <2>1, <2>2, <2>3, <2>4, <2>5 DEF TypeOK
<1>2. DiskHonest'
  BY DEF TypeOK, DiskHonest, InProgress
<1>3. InProgress'
  BY DEF TypeOK, InProgress, Generating
<1>4. Margin'
  BY DEF TypeOK, DiskHonest, Margin, Generating
<1>5. Restartable'
  BY DEF TypeOK, InProgress, Restartable, Matching, Due, Generating
<1>6. QED
  BY <1>1, <1>2, <1>3, <1>4, <1>5

LEMMA CheckIdleInv == IInv /\ CheckIdle => IInv'
<1> SUFFICES ASSUME IInv, CheckIdle PROVE IInv'
  OBVIOUS
<1> USE DEF CheckIdle, IInv, NeedsRenewal, is_cert_expiring_soon
<1>1. TypeOK'
  BY DEF TypeOK
<1>2. DiskHonest'
  BY DEF TypeOK, DiskHonest, InProgress
<1>3. InProgress'
  BY DEF TypeOK, InProgress, Generating
<1>4. Margin'
  BY DEF TypeOK, DiskHonest, Margin, Generating
<1>5. Restartable'
  BY DEF TypeOK, InProgress, Restartable, Matching, Due, Generating
<1>6. QED
  BY <1>1, <1>2, <1>3, <1>4, <1>5

LEMMA CheckRenewsInv == IInv /\ CheckRenews => IInv'
<1> SUFFICES ASSUME IInv, CheckRenews PROVE IInv'
  OBVIOUS
<1> USE DEF CheckRenews, IInv, Generate, NeedsRenewal, is_cert_expiring_soon
<1>1. TypeOK'
  BY DEF TypeOK
<1>2. DiskHonest'
  BY DEF TypeOK, DiskHonest, InProgress
<1>3. InProgress'
  BY DEF TypeOK, InProgress, Generating
<1>4. Margin'
  BY DEF TypeOK, DiskHonest, Margin, Generating
<1>5. Restartable'
  BY DEF TypeOK, InProgress, Restartable, Matching, Due, Generating
<1>6. QED
  BY <1>1, <1>2, <1>3, <1>4, <1>5

LEMMA CheckFailsInv == IInv /\ CheckFails => IInv'
<1> SUFFICES ASSUME IInv, CheckFails PROVE IInv'
  OBVIOUS
<1> USE DEF CheckFails, IInv
<1>1. TypeOK'
  BY DEF TypeOK
<1>2. DiskHonest'
  BY DEF TypeOK, DiskHonest, InProgress
<1>3. InProgress'
  BY DEF TypeOK, InProgress, Generating
<1>4. Margin'
  BY DEF TypeOK, DiskHonest, Margin, Generating
<1>5. Restartable'
  BY DEF TypeOK, InProgress, Restartable, Matching, Due, Generating
<1>6. QED
  BY <1>1, <1>2, <1>3, <1>4, <1>5

LEMMA TickInv == IInv /\ Tick => IInv'
<1> SUFFICES ASSUME IInv, Tick PROVE IInv'
  OBVIOUS
<1> USE DEF Tick, IInv
<1>1. TypeOK'
  <2>1. now' \in Nat /\ checked' = FALSE
    BY DEF TypeOK
  <2>2. UNCHANGED <<crt, key, expiry, server, serving, incomplete, generated, misses, faults, tried>>
    OBVIOUS
  <2>3. QED
    BY <2>1, <2>2 DEF TypeOK
<1>2. DiskHonest'
  BY DEF TypeOK, DiskHonest, InProgress
<1>3. InProgress'
  BY DEF TypeOK, InProgress, Generating
<1>4. Margin'
  BY DEF TypeOK, DiskHonest, Margin, Generating
<1>5. Restartable'
  BY DEF TypeOK, InProgress, Restartable, Matching, Due, Generating
<1>6. QED
  BY <1>1, <1>2, <1>3, <1>4, <1>5

LEMMA EndsInv == IInv /\ Ends => IInv'
<1> SUFFICES ASSUME IInv, Ends PROVE IInv'
  OBVIOUS
<1> USE DEF Ends, IInv, Fault, TornFile
<1>1. TypeOK'
  BY DEF TypeOK
<1>2. DiskHonest'
  BY DEF TypeOK, DiskHonest, InProgress
<1>3. InProgress'
  BY DEF TypeOK, InProgress, Generating
<1>4. Margin'
  BY DEF TypeOK, DiskHonest, Margin, Generating
<1>5. Restartable'
  <2>1. server.at = "expiry" /\ expiry' = Absent => incomplete'
    OBVIOUS
  <2>2. ~incomplete' => ~incomplete /\ expiry' = expiry
    BY DEF TypeOK
  <2>3. ~incomplete' => crt'.pair # Absent /\ key' # Absent
    BY <2>2 DEF TypeOK, Restartable
  <2>4. ~incomplete' => Matching' \/ Due'
    BY <2>2 DEF TypeOK, Restartable, Matching, Due
  <2>5. QED
    BY <2>1, <2>2, <2>3, <2>4 DEF TypeOK, Restartable
<1>6. QED
  BY <1>1, <1>2, <1>3, <1>4, <1>5

LEMMA DeletesInv == IInv /\ Deletes => IInv'
<1> SUFFICES ASSUME IInv, Deletes PROVE IInv'
  OBVIOUS
<1> USE DEF Deletes, IInv, Fault
<1>1. TypeOK'
  BY DEF TypeOK
<1>2. DiskHonest'
  BY DEF TypeOK, DiskHonest, InProgress
<1>3. InProgress'
  BY DEF TypeOK, InProgress, Generating
<1>4. Margin'
  BY DEF TypeOK, DiskHonest, Margin, Generating
<1>5. Restartable'
  BY DEF TypeOK, InProgress, Restartable, Matching, Due, Generating
<1>6. QED
  BY <1>1, <1>2, <1>3, <1>4, <1>5

LEMMA StepInv == IInv /\ [Next]_vars => IInv'
<1> SUFFICES ASSUME IInv, [Next]_vars PROVE IInv'
  OBVIOUS
<1>1. CASE StartLoads
  BY <1>1, StartLoadsInv
<1>2. CASE StartRefused
  BY <1>2, StartRefusedInv
<1>3. CASE StartFails
  BY <1>3, StartFailsInv
<1>4. CASE StartGenerates
  BY <1>4, StartGeneratesInv
<1>5. CASE WriteCrt
  BY <1>5, WriteCrtInv
<1>6. CASE WriteKey
  BY <1>6, WriteKeyInv
<1>7. CASE WriteExpiry
  BY <1>7, WriteExpiryInv
<1>8. CASE Reload
  BY <1>8, ReloadInv
<1>9. CASE ReloadFails
  BY <1>9, ReloadFailsInv
<1>10. CASE CheckIdle
  BY <1>10, CheckIdleInv
<1>11. CASE CheckRenews
  BY <1>11, CheckRenewsInv
<1>12. CASE CheckFails
  BY <1>12, CheckFailsInv
<1>13. CASE Tick
  BY <1>13, TickInv
<1>14. CASE Ends
  BY <1>14, EndsInv
<1>15. CASE Deletes
  BY <1>15, DeletesInv
<1>16. CASE UNCHANGED vars
  BY <1>16 DEF vars, IInv, TypeOK, DiskHonest, InProgress, Margin, Restartable, Generating, Matching, Due
<1>17. QED
  BY <1>1, <1>2, <1>3, <1>4, <1>5, <1>6, <1>7, <1>8, <1>9, <1>10, <1>11, <1>12, <1>13, <1>14,
     <1>15, <1>16 DEF Next

(* The invariant the theorems below follow from.                           *)
THEOREM Invariance == Spec => []IInv
<1>1. QED
  BY InitInv, StepInv, PTL DEF Spec

(* Every variable keeps its type.                                          *)
THEOREM TypeCorrect == Spec => []TypeOK
<1>1. IInv => TypeOK
  BY DEF IInv
<1>2. QED
  BY <1>1, Invariance, PTL

(* New connections are shown an expired certificate only where no acceptor *)
(* could be built from the pair that was to replace it, and only while     *)
(* that pair lasts (tls.rs:120-187), however many writes fail and files    *)
(* are lost, while fewer generations in a row fail than there are checks   *)
(* in RenewBefore.                                                         *)
THEOREM ServesInTime == Spec => []RenewedInTime
<1>1. IInv => RenewedInTime
  <2> SUFFICES ASSUME IInv, serving.pair # Absent
               PROVE  now <= serving.until \/ (tried # serving /\ now <= tried.until)
    BY DEF RenewedInTime
  <2>1. now <= tried.until
    BY DEF IInv, TypeOK, Margin, Generating
  <2>2. QED
    BY <2>1
<1>2. QED
  BY <1>1, Invariance, PTL

(* A renewal that is cut off leaves no files that start-up takes and that  *)
(* do not match (tls.rs:247-281), if all three were there before it.       *)
THEOREM StartsAfterRenewal == Spec => []RenewalRestarts
<1>1. IInv => RenewalRestarts
  BY DEF IInv, TypeOK, Restartable, RenewalRestarts, FilesUsed, is_cert_expiring_soon, Due
<1>2. QED
  BY <1>1, Invariance, PTL
==============================================================================
