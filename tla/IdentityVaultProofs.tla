------------------------ MODULE IdentityVaultProofs ------------------------
(***************************************************************************)
(* Theorems about IdentityVault, for every set of images, every limit      *)
(* VAULT_MAX_TRIES, any number of identities and any set of failures.      *)
(***************************************************************************)
EXTENDS IdentityVault, TLAPS

\* What the inductive invariants below add to the type invariant.
\*
\* Only a readable identity file holds a key, a file is written only where none
\* is, and past step 2 a persistent boot runs on the key the flash holds.
FileInv ==
  /\ idFile.kind \in {"absent", "torn"} <=> idFile.key = NoKey
  /\ pc = "persist" => /\ idFile.kind = "absent"
                       /\ identity # NoKey
                       /\ image.build # "ephemeral"
  /\ pc \in {"clear", "rest", "up"} /\ image.build # "ephemeral"
       => identity = idFile.key /\ identity # NoKey
  /\ pc \in {"charge", "open", "erase", "clear"} => image.build = "vault"

\* Keys are fresh: what was destroyed was generated.
FreshInv ==
  /\ identity <= minted
  /\ idFile.key <= minted
  /\ \A k \in erased : k \in Key /\ k <= minted

\* The last address and the stored messages belong to the key on the flash.
OwnerInv ==
  /\ address \in erased \cup {NoKey, idFile.key}
  /\ StoredStaysReadable

\* vault_open never charges past the limit, and a boot that ended with the key
\* open left it in RAM only if it went on.
ChargeInv ==
  /\ pc \in {"charge", "open"} => tried < VAULT_MAX_TRIES
  /\ pc = "erase" => tried = VAULT_MAX_TRIES - 1
  /\ pc \in {"storage", "identity", "charge", "open", "erase"} => identity = NoKey

VaultInv == TypeOK /\ ChargeInv /\ FileInv /\ FreshInv /\ OwnerInv

\* The attempt counter on the flash is the one vault_open works with, and ahead of
\* the guesses made.
CountInv ==
  /\ guesses <= tries
  /\ pc = "charge" => tried = tries
  /\ pc = "open" => tries = tried + 1 /\ guesses <= tried
  /\ pc = "erase" => tries = tried + 1
  /\ pc = "clear" => guesses = 0

\* Every write of the counter reaches the flash and every read finds it there.
CounterKept == Faults \cap {"tries_write", "tries_read"} = {}

-----------------------------------------------------------------------------
\* Inductiveness of VaultInv, one case per action of Next.
LEMMA VaultInvInductive == VaultInv /\ [Next]_vars => VaultInv'
<1> USE DEF VaultInv, TypeOK, ChargeInv, FileInv, FreshInv, OwnerInv,
      StoredStaysReadable, BootSteps, Key, NoKey, NoFile, TornFile,
      flash, ram, history
<1> SUFFICES ASSUME VaultInv, [Next]_vars PROVE VaultInv'
  OBVIOUS
<1>a. VAULT_MAX_TRIES \in 1..255 /\ MaxKeys \in Nat
  BY VaultAssumption DEF VaultAssumption
<1>1. ASSUME NEW i \in Images, PowerOn(i) PROVE VaultInv'
  BY <1>1, <1>a DEF PowerOn
<1>2. CASE PowerCut
  BY <1>2, <1>a DEF PowerCut
<1>3. CASE bringup_storage
  BY <1>3, <1>a DEF bringup_storage
<1>4. CASE IdentityEphemeral
  BY <1>4, <1>a DEF IdentityEphemeral, Generate
<1>5. CASE IdentityCreate
  BY <1>5, <1>a DEF IdentityCreate, Generate
<1>6. CASE IdentityLoad
  BY <1>6, <1>a DEF IdentityLoad
<1>7. CASE VaultRead
  BY <1>7, <1>a DEF VaultRead
<1>8. CASE VaultCharge
  <2>1. (tried + 1) % 256 = tried + 1 /\ tried + 1 \in 0..VAULT_MAX_TRIES
    BY <1>8, <1>a DEF VaultCharge
  <2> QED
    BY <1>8, <2>1 DEF VaultCharge
<1>9. CASE VaultOpenFails
  BY <1>9, <1>a DEF VaultOpenFails
<1>10. CASE VaultOpens
  <2>1. idFile.key \in Key
    BY <1>10 DEF VaultOpens, Opens
  <2> QED
    BY <1>10, <1>a, <2>1 DEF VaultOpens
<1>11. CASE VaultErase
  <2>0. erased' \subseteq erased \cup ({idFile.key} \cap Key)
    BY <1>11 DEF VaultErase
  <2>1. TypeOK' /\ ChargeInv'
    BY <1>11, <1>a, <2>0 DEF VaultErase
  <2>2. FileInv'
    BY <1>11, <1>a DEF VaultErase
  <2>3. FreshInv'
    BY <1>11, <1>a, <2>0 DEF VaultErase
  <2>4. OwnerInv'
    BY <1>11, <1>a DEF VaultErase
  <2> QED
    BY <2>1, <2>2, <2>3, <2>4
<1>12. CASE VaultClear
  <2>1. TypeOK' /\ ChargeInv'
    BY <1>12, <1>a DEF VaultClear
  <2>2. FileInv'
    BY <1>12, <1>a DEF VaultClear
  <2>3. FreshInv'
    BY <1>12, <1>a DEF VaultClear
  <2>4. OwnerInv'
    BY <1>12, <1>a DEF VaultClear
  <2> QED
    BY <2>1, <2>2, <2>3, <2>4
<1>13. CASE IdentityPersist
  <2>1. TypeOK' /\ ChargeInv'
    <3>1. image.code \in Code
      BY DEF Code
    <3>2. idFile' \in [kind : {"absent", "torn", "plain", "sealed"},
                      key : Key \cup {NoKey}]
      BY <1>13 DEF IdentityPersist, password_protect
    <3>3. idCode' \in Code /\ guesses' \in Nat
      BY <1>13, <3>1 DEF IdentityPersist
    <3>4. attempted' \in BOOLEAN
      BY <1>13, Zenon DEF IdentityPersist
    <3> QED
      BY <1>13, <3>2, <3>3, <3>4 DEF IdentityPersist, password_protect
  <2>2. FileInv'
    BY <1>13, <1>a DEF IdentityPersist, password_protect
  <2>3. FreshInv'
    BY <1>13, <1>a DEF IdentityPersist, password_protect
  <2>4. OwnerInv'
    BY <1>13, <1>a DEF IdentityPersist, password_protect
  <2> QED
    BY <2>1, <2>2, <2>3, <2>4
<1>14. CASE RestOfSetup
  BY <1>14, <1>a DEF RestOfSetup
<1>15. CASE StoreMessage
  <2>1. TypeOK' /\ ChargeInv'
    BY <1>15, <1>a DEF StoreMessage
  <2>2. FileInv'
    BY <1>15, <1>a DEF StoreMessage
  <2>3. FreshInv'
    BY <1>15, <1>a DEF StoreMessage
  <2>4. OwnerInv'
    BY <1>15, <1>a DEF StoreMessage
  <2> QED
    BY <2>1, <2>2, <2>3, <2>4
<1>16. CASE UNCHANGED vars
  BY <1>16, <1>a DEF vars
<1> QED
  BY <1>1, <1>2, <1>3, <1>4, <1>5, <1>6, <1>7, <1>8, <1>9, <1>10, <1>11, <1>12,
     <1>13, <1>14, <1>15, <1>16 DEF Next

LEMMA VaultInvInitial == Init => VaultInv
<1> SUFFICES ASSUME Init PROVE VaultInv
  OBVIOUS
<1>1. image.code \in Code
  BY DEF Init, Code
<1>2. TypeOK
  <2>1. idFile \in [kind : {"absent", "torn", "plain", "sealed"},
                   key : Key \cup {NoKey}]
    BY DEF Init, NoFile
  <2>2. /\ tries \in 0..VAULT_MAX_TRIES
        /\ tried \in 0..VAULT_MAX_TRIES
        /\ minted \in 0..MaxKeys
    BY VaultAssumption DEF VaultAssumption, Init
  <2>3. attempted \in BOOLEAN
    BY DEF Init
  <2> QED
    BY <1>1, <2>1, <2>2, <2>3 DEF Init, TypeOK, BootSteps
<1>3. ChargeInv /\ FileInv /\ FreshInv /\ OwnerInv
  BY DEF Init, ChargeInv, FileInv, FreshInv, OwnerInv, StoredStaysReadable, NoKey, NoFile
<1> QED
  BY <1>2, <1>3 DEF VaultInv

LEMMA VaultInvariance == Spec => []VaultInv
  BY VaultInvInitial, VaultInvInductive, PTL DEF Spec

-----------------------------------------------------------------------------
\* The state stays well typed through every boot, reflash, power cut and
\* failure of bringup_storage and bringup_identity; in particular the attempt
\* counter, one byte on the flash, never passes the limit.
THEOREM TypeCorrect == Spec => []TypeOK
<1>1. VaultInv => TypeOK
  BY DEF VaultInv
<1> QED
  BY <1>1, VaultInvariance, PTL

\* bringup_identity never writes over a key that messages are stored under.
THEOREM StoredReadable == Spec => []StoredStaysReadable
<1>1. VaultInv => StoredStaysReadable
  BY DEF VaultInv, OwnerInv
<1> QED
  BY <1>1, VaultInvariance, PTL

\* bringup_identity brings a device back up with the address it had, unless the
\* attempt limit destroyed that identity.
THEOREM AddressIsStable == Spec => AddressStable
<1>1. VaultInv /\ [Next]_vars =>
        [\/ address' = address
         \/ address = NoKey
         \/ address \in erased]_vars
  <2> SUFFICES ASSUME VaultInv, [Next]_vars, address' # address
               PROVE  address = NoKey \/ address \in erased
    OBVIOUS
  <2>1. RestOfSetup
    BY DEF Next, vars, history, PowerOn, PowerCut, bringup_storage,
       IdentityEphemeral, IdentityCreate, IdentityLoad, VaultRead, VaultCharge,
       VaultOpenFails, VaultOpens, VaultErase, VaultClear, IdentityPersist,
       StoreMessage
  <2>2. image.build # "ephemeral" /\ address' = identity
    BY <2>1 DEF RestOfSetup
  <2>3. identity = idFile.key
    BY <2>1, <2>2 DEF RestOfSetup, VaultInv, FileInv
  <2> QED
    BY <2>2, <2>3 DEF VaultInv, OwnerInv
<1> QED
  BY <1>1, VaultInvariance, PTL DEF Spec, AddressStable

-----------------------------------------------------------------------------
\* The counter is written before the code is tested, so as long as it is kept the
\* guesses never overtake it.
LEMMA CountInvInductive ==
  ASSUME CounterKept
  PROVE  VaultInv /\ CountInv /\ [Next]_vars => CountInv'
<1> SUFFICES ASSUME VaultInv, CountInv, [Next]_vars PROVE CountInv'
  OBVIOUS
<1> USE DEF CountInv, flash, ram, history
<1>a. TypeOK /\ VAULT_MAX_TRIES \in 1..255
  BY VaultAssumption DEF VaultAssumption, VaultInv
<1>b. "tries_write" \notin Faults /\ "tries_read" \notin Faults
  BY DEF CounterKept
<1>1. ASSUME NEW i \in Images, PowerOn(i) PROVE CountInv'
  BY <1>1 DEF PowerOn
<1>2. CASE PowerCut \/ bringup_storage \/ VaultErase \/ RestOfSetup \/ StoreMessage
  BY <1>2 DEF PowerCut, bringup_storage, VaultErase, RestOfSetup, StoreMessage
<1>3. CASE IdentityEphemeral \/ IdentityCreate \/ IdentityLoad
  BY <1>3 DEF IdentityEphemeral, IdentityCreate, IdentityLoad
<1>4. CASE VaultRead
  BY <1>4, <1>b DEF VaultRead
<1>5. CASE VaultCharge
  <2>1. tries' = tried + 1
    BY <1>5, <1>a, <1>b DEF VaultCharge, VaultInv, ChargeInv, TypeOK
  <2> QED
    BY <1>5, <1>a, <2>1 DEF VaultCharge, TypeOK
<1>6. CASE VaultOpenFails
  BY <1>6, <1>a DEF VaultOpenFails, TypeOK
<1>7. CASE VaultOpens \/ VaultClear
  BY <1>7, <1>a DEF VaultOpens, VaultClear, TypeOK
<1>8. CASE IdentityPersist
  BY <1>8, <1>a DEF IdentityPersist, TypeOK
<1>9. CASE UNCHANGED vars
  BY <1>9 DEF vars
<1> QED
  BY <1>1, <1>2, <1>3, <1>4, <1>5, <1>6, <1>7, <1>8, <1>9 DEF Next

LEMMA CountInvariance ==
  ASSUME CounterKept
  PROVE  Spec => []CountInv
<1>1. Init => CountInv
  BY DEF Init, CountInv
<1> QED
  BY <1>1, CountInvInductive, VaultInvariance, PTL DEF Spec

\* No schedule of boots, images, power cuts and other failures tests more than
\* VAULT_MAX_TRIES wrong codes against a vault that was not opened in between,
\* provided the attempt counter is written and read whenever vault_open asks.
THEOREM GuessBound ==
  ASSUME CounterKept
  PROVE  Spec => []GuessesBounded
<1>1. VaultInv /\ CountInv => GuessesBounded
  BY VaultAssumption DEF VaultAssumption, CountInv, VaultInv, TypeOK, GuessesBounded
<1> QED
  BY <1>1, VaultInvariance, CountInvariance, PTL

-----------------------------------------------------------------------------
\* vault_open needs one of two things for the erasure: that the file goes when it
\* is removed, or that the counter which condemned it is kept.
ErasureKept == "id_remove" \notin Faults \/ CounterKept

\* A destroyed key that is still on the flash is there only for a failed removal,
\* and no attempt at it gets past the counter.
EraseInv ==
  /\ EraseIsFinal
  /\ idFile.key \in erased => "id_remove" \in Faults /\ pc # "open"

LEMMA EraseInvInductive ==
  ASSUME ErasureKept
  PROVE  VaultInv /\ (CounterKept => CountInv) /\ EraseInv /\ [Next]_vars => EraseInv'
<1> SUFFICES ASSUME VaultInv, CounterKept => CountInv, EraseInv, [Next]_vars PROVE EraseInv'
  OBVIOUS
<1> USE DEF EraseInv, EraseIsFinal, flash, ram, history
<1>a. /\ TypeOK /\ VAULT_MAX_TRIES \in 1..255 /\ MaxKeys \in Nat
      /\ ChargeInv /\ FileInv /\ FreshInv
  BY VaultAssumption DEF VaultAssumption, VaultInv
<1>b. idFile.key \in erased => CountInv
  BY DEF ErasureKept
<1>c. \A k \in erased : k # NoKey
  BY <1>a DEF FreshInv, Key, NoKey
<1>1. ASSUME NEW i \in Images, PowerOn(i) PROVE EraseInv'
  BY <1>1, <1>c DEF PowerOn
<1>2. CASE PowerCut
  BY <1>2, <1>c DEF PowerCut, TornFile
<1>3. CASE bringup_storage \/ RestOfSetup \/ StoreMessage
  BY <1>3 DEF bringup_storage, RestOfSetup, StoreMessage
<1>4. CASE IdentityEphemeral \/ IdentityCreate
  <2>1. identity' = minted + 1 /\ \A k \in erased : k # minted + 1
    BY <1>4, <1>a DEF IdentityEphemeral, IdentityCreate, Generate, FreshInv, TypeOK, Key
  <2> QED
    BY <1>4, <2>1 DEF IdentityEphemeral, IdentityCreate
<1>5. CASE IdentityLoad
  BY <1>5 DEF IdentityLoad
<1>6. CASE VaultRead
  BY <1>6, <1>a, <1>c DEF VaultRead, ChargeInv
<1>7. CASE VaultCharge
  <2>1. idFile.key \notin erased
    BY <1>7, <1>a, <1>b DEF VaultCharge, ChargeInv, CountInv, TypeOK
  <2> QED
    BY <1>7, <1>a, <1>c, <2>1 DEF VaultCharge, ChargeInv
<1>8. CASE VaultOpenFails
  BY <1>8, <1>a, <1>c DEF VaultOpenFails, ChargeInv
<1>9. CASE VaultOpens
  <2>1. idFile.key \notin erased
    BY <1>9 DEF VaultOpens
  <2> QED
    BY <1>9, <2>1 DEF VaultOpens
<1>10. CASE VaultErase
  <2>1. CASE idFile' = NoFile
    BY <1>10, <1>c, <2>1 DEF VaultErase, NoFile, NoKey
  <2>2. CASE "id_remove" \in Faults /\ idFile' = idFile
    <3>1. tries >= VAULT_MAX_TRIES
      BY <1>10, <1>a, <2>2 DEF VaultErase, ErasureKept, CountInv, ChargeInv, TypeOK
    <3>2. /\ tries' = tries /\ pc' = "halted"
          /\ erased' \subseteq erased \cup {idFile.key}
          /\ idFile.kind # "sealed" => erased' = erased
      BY <1>10, <2>2 DEF VaultErase, NoFile
    <3>3. CASE idFile.kind = "sealed"
      BY <2>2, <3>1, <3>2, <3>3
    <3>4. CASE idFile.kind # "sealed"
      BY <2>2, <3>2, <3>4
    <3> QED
      BY <3>3, <3>4
  <2> QED
    BY <1>10, <2>1, <2>2 DEF VaultErase
<1>11. CASE VaultClear
  <2>1. idFile.key \notin erased
    BY <1>11, <1>a DEF VaultClear, FileInv
  <2> QED
    BY <1>11, <2>1 DEF VaultClear
<1>12. CASE IdentityPersist
  <2>1. idFile'.key \in {identity, NoKey} /\ identity \notin erased
    BY <1>12 DEF IdentityPersist, password_protect, NoFile, TornFile
  <2> QED
    BY <1>12, <1>c, <2>1 DEF IdentityPersist
<1>13. CASE UNCHANGED vars
  BY <1>13 DEF vars
<1> QED
  BY <1>1, <1>2, <1>3, <1>4, <1>5, <1>6, <1>7, <1>8, <1>9, <1>10, <1>11, <1>12, <1>13 DEF Next

\* vault_open's tenth failure is a crypto-erase.  If the removal of the file can
\* fail, the counter that stays at the limit has to be kept; if it cannot, the
\* counter may fail as it likes.  Then no image, boot or power cut brings the key
\* back to a running device.
THEOREM EraseFinal ==
  ASSUME ErasureKept
  PROVE  Spec => []EraseIsFinal
<1>1. Init => EraseInv
  BY DEF Init, EraseInv, EraseIsFinal
<1>2. Spec => [](CounterKept => CountInv)
  <2>1. CASE CounterKept
    <3>1. CountInv => (CounterKept => CountInv)
      OBVIOUS
    <3> QED BY <2>1, <3>1, CountInvariance, PTL
  <2>2. CASE ~CounterKept
    <3>1. CounterKept => CountInv
      BY <2>2
    <3> QED BY <3>1, PTL
  <2> QED BY <2>1, <2>2
<1>3. EraseInv => EraseIsFinal
  BY DEF EraseInv
<1> QED
  BY <1>1, <1>2, <1>3, EraseInvInductive, VaultInvariance, PTL DEF Spec
=============================================================================
