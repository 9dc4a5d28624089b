---------------------------- MODULE IdentityVault ----------------------------
(***************************************************************************)
(* Steps 1 and 2 of the bring-up in src/main.cpp: mount the flash, then    *)
(* create or load the identity.  An image is a build and the code compiled *)
(* into it; PowerOn chooses which image the device runs, so reflashing     *)
(* between two boots is a behaviour of the model.  The builds are those    *)
(* the #ifdefs of bringup_identity select:                                 *)
(*   "vault"      THICKET_IDENTITY_CODE: the private key is sealed under   *)
(*                the code, with at most VAULT_MAX_TRIES attempts          *)
(*   "plain"      the identity file is written and read as it is           *)
(*   "ephemeral"  THICKET_NO_PERSISTENCE: a new identity at every boot,    *)
(*                and the external flash is not mounted                    *)
(*                                                                         *)
(* Power can be cut between any two operations on the flash, and during    *)
(* one.  What the flash keeps survives PowerCut, what is in RAM does not.  *)
(***************************************************************************)
EXTENDS Integers

CONSTANTS
  Images,           \* the images this device is ever flashed with
  VAULT_MAX_TRIES,  \* 10 in the code
  MaxKeys,          \* bound: identities generated in one behaviour
  Faults            \* which external failures occur, see FaultKinds

Builds == {"vault", "plain", "ephemeral"}

\* Failures of code outside src/ that the source handles or ignores.
FaultKinds == {
  "mount",        \* the filesystem does not mount
  "tries_write",  \* write_file of the attempt counter writes nothing
  "tries_read",   \* read_file of an attempt counter that is there gives nothing
  "tries_remove", \* remove_file of the attempt counter fails
  "seal_write",   \* write_file of the identity fails, leaving a short file or none
  "id_read",      \* read_file of the identity comes back short
  "id_remove",    \* remove_file of the identity fails
  "alloc",        \* malloc inside password_open returns null
  "load"          \* load_private_key refuses the bytes
}

ASSUME VaultAssumption ==
  /\ Images # {}
  /\ \A i \in Images : i.build \in Builds
  /\ VAULT_MAX_TRIES \in 1..255
  /\ MaxKeys \in Nat
  /\ Faults \subseteq FaultKinds

NoKey == 0
Key == 1..MaxKeys
NoFile == [kind |-> "absent", key |-> NoKey]
TornFile == [kind |-> "torn", key |-> NoKey]

VARIABLES
  pc,        \* where setup() stands; "off" is no power, "halted" a failed step
  image,     \* the image that runs
  idFile,    \* IDENTITY_PATH on the flash
  idCode,    \* the code a sealed idFile is sealed under
  tries,     \* VAULT_TRIES_PATH; 0 is both "no file" and "empty file"
  tried,     \* the local of vault_open
  identity,  \* g_identity
  minted,    \* identities generated so far: the next key is fresh
  stored,    \* keys some message on the flash is encrypted under
  \* history
  guesses,   \* wrong codes tested against idFile since it was written or opened
  attempted, \* an attempt was charged since idFile was written
  erased,    \* keys the attempt limit destroyed, see VaultErase
  address    \* the identity of the last persistent boot that completed

flash == <<idFile, idCode, tries, stored>>
ram == <<pc, image, tried, identity>>
history == <<guesses, attempted, erased, address>>
vars == <<pc, image, idFile, idCode, tries, tried, identity, minted, stored,
          guesses, attempted, erased, address>>

Code == {i.code : i \in Images}
BootSteps == {"storage", "identity", "charge", "open", "erase", "clear",
              "persist", "rest"}

TypeOK ==
  /\ pc \in BootSteps \cup {"off", "halted", "up"}
  /\ image \in Images
  /\ idFile \in [kind : {"absent", "torn", "plain", "sealed"},
                 key : Key \cup {NoKey}]
  /\ idCode \in Code
  /\ tries \in 0..VAULT_MAX_TRIES
  /\ tried \in 0..VAULT_MAX_TRIES
  /\ identity \in Key \cup {NoKey}
  /\ minted \in 0..MaxKeys
  /\ stored \subseteq Key
  /\ guesses \in Nat
  /\ attempted \in BOOLEAN
  /\ erased \subseteq Key
  /\ address \in Key \cup {NoKey}

\* A blank flash.  idCode means nothing until a vault is sealed.
Init ==
  /\ pc = "off"
  /\ image \in Images
  /\ idFile = NoFile
  /\ idCode = image.code
  /\ tries = 0
  /\ tried = 0
  /\ identity = NoKey
  /\ minted = 0
  /\ stored = {}
  /\ guesses = 0
  /\ attempted = FALSE
  /\ erased = {}
  /\ address = NoKey

-----------------------------------------------------------------------------
\* Power.

PowerOn(i) ==
  /\ pc = "off"
  /\ pc' = "storage"
  /\ image' = i
  /\ tried' = 0
  /\ identity' = NoKey
  /\ UNCHANGED <<flash, minted, history>>

\* LittleFS replaces a file's contents in one commit, so an interrupted write
\* of an existing file leaves the old contents; one that creates the file may
\* leave it empty.  An empty attempt counter reads as 0, like none.
PowerCut ==
  /\ pc # "off"
  /\ pc' = "off"
  /\ \/ UNCHANGED idFile
     \/ pc = "persist" /\ idFile' = TornFile
  /\ UNCHANGED <<image, idCode, tries, tried, identity, minted, stored, history>>

-----------------------------------------------------------------------------
\* setup(): step 1, then step 2.

bringup_storage ==
  /\ pc = "storage"
  /\ \/ pc' = "identity"
     \/ "mount" \in Faults /\ pc' = "halted"
  /\ UNCHANGED <<image, flash, tried, identity, minted, history>>

\* RNS::Identity(): fresh key pairs.
Generate ==
  /\ minted < MaxKeys
  /\ minted' = minted + 1
  /\ identity' = minted + 1

\* The branches of bringup_identity up to its first write or attempt.
IdentityEphemeral ==
  /\ pc = "identity"
  /\ image.build = "ephemeral"
  /\ Generate
  /\ pc' = "rest"
  /\ UNCHANGED <<image, flash, tried, history>>

\* Mutant: the check that no identity file exists is dropped.
IdentityCreateOver ==
  /\ pc = "identity"
  /\ image.build # "ephemeral"
  /\ Generate
  /\ pc' = "persist"
  /\ UNCHANGED <<image, flash, tried, history>>

IdentityCreate ==
  /\ pc = "identity"
  /\ image.build # "ephemeral"
  /\ idFile.kind = "absent"
  /\ Generate
  /\ pc' = "persist"
  /\ UNCHANGED <<image, flash, tried, history>>

\* Mutant: an unreadable file is taken for a first boot.
IdentityLoadMints ==
  /\ pc = "identity"
  /\ image.build = "plain"
  /\ idFile.kind # "absent"
  /\ \/ /\ idFile.kind = "plain"
        /\ identity' = idFile.key
        /\ pc' = "rest"
        /\ UNCHANGED minted
     \/ /\ idFile.kind # "plain"
        /\ Generate
        /\ pc' = "persist"
  /\ UNCHANGED <<image, flash, tried, history>>

IdentityLoad ==
  /\ pc = "identity"
  /\ image.build = "plain"
  /\ idFile.kind # "absent"
  /\ \/ /\ idFile.kind = "plain"
        /\ identity' = idFile.key
        /\ pc' = "rest"
     \/ /\ idFile.kind # "plain" \/ "id_read" \in Faults
        /\ pc' = "halted"             \* present but unreadable: refuse
        /\ UNCHANGED identity
  /\ UNCHANGED <<image, flash, tried, minted, history>>

\* vault_open: read the counter and refuse at the limit.  vault_tries_read takes
\* a counter it cannot read for none.
VaultRead ==
  /\ pc = "identity"
  /\ image.build = "vault"
  /\ idFile.kind # "absent"
  /\ \/ tried' = tries
     \/ "tries_read" \in Faults /\ tried' = 0
  /\ pc' = IF tried' >= VAULT_MAX_TRIES THEN "halted" ELSE "charge"
  /\ UNCHANGED <<image, flash, identity, minted, history>>

\* Mutant: the increment stays in RAM.
VaultChargeInRam ==
  /\ pc = "charge"
  /\ attempted' = TRUE
  /\ pc' = "open"
  /\ UNCHANGED <<image, flash, tried, identity, minted, guesses, erased, address>>

\* vault_tries_write: the result of write_file is not looked at.
VaultCharge ==
  /\ pc = "charge"
  /\ \/ tries' = (tried + 1) % 256
     \/ "tries_write" \in Faults /\ UNCHANGED tries
  /\ attempted' = TRUE
  /\ pc' = "open"
  /\ UNCHANGED <<image, idFile, idCode, tried, identity, minted, stored,
                 guesses, erased, address>>

\* password_open fails on a file of the wrong size, or read as such, without
\* memory, and on a MAC that does not match; only the last tests a guess.
Opens == idFile.kind = "sealed" /\ idCode = image.code
WrongGuess == idFile.kind = "sealed" /\ idCode # image.code

VaultOpenFails ==
  /\ pc = "open"
  /\ \/ /\ ~Opens
        /\ guesses' = IF WrongGuess THEN guesses + 1 ELSE guesses
     \/ /\ Faults \cap {"alloc", "id_read"} # {}
        /\ UNCHANGED guesses
  /\ pc' = IF VAULT_MAX_TRIES - tried - 1 = 0 THEN "erase" ELSE "halted"
  /\ UNCHANGED <<image, flash, tried, identity, minted, attempted, erased, address>>

VaultOpens ==
  /\ pc = "open"
  /\ Opens
  /\ identity' = idFile.key
  /\ guesses' = 0
  /\ pc' = "clear"
  /\ UNCHANGED <<image, flash, tried, minted, attempted, erased, address>>

\* Mutant: the wrong file is removed.
VaultEraseCounter ==
  /\ pc = "erase"
  /\ tries' = 0
  /\ erased' = erased \cup ({idFile.key} \ {NoKey})
  /\ pc' = "halted"
  /\ UNCHANGED <<image, idFile, idCode, tried, identity, minted, stored,
                 guesses, attempted, address>>

\* remove_file(IDENTITY_PATH), the only copy of the key.  The result is not looked
\* at, and the device says "identity vault destroyed" in either case; a key that
\* stays is meant to be as good as gone if it is sealed.  A plain one never was in
\* a vault: it is what it was before a vault image met it.
VaultErase ==
  /\ pc = "erase"
  /\ \/ /\ idFile' = NoFile
        /\ erased' = erased \cup ({idFile.key} \ {NoKey})
     \/ /\ "id_remove" \in Faults
        /\ erased' = erased \cup (IF idFile.kind = "sealed" THEN {idFile.key} ELSE {})
        /\ UNCHANGED idFile
  /\ pc' = "halted"
  /\ UNCHANGED <<image, idCode, tries, tried, identity, minted, stored,
                 guesses, attempted, address>>

\* remove_file(VAULT_TRIES_PATH), once the key is loaded.
VaultClear ==
  /\ pc = "clear"
  /\ \/ tries' = 0 /\ pc' = "rest"
     \/ "tries_remove" \in Faults /\ pc' = "rest" /\ UNCHANGED tries
     \/ "load" \in Faults /\ pc' = "halted" /\ UNCHANGED tries
  /\ UNCHANGED <<image, idFile, idCode, tried, identity, minted, stored, history>>

\* The private key under a key derived from the code, MACed.
password_protect(key) == [kind |-> "sealed", key |-> key]

\* vault_seal or to_file: one write_file whose length is checked.
IdentityPersist ==
  /\ pc = "persist"
  /\ \/ /\ idFile' = IF image.build = "vault" THEN password_protect(identity)
                     ELSE [kind |-> "plain", key |-> identity]
        /\ idCode' = image.code
        /\ guesses' = 0
        /\ attempted' = FALSE
        /\ pc' = "rest"
     \/ /\ "seal_write" \in Faults
        /\ idFile' \in {NoFile, TornFile}
        /\ pc' = "halted"
        /\ UNCHANGED <<idCode, guesses, attempted>>
  /\ UNCHANGED <<image, tries, tried, identity, minted, stored, erased, address>>

\* Steps 3 and later, which leave this state alone; BringUp models them.
RestOfSetup ==
  /\ pc = "rest"
  /\ pc' = "up"
  /\ address' = IF image.build = "ephemeral" THEN address ELSE identity
  /\ UNCHANGED <<image, flash, tried, identity, minted, guesses, attempted,
                 erased>>

\* store_message: the codec was given the identity of this boot.  An ephemeral
\* boot does not write to the external flash.
StoreMessage ==
  /\ pc = "up"
  /\ image.build # "ephemeral"
  /\ stored' = stored \cup {identity}
  /\ UNCHANGED <<ram, idFile, idCode, tries, minted, history>>

Next ==
  \/ \E i \in Images : PowerOn(i)
  \/ PowerCut
  \/ bringup_storage
  \/ IdentityEphemeral
  \/ IdentityCreate
  \/ IdentityLoad
  \/ VaultRead
  \/ VaultCharge
  \/ VaultOpenFails
  \/ VaultOpens
  \/ VaultErase
  \/ VaultClear
  \/ IdentityPersist
  \/ RestOfSetup
  \/ StoreMessage

Spec == Init /\ [][Next]_vars

-----------------------------------------------------------------------------
\* Properties.

\* README.md: "Ten wrong codes destroy the vault", and main.cpp:798 "Pulling
\* power mid-attempt must not hand back a free guess, so this fails closed".
\* No schedule of boots, images and power cuts lets more than VAULT_MAX_TRIES
\* wrong codes be tested against a vault that the right code did not open in
\* between, as long as the counter is written and read when vault_open asks.
GuessesBounded == guesses <= VAULT_MAX_TRIES

\* README.md: the tenth failure "deletes the only copy of the key & every
\* stored message with it".  A key the limit destroyed is never the key of a
\* later boot, whatever image runs, so no boot can read a message stored under
\* it: it is off the flash for good or, where remove_file failed, sealed behind a
\* counter that refuses every attempt.
EraseIsFinal ==
  \A k \in erased :
    /\ pc \notin {"off", "halted"} => identity # k
    /\ idFile.key = k => idFile.kind = "sealed" /\ tries >= VAULT_MAX_TRIES

\* main.cpp:757 "identity, created once and loaded forever after".  A boot that
\* completes has the address of the last boot that completed, unless the
\* attempt limit destroyed that identity in between.
AddressStable ==
  [][ \/ address' = address
      \/ address = NoKey
      \/ address \in erased ]_vars

\* A message stored under an identity that was not destroyed stays readable:
\* the flash still holds the one key it is encrypted under, through every
\* interrupted and failed boot.
StoredStaysReadable ==
  \A k \in stored \ erased : idFile.key = k

\* main.cpp:760 "First boot generates and writes; every later boot reads".  A
\* boot with the very code the vault was sealed under is refused for too many
\* attempts only if some attempt was ever charged against this vault.
NewVaultNotLockedOut ==
  (pc = "halted" /\ Opens) => (tried < VAULT_MAX_TRIES \/ attempted)
=============================================================================
