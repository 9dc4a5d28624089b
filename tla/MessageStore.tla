---------------------------- MODULE MessageStore ----------------------------
(***************************************************************************)
(* The encrypted message store: the codec of lib/EncryptedStore, step 5 of *)
(* the bring-up in src/main.cpp, which attaches it after a self-test, and  *)
(* store_message, which the delivery callback and send_lxmf call.          *)
(*                                                                         *)
(* Cryptography is symbolic: a MAC is the record of what it was computed   *)
(* over, and a ciphertext opens under the key and IV it was made with and  *)
(* gives Garbage under others.  LXMF::MessageStore, outside this           *)
(* repository, is modelled from its use: it passes what it saves through   *)
(* the codec it was given, or writes it as it is when it was given none,   *)
(* answers whether the file was written, and deletes the oldest message    *)
(* when a conversation is full.                                            *)
(*                                                                         *)
(* Power can be cut between any two steps and during a write.  The         *)
(* identity of a boot is that of the last one, or a new one if the old was *)
(* destroyed; IdentityVault shows that nothing else happens to it.         *)
(***************************************************************************)
EXTENDS Integers, FiniteSets, Sequences

CONSTANTS
  Messages,       \* the messages that come in or go out
  MaxIdentities,  \* bound: identities of one behaviour
  Room,           \* how many message-sized files the flash holds
  MAX_MESSAGES,   \* MAX_MESSAGES_PER_CONVERSATION
  MaxDamage,      \* bound: files damaged in one behaviour
  MaxSaves,       \* bound: calls of store_message in one boot
  Faults          \* which failures occur, see StoreFaults

StoreFaults == {
  "heap",     \* an allocation fails: the router's, or the codec's buffer
  "codec",    \* set_codec leaves the store without a codec
  "silicon",  \* the cipher or the MAC computes wrongly on this device
  "write",    \* a write stops short though there is room
  "read",     \* a file that was written cannot be read
  "remove",   \* a file cannot be removed
  "erase"     \* the identity is destroyed between two boots
}

Probe == "/.thicket_selftest"
Garbage == "garbage"

ASSUME StoreAssumption ==
  /\ Messages \cap {Probe, Garbage} = {}
  /\ MaxIdentities \in Nat \ {0}
  /\ Room \in Nat
  /\ MAX_MESSAGES \in Nat \ {0}
  /\ MaxDamage \in Nat
  /\ MaxSaves \in Nat
  /\ Faults \subseteq StoreFaults

NoIdentity == 0
Identity == 1..MaxIdentities

-----------------------------------------------------------------------------
\* The codec.

IVs == {"iv1", "iv2"}
VERSION == 1
NoKey == <<"none", NoIdentity>>

\* HKDF over the private key, salted with the identity's hash.
derive_keys(id) == [aes |-> <<"aes", id>>, hmac |-> <<"hmac", id>>]

\* Mutant: the IV is left out.
compute_mac_no_iv(key, version, iv, ct) ==
  [key |-> key, version |-> version, iv |-> "iv1", ct |-> ct]

compute_mac(key, version, iv, ct) ==
  [key |-> key, version |-> version, iv |-> iv, ct |-> ct]

\* How: what of the codec works on this device, for the self-test to find out.
encstore_encrypt(id, text, iv, how) ==
  LET ct == [key |-> derive_keys(id).aes, iv |-> iv,
             text |-> IF how = "no cipher" THEN Garbage ELSE text]
      key == IF how = "no mac" THEN NoKey ELSE derive_keys(id).hmac
  IN  [short |-> FALSE, version |-> VERSION, iv |-> iv, ct |-> ct,
       mac |-> compute_mac(key, VERSION, iv, ct)]

\* A file as it is, for a store without a codec.
InClear(text) ==
  LET ct == [key |-> NoKey, iv |-> "iv1", text |-> text]
  IN  [short |-> FALSE, version |-> 0, iv |-> "iv1", ct |-> ct,
       mac |-> compute_mac(NoKey, 0, "iv1", ct)]

\* A file too short to hold the version, the IV and the MAC; and no file.
ShortFile == [InClear(Garbage) EXCEPT !.short = TRUE]
NoFile == [ShortFile EXCEPT !.version = 255]

Refused == "refused"

\* The MAC is checked before anything is decrypted.
encstore_decrypt(id, blob) ==
  IF \/ blob.short
     \/ blob.mac # compute_mac(derive_keys(id).hmac, blob.version, blob.iv, blob.ct)
  THEN Refused
  ELSE IF blob.ct.key = derive_keys(id).aes /\ blob.ct.iv = blob.iv
       THEN blob.ct.text ELSE Garbage

\* A missing file reads as zero bytes.
encstore_read(id, file) == IF file = NoFile THEN Refused ELSE encstore_decrypt(id, file)

\* What damage makes of a file: each of its parts, changed.
Damaged(blob) == {
  ShortFile,
  [blob EXCEPT !.version = 2],
  [blob EXCEPT !.iv = IF @ = "iv1" THEN "iv2" ELSE "iv1"],
  [blob EXCEPT !.ct.text = Garbage],
  [blob EXCEPT !.mac.key = NoKey] }

\* What a write that stops short leaves: nothing, a piece too short, or one
\* whose last 32 bytes are not the MAC.
Torn(blob) == {NoFile, ShortFile, [blob EXCEPT !.ct.text = Garbage, !.mac.key = NoKey]}

-----------------------------------------------------------------------------
VARIABLES
  flash,     \* path -> file
  kept,      \* the messages the store's index names, the oldest first
  identity,  \* g_identity
  pc,        \* where bringup_lxmf stands; "off", "halted" and "up" besides
  codec,     \* the identity set_codec captured
  works,     \* what of the codec works on this device in this boot
  callback,  \* the delivery callback is registered
  sealed, why,  \* locals of the self-test
  stuck,     \* history: the self-test of this boot failed to remove its probe
  damage,    \* history: damaged files, for the bound
  owner,     \* history: message -> identity store_message reported it saved under
  counts     \* g_saved_in + g_saved_out and g_save_failures

disk == <<flash, kept>>
locals == <<sealed, why, stuck>>
vars == <<flash, kept, identity, pc, codec, works, callback, sealed, why, stuck, damage,
          owner, counts>>

Paths == Messages \cup {Probe}
Files == {p \in Paths : flash[p] # NoFile}

\* There is room for the file at p.
Fits(p) == Cardinality(Files \cup {p}) <= Room

BootSteps == {"router", "store", "codec", "encrypt", "write", "read", "verify", "remove",
              "register"}

\* What a file can be made of.
Texts == Messages \cup {Probe, Garbage}
Keys == {"aes", "hmac", "none"} \X (Identity \cup {NoIdentity})
Ciphertext == [key : Keys, iv : IVs, text : Texts]
Mac == [key : Keys, version : Nat, iv : IVs, ct : Ciphertext]
File == [short : BOOLEAN, version : Nat, iv : IVs, ct : Ciphertext, mac : Mac]

StoreTypeOK ==
  /\ flash \in [Paths -> File]
  /\ identity \in Identity
  /\ pc \in BootSteps \cup {"off", "halted", "up"}
  /\ codec \in Identity \cup {NoIdentity}
  /\ works \in {"all", "no cipher", "no mac"}
  /\ callback \in BOOLEAN
  /\ sealed \in File
  /\ why \in BOOLEAN
  /\ stuck \in BOOLEAN
  /\ damage \in 0..MaxDamage
  /\ owner \in [Messages -> Identity \cup {NoIdentity}]
  /\ counts \in [saved : Nat, failures : Nat]

Init ==
  /\ flash = [p \in Paths |-> NoFile]
  /\ kept = <<>>
  /\ identity = 1
  /\ pc = "off"
  /\ codec = NoIdentity
  /\ works = "all"
  /\ callback = FALSE
  /\ sealed = NoFile
  /\ why = FALSE
  /\ stuck = FALSE
  /\ damage = 0
  /\ owner = [m \in Messages |-> NoIdentity]
  /\ counts = [saved |-> 0, failures |-> 0]

-----------------------------------------------------------------------------
\* Power, and what time does to a flash.

PowerOn ==
  /\ pc = "off"
  /\ pc' = "router"
  /\ \/ UNCHANGED identity
     \/ "erase" \in Faults /\ identity < MaxIdentities /\ identity' = identity + 1
  /\ works' \in {"all"} \cup
                IF "silicon" \in Faults THEN {"no cipher", "no mac"} ELSE {}
  /\ codec' = NoIdentity
  /\ callback' = FALSE
  /\ sealed' = NoFile
  /\ why' = FALSE
  /\ stuck' = FALSE
  /\ counts' = [saved |-> 0, failures |-> 0]
  /\ UNCHANGED <<disk, damage, owner>>

\* The write of the probe or of a message may be under way.  LittleFS leaves an
\* existing file as it was; one that is being created may be left short.
PowerCut ==
  /\ pc # "off"
  /\ pc' = "off"
  /\ \/ UNCHANGED flash
     \/ \E p \in Paths :
          /\ pc = IF p = Probe THEN "write" ELSE "up"
          /\ flash[p] = NoFile
          /\ Fits(p)
          /\ flash' = [flash EXCEPT ![p] = ShortFile]
  /\ UNCHANGED <<kept, identity, codec, works, callback, locals, damage, owner, counts>>

\* A stored message is damaged: the store has not lost it, and nobody knows yet.
Decay(m) ==
  /\ damage < MaxDamage
  /\ flash[m] # NoFile
  /\ \E blob \in Damaged(flash[m]) \ {flash[m]} : flash' = [flash EXCEPT ![m] = blob]
  /\ damage' = damage + 1
  /\ owner' = [owner EXCEPT ![m] = NoIdentity]
  /\ UNCHANGED <<kept, identity, pc, codec, works, callback, locals, counts>>

-----------------------------------------------------------------------------
\* bringup_lxmf.

Router ==
  /\ pc = "router"
  /\ pc' \in {"store"} \cup IF "heap" \in Faults THEN {"halted"} ELSE {}
  /\ UNCHANGED <<disk, identity, codec, works, callback, locals, damage, owner, counts>>

\* Mutant: set_codec is taken at its word.
AttachCodecUnchecked ==
  /\ pc = "store"
  /\ codec' \in {identity} \cup IF "codec" \in Faults THEN {NoIdentity} ELSE {}
  /\ pc' = "encrypt"
  /\ UNCHANGED <<disk, identity, works, callback, locals, damage, owner, counts>>

\* The static store, set_codec with the identity of this boot, and has_codec.
AttachCodec ==
  /\ pc = "store"
  /\ codec' \in {identity} \cup IF "codec" \in Faults THEN {NoIdentity} ELSE {}
  /\ pc' = IF codec' = NoIdentity THEN "halted" ELSE "encrypt"
  /\ UNCHANGED <<disk, identity, works, callback, locals, damage, owner, counts>>

\* The self-test: encrypt, ...
ProbeEncrypt ==
  /\ pc = "encrypt"
  /\ \/ \E iv \in IVs : sealed' = encstore_encrypt(identity, Probe, iv, works)
        /\ pc' = "write" /\ UNCHANGED why
     \/ "heap" \in Faults /\ why' = TRUE /\ pc' = "remove" /\ UNCHANGED sealed
  /\ UNCHANGED <<disk, identity, codec, works, callback, stuck, damage, owner, counts>>

\* write_file that stops short: for want of room, or even so.
WriteFails(p, blob) ==
  /\ "write" \in Faults \/ ~Fits(p)
  /\ \E t \in Torn(blob) : /\ t = NoFile \/ Fits(p)
                           /\ flash' = [flash EXCEPT ![p] = t]

\* ... write, ...
ProbeWrite ==
  /\ pc = "write"
  /\ \/ Fits(Probe) /\ flash' = [flash EXCEPT ![Probe] = sealed] /\ pc' = "read" /\ why' = FALSE
     \/ WriteFails(Probe, sealed) /\ pc' = "remove" /\ why' = TRUE
  /\ UNCHANGED <<kept, identity, codec, works, callback, sealed, stuck, damage, owner, counts>>

\* ... read, ...
ProbeRead ==
  /\ pc = "read"
  /\ \/ sealed' = flash[Probe] /\ pc' = "verify" /\ UNCHANGED why
     \/ "read" \in Faults /\ why' = TRUE /\ pc' = "remove" /\ UNCHANGED sealed
  /\ UNCHANGED <<disk, identity, codec, works, callback, stuck, damage, owner, counts>>

\* Mutant: what came back is not compared with what went in.
ProbeVerifyOpensOnly ==
  /\ pc = "verify"
  /\ why' = (encstore_decrypt(identity, sealed) = Refused)
  /\ pc' = "remove"
  /\ UNCHANGED <<disk, identity, codec, works, callback, sealed, stuck, damage, owner, counts>>

\* ... decrypt and compare.
ProbeVerify ==
  /\ pc = "verify"
  /\ why' = (encstore_decrypt(identity, sealed) # Probe)
  /\ pc' = "remove"
  /\ UNCHANGED <<disk, identity, codec, works, callback, sealed, stuck, damage, owner, counts>>

\* Mutant: only a test that failed removes the probe.
ProbeRemove_failed ==
  /\ pc = "remove"
  /\ flash' = IF why THEN [flash EXCEPT ![Probe] = NoFile] ELSE flash
  /\ pc' = IF why THEN "halted" ELSE "register"
  /\ UNCHANGED <<kept, identity, codec, works, callback, locals, damage, owner, counts>>

\* Whatever happened, the probe is removed, or cannot be, which nobody looks at; and
\* then the verdict.
ProbeRemove ==
  /\ pc = "remove"
  /\ \/ flash' = [flash EXCEPT ![Probe] = NoFile] /\ UNCHANGED stuck
     \/ "remove" \in Faults /\ stuck' = TRUE /\ UNCHANGED flash
  /\ pc' = IF why THEN "halted" ELSE "register"
  /\ UNCHANGED <<kept, identity, codec, works, callback, sealed, why, damage, owner, counts>>

\* register_delivery_callback, and the rest of setup().
Register ==
  /\ pc = "register"
  /\ callback' = TRUE
  /\ pc' = "up"
  /\ UNCHANGED <<disk, identity, codec, works, locals, damage, owner, counts>>

-----------------------------------------------------------------------------
\* store_message.

Encode(m, iv) == IF codec = NoIdentity THEN InClear(m)
                 ELSE encstore_encrypt(codec, m, iv, works)

Without(s, m) == SelectSeq(s, LAMBDA x : x # m)

\* save_message returns true.  Over the limit, the oldest message is deleted.
Saved(m, iv) ==
  LET now == Append(Without(kept, m), m)
      cull == IF Len(now) > MAX_MESSAGES THEN {Head(now)} ELSE {}
  IN  /\ Fits(m)
      /\ flash' = [p \in Paths |-> IF p \in cull THEN NoFile
                                   ELSE IF p = m THEN Encode(m, iv) ELSE flash[p]]
      /\ kept' = IF cull = {} THEN now ELSE Tail(now)
      /\ owner' = [x \in Messages |-> IF x \in cull THEN NoIdentity
                                      ELSE IF x = m THEN codec ELSE owner[x]]
      /\ counts' = [counts EXCEPT !.saved = @ + 1]

\* save_message returns false: the codec had no memory, or the write stopped.
NotSaved(m, iv) ==
  /\ \/ "heap" \in Faults /\ UNCHANGED <<flash, owner>>
     \/ WriteFails(m, Encode(m, iv)) /\ owner' = [owner EXCEPT ![m] = NoIdentity]
  /\ counts' = [counts EXCEPT !.failures = @ + 1]
  /\ UNCHANGED kept

\* A message exists as an object at two points: in the delivery callback, once it
\* is registered, and in send_lxmf, which the work task calls.
store_message(m) ==
  /\ callback
  /\ pc = "up"
  /\ counts.saved + counts.failures < MaxSaves
  /\ \E iv \in IVs : Saved(m, iv) \/ NotSaved(m, iv)
  /\ UNCHANGED <<identity, pc, codec, works, callback, locals, damage>>

Next ==
  \/ PowerOn \/ PowerCut
  \/ Router \/ AttachCodec
  \/ ProbeEncrypt \/ ProbeWrite \/ ProbeRead \/ ProbeVerify \/ ProbeRemove
  \/ Register
  \/ \E m \in Messages : store_message(m) \/ Decay(m)

Spec == Init /\ [][Next]_vars

-----------------------------------------------------------------------------
\* Properties.

\* main.cpp:1060 "refusing to store in the clear": whatever fails during the
\* bring-up, no message is on the flash as it was written.
NothingInClear == \A m \in Messages : flash[m].ct.key = NoKey => flash[m].short

\* encrypted_store.h:29: "tampering, corruption, or a wrong identity are all
\* detected before any plaintext is produced".  Whatever a write that stopped,
\* a power cut or damage left in a file, under any identity it gives the message
\* that was stored there, by that identity, or nothing.
OpensOnlyOwn ==
  \A m \in Messages, id \in Identity :
    encstore_read(id, flash[m]) \in {m, Refused}

\* main.cpp:1085 "Prove the store can actually store, here, on this filesystem,
\* before claiming it's attached".  Every message that was counted as saved, in
\* this boot or an earlier one, and was not culled or damaged since, opens under
\* the identity it was saved under and under no other.
SavedReadsBack ==
  \A m \in Messages : owner[m] # NoIdentity =>
    \A id \in Identity : encstore_read(id, flash[m]) = IF id = owner[m] THEN m ELSE Refused

\* main.cpp:1088: the device once reported "message store attached" with 128
\* bytes free, "while every save failed".  When a boot attaches the store, the
\* messages leave room for one more, and no file of this or an earlier, interrupted
\* self-test is in the way, unless removing it failed: the result of remove_file is
\* not looked at (main.cpp:1146), so that a probe that stays can hold the last room
\* of a store reported attached.
AttachedHasRoom ==
  [][pc # "up" /\ pc' = "up" =>
       /\ Cardinality({m \in Messages : flash'[m] # NoFile}) < Room
       /\ flash'[Probe] = NoFile \/ stuck']_vars
=============================================================================
