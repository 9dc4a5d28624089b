------------------------- MODULE MessageStoreProofs -------------------------
(***************************************************************************)
(* Proofs about MessageStore, for every set of messages, every room on the *)
(* flash, every limit of the conversation and every choice of failures.    *)
(*                                                                         *)
(* What a file gives when it is read says too little about the file to be  *)
(* inductive: damage can undo damage.  StoreInv says instead what no       *)
(* damage changes, that a MAC which is a MAC at all was made for this      *)
(* path's message by a working codec, and what the bring-up has shown of   *)
(* the codec by the step it stands at.                                     *)
(***************************************************************************)
EXTENDS MessageStore, FiniteSetTheorems, TLAPS

\* Whole: the file as a working codec made it.
Whole(blob, id, text) == \E iv \in IVs : blob = encstore_encrypt(id, text, iv, "all")

\* The self-test's file goes through the flash unchanged, and only a codec that
\* works brings the boot past the verdict.
BootInv ==
  /\ pc \in {"encrypt", "write", "read", "verify", "remove", "register", "up"}
       => codec = identity
  /\ pc \in {"write", "verify"}
       => \E iv \in IVs : sealed = encstore_encrypt(identity, Probe, iv, works)
  /\ pc = "read"
       => \E iv \in IVs : flash[Probe] = encstore_encrypt(identity, Probe, iv, works)
  /\ (pc = "remove" /\ ~why) \/ pc \in {"register", "up"} => works = "all"

\* A file of its full length is a ciphertext, and its MAC, if it is one, is that
\* of the message the path is named for.
Sound(blob, m) ==
  \/ blob.short
  \/ /\ blob.ct.key # NoKey
     /\ \/ blob.mac.key = NoKey
        \/ \E id \in Identity, iv \in IVs :
             blob.mac = encstore_encrypt(id, m, iv, "all").mac

SoundInv == \A m \in Messages : Sound(flash[m], m)

OwnerInv == \A m \in Messages : owner[m] # NoIdentity => Whole(flash[m], owner[m], m)

StoreInv == StoreTypeOK /\ BootInv /\ SoundInv /\ OwnerInv

-----------------------------------------------------------------------------
\* The codec.

\* encstore_encrypt makes a file.
LEMMA EncryptType ==
  ASSUME NEW id \in Identity, NEW text \in Texts, NEW iv \in IVs,
         NEW how \in {"all", "no cipher", "no mac"}
  PROVE  encstore_encrypt(id, text, iv, how) \in File
BY DEF encstore_encrypt, compute_mac, derive_keys, File, Mac, Ciphertext, Keys, Texts,
       NoKey, VERSION, NoIdentity

\* And not a short one.
LEMMA EncryptLong ==
  ASSUME NEW id, NEW text, NEW iv, NEW how
  PROVE  encstore_encrypt(id, text, iv, how).short = FALSE
BY DEF encstore_encrypt

\* The two files that are no message's are files.
LEMMA ShortType == ShortFile \in File /\ ShortFile.short /\ NoFile \in File /\ NoFile.short
<1>1. InClear(Garbage) \in File
  BY DEF InClear, compute_mac, File, Mac, Ciphertext, Keys, Texts, NoKey, IVs, NoIdentity
<1>2. ShortFile \in File /\ ShortFile.short
  BY <1>1 DEF ShortFile, File
<1> QED
  BY <1>2 DEF NoFile, File

LEMMA EncryptedIsFile ==
  ASSUME NEW id, NEW text, NEW iv, NEW how
  PROVE  encstore_encrypt(id, text, iv, how) # NoFile
BY EncryptLong, ShortType

\* A whole file is sound.
LEMMA WholeSound ==
  ASSUME NEW id \in Identity, NEW m \in Messages, NEW iv \in IVs
  PROVE  Sound(encstore_encrypt(id, m, iv, "all"), m)
BY DEF Sound, encstore_encrypt, derive_keys, NoKey

\* Damage and a write that stops short make files, and sound ones of sound ones.
LEMMA DamageSound ==
  ASSUME NEW m \in Messages, NEW blob \in File, Sound(blob, m),
         NEW new \in Damaged(blob)
  PROVE  new \in File /\ Sound(new, m)
<1>1. NoKey \in Keys /\ Garbage \in Texts
  BY DEF NoKey, Keys, Texts, NoIdentity
<1>2. CASE new = ShortFile
  BY <1>2, ShortType DEF Sound
<1>3. CASE new = [blob EXCEPT !.version = 2]
  BY <1>3 DEF File, Sound
<1>4. CASE new = [blob EXCEPT !.iv = IF @ = "iv1" THEN "iv2" ELSE "iv1"]
  BY <1>4 DEF File, Sound, IVs
<1>5. CASE new = [blob EXCEPT !.ct.text = Garbage]
  BY <1>1, <1>5 DEF File, Ciphertext, Sound
<1>6. CASE new = [blob EXCEPT !.mac.key = NoKey]
  BY <1>1, <1>6 DEF File, Mac, Sound
<1> QED
  BY <1>2, <1>3, <1>4, <1>5, <1>6 DEF Damaged

LEMMA TornSound ==
  ASSUME NEW m \in Messages, NEW blob \in File, Sound(blob, m), NEW new \in Torn(blob)
  PROVE  new \in File /\ Sound(new, m)
<1>1. NoKey \in Keys /\ Garbage \in Texts
  BY DEF NoKey, Keys, Texts, NoIdentity
<1>2. CASE new \in {NoFile, ShortFile}
  BY <1>2, ShortType DEF Sound
<1>3. CASE new = [blob EXCEPT !.ct.text = Garbage, !.mac.key = NoKey]
  BY <1>1, <1>3 DEF File, Ciphertext, Mac, Sound
<1> QED
  BY <1>2, <1>3 DEF Torn

\* A sound file gives its message or nothing.
LEMMA SoundOpens ==
  ASSUME NEW m \in Messages, NEW blob \in File, Sound(blob, m), NEW id \in Identity
  PROVE  encstore_read(id, blob) \in {m, Refused}
<1> SUFFICES ASSUME ~blob.short,
                    blob.mac = compute_mac(derive_keys(id).hmac, blob.version, blob.iv, blob.ct)
             PROVE  blob.ct.text = m /\ blob.ct.key = derive_keys(id).aes
                      /\ blob.ct.iv = blob.iv
  BY DEF encstore_read, encstore_decrypt
<1>1. blob.mac.key = <<"hmac", id>> /\ blob.mac.iv = blob.iv /\ blob.mac.ct = blob.ct
  BY DEF compute_mac, derive_keys
<1>2. blob.mac.key # NoKey
  BY <1>1 DEF NoKey
<1>3. PICK id2 \in Identity, iv \in IVs :
        blob.mac = encstore_encrypt(id2, m, iv, "all").mac
  BY <1>2 DEF Sound
<1>4. /\ blob.mac.key = <<"hmac", id2>>
      /\ blob.mac.iv = iv
      /\ blob.mac.ct = [key |-> <<"aes", id2>>, iv |-> iv, text |-> m]
  BY <1>3 DEF encstore_encrypt, compute_mac, derive_keys
<1>5. id2 = id
  BY <1>1, <1>4
<1> QED
  BY <1>1, <1>4, <1>5 DEF derive_keys

\* A whole file gives its message to its identity and nothing to others.
LEMMA WholeOpens ==
  ASSUME NEW m \in Texts, NEW own \in Identity, NEW blob, Whole(blob, own, m),
         NEW id \in Identity
  PROVE  encstore_read(id, blob) = IF id = own THEN m ELSE Refused
<1>1. PICK iv \in IVs : blob = encstore_encrypt(own, m, iv, "all")
  BY DEF Whole
<1>2. /\ blob.short = FALSE /\ blob.version = VERSION /\ blob.iv = iv
      /\ blob.ct = [key |-> <<"aes", own>>, iv |-> iv, text |-> m]
      /\ blob.mac = [key |-> <<"hmac", own>>, version |-> VERSION, iv |-> iv, ct |-> blob.ct]
  BY <1>1 DEF encstore_encrypt, compute_mac, derive_keys
<1>3. blob # NoFile
  BY <1>2, ShortType
<1>4. CASE id = own
  BY <1>2, <1>3, <1>4 DEF encstore_read, encstore_decrypt, compute_mac, derive_keys
<1>5. CASE id # own
  <2>1. blob.mac.key # derive_keys(id).hmac
    BY <1>2, <1>5 DEF derive_keys
  <2> QED
    BY <1>3, <1>5, <2>1 DEF encstore_read, encstore_decrypt, compute_mac
<1> QED
  BY <1>4, <1>5

\* The self-test's verdict: what comes back is the probe only if all of the
\* codec works.
LEMMA VerdictMeansWorks ==
  ASSUME NEW id \in Identity, NEW iv \in IVs, NEW how \in {"all", "no cipher", "no mac"},
         encstore_decrypt(id, encstore_encrypt(id, Probe, iv, how)) = Probe
  PROVE  how = "all"
<1>1. CASE how = "no cipher"
  BY <1>1 DEF encstore_decrypt, encstore_encrypt, compute_mac, derive_keys, Probe, Garbage,
             Refused
<1>2. CASE how = "no mac"
  BY <1>2 DEF encstore_decrypt, encstore_encrypt, compute_mac, derive_keys, Probe, Refused,
             NoKey
<1> QED
  BY <1>1, <1>2

-----------------------------------------------------------------------------
\* The steps.

\* Counting up to the bounds.
LEMMA CountersType ==
  /\ \A i \in Identity : i < MaxIdentities => i + 1 \in Identity
  /\ \A d \in 0..MaxDamage : d < MaxDamage => d + 1 \in 0..MaxDamage
  /\ \A c \in [saved : Nat, failures : Nat] :
       /\ [c EXCEPT !.saved = c.saved + 1] \in [saved : Nat, failures : Nat]
       /\ [c EXCEPT !.failures = c.failures + 1] \in [saved : Nat, failures : Nat]
BY StoreAssumption DEF Identity, StoreAssumption

\* Steps of the boot that leave the flash and the index of owners alone.
LEMMA QuietStep ==
  ASSUME StoreInv, PowerOn \/ Router \/ AttachCodec \/ ProbeEncrypt \/ ProbeRead
                     \/ ProbeVerify \/ Register
  PROVE  StoreInv'
<1> USE DEF StoreInv, StoreTypeOK, BootInv, BootSteps, disk, locals
<1>0. Probe \in Paths /\ Probe \in Texts /\ identity \in Identity
  BY DEF Paths, Texts
<1>1. UNCHANGED <<flash, owner>>
  BY DEF PowerOn, Router, AttachCodec, ProbeEncrypt, ProbeRead, ProbeVerify, Register
<1>2. SoundInv' /\ OwnerInv'
  BY <1>1 DEF SoundInv, OwnerInv, Sound, Whole
<1>3. CASE PowerOn
  <2>1. identity' \in Identity
    <3>1. \/ identity' = identity
          \/ identity < MaxIdentities /\ identity' = identity + 1
      BY <1>3 DEF PowerOn
    <3> QED
      BY <3>1, CountersType
  <2>2. StoreTypeOK'
    BY <1>3, <2>1, ShortType DEF PowerOn
  <2> QED
    BY <1>2, <1>3, <2>2 DEF PowerOn
<1>4. CASE Router
  BY <1>2, <1>4 DEF Router
<1>5. CASE AttachCodec
  BY <1>2, <1>5 DEF AttachCodec, NoIdentity, Identity
<1>6. CASE ProbeEncrypt
  <2>1. CASE pc' = "write"
    <3>1. PICK iv \in IVs : sealed' = encstore_encrypt(identity, Probe, iv, works)
      BY <1>6, <2>1 DEF ProbeEncrypt
    <3>2. sealed' \in File
      BY <1>0, <3>1, EncryptType
    <3> QED
      BY <1>2, <1>6, <2>1, <3>1, <3>2 DEF ProbeEncrypt
  <2>2. CASE pc' # "write"
    BY <1>2, <1>6, <2>2 DEF ProbeEncrypt
  <2> QED
    BY <2>1, <2>2
<1>7. CASE ProbeRead
  BY <1>0, <1>2, <1>7 DEF ProbeRead
<1>8. CASE ProbeVerify
  <2>1. PICK iv \in IVs : sealed = encstore_encrypt(identity, Probe, iv, works)
    BY <1>8 DEF ProbeVerify
  <2>2. ~why' => works = "all"
    BY <1>0, <1>8, <2>1, VerdictMeansWorks DEF ProbeVerify
  <2>3. why' \in BOOLEAN
    BY <1>8 DEF ProbeVerify
  <2> QED
    BY <1>2, <1>8, <2>2, <2>3 DEF ProbeVerify
<1>9. CASE Register
  BY <1>2, <1>9 DEF Register
<1> QED
  BY <1>3, <1>4, <1>5, <1>6, <1>7, <1>8, <1>9

\* Writing the file of the self-test touches no message's.
LEMMA ProbeStep ==
  ASSUME StoreInv, ProbeWrite \/ ProbeRemove
  PROVE  StoreInv'
<1> USE DEF StoreInv, StoreTypeOK, BootInv, BootSteps, locals
<1>0. Probe \in Paths /\ (\A m \in Messages : m \in Paths /\ m # Probe)
  BY StoreAssumption DEF Paths, StoreAssumption
<1>1. \A t \in Torn(sealed) : t \in File
  <2>1. NoKey \in Keys /\ Garbage \in Texts
    BY DEF NoKey, Keys, Texts, NoIdentity
  <2> QED
    <3>1. [sealed EXCEPT !.ct.text = Garbage, !.mac.key = NoKey] \in File
      BY <2>1 DEF File, Ciphertext, Mac
    <3> QED
      BY <3>1, ShortType DEF Torn
<1>2. PICK t \in File : flash' = [flash EXCEPT ![Probe] = t]
  <2>1. CASE UNCHANGED flash
    <3>1. flash[Probe] \in File /\ flash' = [flash EXCEPT ![Probe] = flash[Probe]]
      BY <1>0, <2>1
    <3> QED BY <3>1
  <2> QED BY <1>1, <2>1, ShortType DEF ProbeWrite, WriteFails, ProbeRemove
<1>3. /\ flash' \in [Paths -> File]
      /\ \A m \in Messages : flash'[m] = flash[m]
      /\ owner' = owner
  BY <1>0, <1>2 DEF ProbeWrite, ProbeRemove
<1>4. SoundInv' /\ OwnerInv'
  BY <1>3 DEF SoundInv, OwnerInv
<1>5. CASE ProbeWrite
  <2>1. CASE pc' = "read"
    <3>1. flash'[Probe] = sealed
      BY <1>0, <1>5, <2>1 DEF ProbeWrite
    <3> QED
      BY <1>3, <1>4, <1>5, <2>1, <3>1 DEF ProbeWrite
  <2>2. CASE pc' # "read"
    BY <1>3, <1>4, <1>5, <2>2 DEF ProbeWrite
  <2> QED
    BY <2>1, <2>2
<1>6. CASE ProbeRemove
  BY <1>3, <1>4, <1>6 DEF ProbeRemove
<1> QED
  BY <1>5, <1>6

\* A cut of the power leaves every file, or one more that is too short.
LEMMA CutStep ==
  ASSUME StoreInv, PowerCut
  PROVE  StoreInv'
<1> USE DEF StoreInv, StoreTypeOK, BootInv, BootSteps, locals
<1>0. \A m \in Messages : m \in Paths
  BY DEF Paths
<1>1. /\ flash' \in [Paths -> File]
      /\ \A p \in Paths : flash'[p] = flash[p] \/ (flash[p] = NoFile /\ flash'[p] = ShortFile)
  BY ShortType DEF PowerCut
<1>2. SoundInv'
  BY <1>0, <1>1, ShortType DEF SoundInv, Sound
<1>3. ASSUME NEW m \in Messages, owner[m] # NoIdentity
      PROVE  flash[m] # NoFile
  <2>1. PICK iv \in IVs : flash[m] = encstore_encrypt(owner[m], m, iv, "all")
    BY <1>3 DEF OwnerInv, Whole
  <2> QED
    BY <2>1, EncryptedIsFile
<1>4. OwnerInv'
  BY <1>0, <1>1, <1>3 DEF PowerCut, OwnerInv, Whole
<1> QED
  BY <1>1, <1>2, <1>4 DEF PowerCut

\* Damage disowns the message it hits.
LEMMA DecayStep ==
  ASSUME StoreInv, NEW m \in Messages, Decay(m)
  PROVE  StoreInv'
<1> USE DEF StoreInv, StoreTypeOK, BootInv, BootSteps, locals
<1>0. Probe # m /\ Probe \in Paths /\ (\A n \in Messages : n \in Paths)
  BY StoreAssumption DEF Paths, StoreAssumption
<1>1. PICK blob \in Damaged(flash[m]) : flash' = [flash EXCEPT ![m] = blob]
  BY DEF Decay
<1>2. Sound(flash[m], m) /\ flash[m] \in File
  BY <1>0 DEF SoundInv
<1>3. blob \in File /\ Sound(blob, m)
  BY <1>2, DamageSound
<1>4. StoreTypeOK'
  <2>1. damage' \in 0..MaxDamage
    BY CountersType DEF Decay
  <2>2. flash' \in [Paths -> File] /\ owner' \in [Messages -> Identity \cup {NoIdentity}]
    BY <1>0, <1>1, <1>3 DEF Decay
  <2> QED
    BY <2>1, <2>2 DEF Decay
<1>5. SoundInv'
  BY <1>0, <1>1, <1>3 DEF SoundInv
<1>6. OwnerInv'
  BY <1>0, <1>1 DEF Decay, OwnerInv
<1>7. BootInv'
  BY <1>0, <1>1 DEF Decay
<1> QED
  BY <1>4, <1>5, <1>6, <1>7

\* store_message, with a codec the self-test has shown to work.
LEMMA SaveStep ==
  ASSUME StoreInv, NEW m \in Messages, store_message(m)
  PROVE  StoreInv'
<1> USE DEF StoreInv, StoreTypeOK
<1>0. Probe # m /\ Probe \in Paths /\ (\A n \in Messages : n \in Paths /\ n \in Texts)
  BY StoreAssumption DEF Paths, Texts, StoreAssumption
<1>1. pc = "up" /\ codec = identity /\ works = "all" /\ codec # NoIdentity
  BY DEF store_message, BootInv, Identity, NoIdentity
<1>2. PICK iv \in IVs : Saved(m, iv) \/ NotSaved(m, iv)
  BY DEF store_message
<1>3. Encode(m, iv) = encstore_encrypt(identity, m, iv, "all")
  BY <1>1 DEF Encode
<1>4. Encode(m, iv) \in File /\ Sound(Encode(m, iv), m)
  <2>1. encstore_encrypt(identity, m, iv, "all") \in File
    BY <1>0, EncryptType
  <2>2. Sound(encstore_encrypt(identity, m, iv, "all"), m)
    BY WholeSound
  <2> QED
    BY <1>3, <2>1, <2>2
<1>5. /\ flash' \in [Paths -> File]
      /\ owner' \in [Messages -> Identity \cup {NoIdentity}]
      /\ SoundInv'
      /\ OwnerInv'
  <2>1. CASE Saved(m, iv)
    <3>1. PICK cull : /\ flash' = [p \in Paths |-> IF p \in cull THEN NoFile
                                   ELSE IF p = m THEN Encode(m, iv) ELSE flash[p]]
                      /\ owner' = [x \in Messages |-> IF x \in cull THEN NoIdentity
                                      ELSE IF x = m THEN codec ELSE owner[x]]
      BY <2>1 DEF Saved
    <3>2. SoundInv'
      BY <1>0, <1>4, <3>1, ShortType DEF SoundInv, Sound
    <3>3. OwnerInv'
      BY <1>0, <1>1, <1>3, <3>1 DEF OwnerInv, Whole
    <3> QED
      BY <1>4, <3>1, <3>2, <3>3, ShortType
  <2>2. CASE NotSaved(m, iv) /\ UNCHANGED <<flash, owner>>
    BY <2>2 DEF SoundInv, OwnerInv, Sound, Whole
  <2>3. CASE WriteFails(m, Encode(m, iv)) /\ owner' = [owner EXCEPT ![m] = NoIdentity]
    <3>1. PICK t \in Torn(Encode(m, iv)) : flash' = [flash EXCEPT ![m] = t]
      BY <2>3 DEF WriteFails
    <3>2. t \in File /\ Sound(t, m)
      BY <1>4, TornSound
    <3>3. SoundInv'
      BY <1>0, <3>1, <3>2 DEF SoundInv
    <3>4. OwnerInv'
      BY <1>0, <2>3, <3>1 DEF OwnerInv
    <3> QED
      BY <2>3, <3>1, <3>2, <3>3, <3>4
  <2> QED
    BY <1>2, <2>1, <2>2, <2>3 DEF NotSaved
<1>6. counts' \in [saved : Nat, failures : Nat]
  <2>1. \/ counts' = [counts EXCEPT !.saved = counts.saved + 1]
        \/ counts' = [counts EXCEPT !.failures = counts.failures + 1]
    BY <1>2 DEF Saved, NotSaved
  <2> QED
    BY <2>1, CountersType
<1> QED
  BY <1>1, <1>5, <1>6 DEF store_message, BootInv, locals

\* StoreInv holds of every behaviour.
THEOREM StoreInvariant == Spec => []StoreInv
<1>1. Init => StoreInv
  <2> SUFFICES ASSUME Init PROVE StoreInv
    OBVIOUS
  <2>1. StoreTypeOK
    <3>1. identity \in Identity /\ damage \in 0..MaxDamage
      BY StoreAssumption DEF Init, StoreAssumption, Identity
    <3>2. counts \in [saved : Nat, failures : Nat]
      BY DEF Init
    <3>3. flash \in [Paths -> File] /\ sealed \in File
      BY ShortType DEF Init
    <3>4. owner \in [Messages -> Identity \cup {NoIdentity}]
      BY DEF Init
    <3> QED
      BY <3>1, <3>2, <3>3, <3>4 DEF Init, StoreTypeOK
  <2>2. BootInv /\ SoundInv /\ OwnerInv
    BY ShortType DEF Init, BootInv, SoundInv, OwnerInv, Sound, Paths
  <2> QED
    BY <2>1, <2>2 DEF StoreInv
<1>2. StoreInv /\ [Next]_vars => StoreInv'
  <2> SUFFICES ASSUME StoreInv, [Next]_vars PROVE StoreInv'
    OBVIOUS
  <2>1. CASE UNCHANGED vars
    BY <2>1 DEF vars, StoreInv, StoreTypeOK, BootInv, SoundInv, OwnerInv, Sound, Whole
  <2> QED
    BY <2>1, QuietStep, ProbeStep, CutStep, DecayStep, SaveStep DEF Next
<1> QED
  BY <1>1, <1>2, PTL DEF Spec

\* The flash, the boot's locals and the counters are well typed: every file is
\* made of the parts encstore_encrypt writes, whatever stopped or damaged it.
THEOREM TypeCorrect == Spec => []StoreTypeOK
<1>1. StoreInv => StoreTypeOK
  BY DEF StoreInv
<1> QED
  BY <1>1, StoreInvariant, PTL

\* bringup_lxmf refuses to attach a store without a codec, and that is enough:
\* no message is ever on the flash in the clear.
THEOREM NeverInClear == Spec => []NothingInClear
<1>1. StoreInv => NothingInClear
  BY DEF StoreInv, SoundInv, Sound, NothingInClear
<1> QED
  BY <1>1, StoreInvariant, PTL

\* encstore_decrypt checks the MAC first: a file gives its own message or none.
THEOREM OpensItsOwn == Spec => []OpensOnlyOwn
<1>1. StoreInv => OpensOnlyOwn
  BY SoundOpens DEF StoreInv, StoreTypeOK, SoundInv, OpensOnlyOwn, Paths
<1> QED
  BY <1>1, StoreInvariant, PTL

\* What store_message counted as saved reads back under its identity alone.
THEOREM SavedOpens == Spec => []SavedReadsBack
<1>1. StoreInv => SavedReadsBack
  BY WholeOpens DEF StoreInv, StoreTypeOK, OwnerInv, SavedReadsBack, Texts
<1> QED
  BY <1>1, StoreInvariant, PTL

-----------------------------------------------------------------------------
(* Room.  A self-test that has written its probe has found a slot for it;  *)
(* until the boot is over nothing else is written, so that the slot is     *)
(* free for a message when the probe is removed.                           *)

RoomInv ==
  /\ IsFiniteSet(Files)
  /\ pc \in {"read", "verify", "register"} \/ (pc = "remove" /\ ~why)
       => Cardinality(Files \cup {Probe}) <= Room
  /\ pc = "register" => flash[Probe] = NoFile \/ stuck

\* A step that writes one path adds at most that path to the files.
LEMMA OneMoreFile ==
  ASSUME IsFiniteSet(Files), NEW m,
         \A p \in Paths : flash'[p] # NoFile => flash[p] # NoFile \/ p = m
  PROVE  IsFiniteSet(Files')
<1>1. Files' \subseteq Files \cup {m}
  BY DEF Files
<1>2. IsFiniteSet(Files \cup {m})
  BY FS_AddElement
<1> QED BY <1>1, <1>2, FS_Subset

\* Files that are still there, or fewer, with room for the probe as before.
LEMMA NoMoreFiles ==
  ASSUME IsFiniteSet(Files), Files' \subseteq Files
  PROVE  /\ IsFiniteSet(Files') /\ Cardinality(Files') <= Cardinality(Files)
         /\ Cardinality(Files' \cup {Probe}) <= Cardinality(Files \cup {Probe})
         /\ {Cardinality(Files), Cardinality(Files'), Cardinality(Files \cup {Probe}),
             Cardinality(Files' \cup {Probe})} \subseteq Nat
<1>1. IsFiniteSet(Files') /\ Cardinality(Files') <= Cardinality(Files)
  BY FS_Subset
<1>2. IsFiniteSet(Files \cup {Probe}) /\ IsFiniteSet(Files' \cup {Probe})
  BY <1>1, FS_AddElement
<1>3. Files' \cup {Probe} \subseteq Files \cup {Probe}
  OBVIOUS
<1>4. Cardinality(Files' \cup {Probe}) <= Cardinality(Files \cup {Probe})
  BY <1>2, <1>3, FS_Subset
<1> QED BY <1>1, <1>2, <1>4, FS_CardinalityType

LEMMA RoomStep ==
  ASSUME StoreTypeOK, RoomInv, [Next]_vars
  PROVE  RoomInv'
<1>1. /\ IsFiniteSet(Files) /\ flash \in [Paths -> File] /\ Probe \in Paths
      /\ Probe \notin Messages /\ Messages \subseteq Paths /\ Room \in Nat
  BY StoreAssumption DEF RoomInv, StoreTypeOK, Paths
<1>2. CASE UNCHANGED <<flash, pc, why, stuck>>
  BY <1>2 DEF RoomInv, Files
<1>3. CASE PowerOn \/ Router \/ AttachCodec \/ ProbeEncrypt \/ Register
  <2>1. /\ flash' = flash /\ pc' \notin {"read", "verify", "register"}
        /\ ~(pc' = "remove" /\ ~why')
    BY <1>3 DEF PowerOn, Router, AttachCodec, ProbeEncrypt, Register, disk, locals
  <2>2. Files' = Files
    BY <2>1 DEF Files
  <2> QED BY <1>1, <2>1, <2>2 DEF RoomInv
<1>4. CASE PowerCut
  <2>1. pc' = "off"
    BY <1>4 DEF PowerCut
  <2>2. \E m : \A p \in Paths : flash'[p] # NoFile => flash[p] # NoFile \/ p = m
    BY <1>1, <1>4 DEF PowerCut
  <2>3. IsFiniteSet(Files')
    BY <1>1, <2>2, OneMoreFile
  <2> QED BY <2>1, <2>3 DEF RoomInv
<1>5. CASE ProbeWrite
  <2>1. \A p \in Paths : flash'[p] # NoFile => flash[p] # NoFile \/ p = Probe
    BY <1>1, <1>5 DEF ProbeWrite, WriteFails
  <2>2. IsFiniteSet(Files')
    BY <1>1, <2>1, OneMoreFile
  <2>3. CASE pc' = "remove" /\ why' = TRUE
    BY <2>2, <2>3 DEF RoomInv
  <2>4. CASE Fits(Probe) /\ flash' = [flash EXCEPT ![Probe] = sealed] /\ pc' = "read"
    <3>1. Files' \cup {Probe} = Files \cup {Probe}
      BY <1>1, <2>4 DEF Files
    <3>2. Cardinality(Files' \cup {Probe}) <= Room
      BY <2>4, <3>1 DEF Fits
    <3> QED BY <2>2, <2>4, <3>2 DEF RoomInv
  <2> QED BY <1>5, <2>3, <2>4 DEF ProbeWrite
<1>6. CASE ProbeRead \/ ProbeVerify
  <2>1. /\ flash' = flash /\ pc \in {"read", "verify"} /\ pc' \in {"verify", "remove"}
    BY <1>6 DEF ProbeRead, ProbeVerify, disk
  <2>2. Files' = Files
    BY <2>1 DEF Files
  <2> QED BY <1>1, <2>1, <2>2 DEF RoomInv
<1>7. CASE ProbeRemove
  <2>1. /\ pc = "remove" /\ pc' = IF why THEN "halted" ELSE "register"
        /\ \/ flash' = [flash EXCEPT ![Probe] = NoFile]
           \/ flash' = flash /\ stuck' = TRUE
    BY <1>7 DEF ProbeRemove
  <2>2. Files' \cup {Probe} = Files \cup {Probe} /\ Files' \subseteq Files
        /\ (flash'[Probe] = NoFile \/ stuck')
    BY <1>1, <2>1 DEF Files
  <2>3. IsFiniteSet(Files')
    BY <1>1, <2>2, FS_Subset
  <2> QED BY <2>1, <2>2, <2>3 DEF RoomInv
<1>8. ASSUME NEW m \in Messages, store_message(m) PROVE RoomInv'
  <2>1. pc' = "up"
    BY <1>8 DEF store_message
  <2>2. \A p \in Paths : flash'[p] # NoFile => flash[p] # NoFile \/ p = m
    <3>1. CASE \E iv \in IVs : Saved(m, iv)
      BY <3>1 DEF Saved
    <3>2. CASE \E iv \in IVs : NotSaved(m, iv)
      BY <1>1, <3>2 DEF NotSaved, WriteFails
    <3> QED BY <1>8, <3>1, <3>2 DEF store_message
  <2>3. IsFiniteSet(Files')
    BY <1>1, <2>2, OneMoreFile
  <2> QED BY <2>1, <2>3 DEF RoomInv
<1>9. ASSUME NEW m \in Messages, Decay(m) PROVE RoomInv'
  <2>1. PICK blob : flash' = [flash EXCEPT ![m] = blob]
    BY <1>9 DEF Decay
  <2>2. flash[m] # NoFile /\ pc' = pc /\ why' = why /\ stuck' = stuck
    BY <1>9 DEF Decay, locals
  <2>3. Files' \subseteq Files /\ flash'[Probe] = flash[Probe]
    BY <1>1, <2>1, <2>2 DEF Files
  <2>4. /\ IsFiniteSet(Files') /\ Cardinality(Files') <= Cardinality(Files)
        /\ Cardinality(Files' \cup {Probe}) <= Cardinality(Files \cup {Probe})
        /\ {Cardinality(Files), Cardinality(Files'), Cardinality(Files \cup {Probe}),
            Cardinality(Files' \cup {Probe})} \subseteq Nat
    BY <1>1, <2>3, NoMoreFiles
  <2>5. ASSUME Cardinality(Files \cup {Probe}) <= Room
        PROVE  Cardinality(Files' \cup {Probe}) <= Room
    BY <1>1, <2>4, <2>5
  <2> QED BY <2>2, <2>3, <2>4, <2>5 DEF RoomInv
<1>10. CASE UNCHANGED vars
  BY <1>2, <1>10 DEF vars
<1> QED BY <1>3, <1>4, <1>5, <1>6, <1>7, <1>8, <1>9, <1>10 DEF Next

\* A boot that attaches the store has room for a message besides those it keeps, and
\* has left no probe, of its own or of a self-test that was cut short, unless it could
\* not remove it, whatever else fails and however many messages and identities there
\* are.
THEOREM AttachesWithRoom == Spec => AttachedHasRoom
<1>1. Init => RoomInv
  <2> SUFFICES ASSUME Init PROVE RoomInv
    OBVIOUS
  <2>1. Files = {} /\ pc = "off"
    BY DEF Init, Files
  <2> QED BY <2>1, FS_EmptySet DEF RoomInv
<1>2. StoreTypeOK /\ RoomInv /\ [Next]_vars => RoomInv'
  BY RoomStep
<1>3. ASSUME RoomInv, [Next]_vars
      PROVE  pc # "up" /\ pc' = "up" =>
               /\ Cardinality({m \in Messages : flash'[m] # NoFile}) < Room
               /\ flash'[Probe] = NoFile \/ stuck'
  <2> DEFINE held == {m \in Messages : flash[m] # NoFile}
  <2> SUFFICES ASSUME pc # "up", pc' = "up"
               PROVE  /\ Cardinality({m \in Messages : flash'[m] # NoFile}) < Room
                      /\ flash'[Probe] = NoFile \/ stuck'
    OBVIOUS
  <2>1. Register
    BY <1>3 DEF Next, PowerOn, PowerCut, Router, AttachCodec, ProbeEncrypt, ProbeWrite,
                ProbeRead, ProbeVerify, ProbeRemove, store_message, Decay, vars
  <2>2. pc = "register" /\ flash' = flash /\ stuck' = stuck
    BY <2>1 DEF Register, disk, locals
  <2>3. Probe \notin Messages /\ Room \in Nat
    BY StoreAssumption
  <2>4. /\ held \subseteq Files /\ Probe \notin held
        /\ held \cup {Probe} = Files \cup {Probe}
    BY <2>3 DEF Files, Paths
  <2>5. IsFiniteSet(held)
    BY <1>3, <2>4, FS_Subset DEF RoomInv
  <2> HIDE DEF held
  <2>6. Cardinality(held \cup {Probe}) = Cardinality(held) + 1 /\ Cardinality(held) \in Nat
    BY <2>4, <2>5, FS_AddElement, FS_CardinalityType
  <2>7. Cardinality(held) < Room
    <3>1. Cardinality(held \cup {Probe}) <= Room
      BY <1>3, <2>2, <2>4 DEF RoomInv
    <3> HIDE DEF Probe
    <3> QED BY <2>3, <2>6, <3>1
  <2> QED BY <1>3, <2>2, <2>7 DEF RoomInv, held
<1> QED BY <1>1, <1>2, <1>3, TypeCorrect, PTL DEF Spec, AttachedHasRoom
=============================================================================
