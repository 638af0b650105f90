-------------------------------- MODULE Envelope -------------------------------
(***************************************************************************)
(* What a stored entry says about itself and what a reader makes of it:    *)
(* the presets of config/decorator.py, CacheSerializationHandler and       *)
(* CacheOperationHandler of cache_handler.py, EncryptionWrapper with its   *)
(* keyring, and the calls of the sync decorator that drive them.           *)
(*                                                                         *)
(* Several processes run one function against one L2, each with a          *)
(* configuration of its own: a rotation of keys, a change of serializer or *)
(* of preset is a deployment that has reached some of them.  Values are    *)
(* abstracted away; an entry is its header as it was written, who wrote it *)
(* and which part of it is damaged.  AES-GCM is external: a payload opens  *)
(* with the key and tenant it was sealed with, if neither it nor what its  *)
(* tag covers of the header was changed, and not otherwise.                *)
(***************************************************************************)
EXTENDS Naturals, Sequences, FiniteSets, SequencesExt, Serializers

CONSTANTS
    Procs, None,
    Requests,    \* what decorators ask for
    Envs,        \* what the environment of a process holds
    Fleets,      \* which processes have which configurations: the cases considered
    MaxDamage    \* bound: how many times L2 bytes are damaged

ASSUME EnvelopeAssumption ==
    /\ IsFiniteSet(Procs) /\ None \notin Procs
    /\ None \notin {"configured", "extracted"}
    /\ \A env \in Envs : env.previous \in Seq(ToSet(env.previous))
    /\ MaxDamage \in Nat

VARIABLES
    cfg,       \* cfg[p]: the resolved configuration of process p; never changes
    uuidFile,  \* ~/.cachekit/deployment_uuid: the process that wrote it, or None
    tenant,    \* tenant[p]: _deployment_uuid_value, or None
    l2,        \* the entry under the cache key of the call, or None
    l1,        \* l1[p]: the L1 copy in process p, or None
    phase,     \* phase[p]: where its call is
    seen,      \* ghost: seen[p]: the entry its call found when it read L2
    result,    \* result[p]: how its last call ended, and the entry it used
    damages    \* damages so far

vars == <<cfg, uuidFile, tenant, l2, l1, phase, seen, result, damages>>
--------------------------------------------------------------------------------
(* DecoratorConfig: a preset decides integrity, encryption and, for secure, *)
(* the key and the tenant mode.  secure is told its key and extractor.      *)
Unencrypted(integ) == [integ |-> integ, enc |-> "detect", key |-> None, tenant |-> "none"]

minimal == Unencrypted(FALSE)
production == Unencrypted(TRUE)
secure(r) ==
    [integ |-> TRUE, enc |-> "on", key |-> r.key,
     tenant |-> IF r.tenant = "extractor" THEN "extractor" ELSE "single"]
dev == Unencrypted(TRUE)
test == Unencrypted(FALSE)
io == Unencrypted(TRUE)

(* cache(): the preset of the intent; the bare decorator passes on what it  *)
(* was given.                                                               *)
Preset(r) ==
    CASE r.intent = "minimal" -> minimal
      [] r.intent = "production" -> production
      [] r.intent = "secure" -> secure(r)
      [] r.intent = "dev" -> dev
      [] r.intent = "test" -> test
      [] r.intent = "io" -> io
      [] OTHER -> [integ |-> r.integ, enc |-> r.enc, key |-> r.key, tenant |-> r.tenant]

(* @cache.secure takes its key from the settings if it is given none. *)
Resolve(r, env) ==
    LET preset == Preset(r)
    IN  [intent |-> r.intent, kind |-> r.kind, ser |-> r.ser, uuid |-> r.uuid,
         closed |-> r.closed, interop |-> r.interop, file |-> r.file, asked |-> r.enc,
         integ |-> preset.integ, enc |-> preset.enc, tenant |-> preset.tenant,
         key |-> IF r.intent = "secure" /\ preset.key = None THEN env.master ELSE preset.key,
         master |-> env.master, previous |-> env.previous, pyarrow |-> env.pyarrow]

(* CROSS_SDK_SERIALIZER_NAMES *)
CrossSdk == {"default", "std", "standard", "orjson", "arrow"}

(* Mutant: a key in the environment overrides an explicit opt-out. *)
EncryptsAnyway(c) == c.enc = "on" \/ (c.key = None /\ c.tenant # "extractor" /\ c.master # None)

(* The tri-state: on, off, or whatever CACHEKIT_MASTER_KEY says. *)
Encrypts(c) ==
    \/ c.enc = "on"
    \/ c.enc = "detect" /\ c.key = None /\ c.tenant # "extractor" /\ c.master # None

SingleTenant(c) == Encrypts(c) /\ c.tenant # "extractor"
NeedsUuidFile(c) == SingleTenant(c) /\ c.uuid = "file"

(* _setup_encryption: the encrypting key first, then the decrypt-only ones. *)
Keyring(c) ==
    LET current == IF c.key # None THEN c.key ELSE c.master
    IN  IF current = None THEN <<>> ELSE <<current>> \o c.previous

(* Keyring() in Rust refuses a current key that is among the previous ones. *)
KeyringRefused(c) == Keyring(c) # <<>> /\ Head(Keyring(c)) \in ToSet(c.previous)

(* CachekitConfig: the current key is not among the previous ones, of which *)
(* there are at most MAX_PREVIOUS_MASTER_KEYS.                              *)
SettingsAccept(c) == c.master \notin ToSet(c.previous) /\ Len(c.previous) <= 3

(* validate_encryption_config: force-on needs a key, inline or in the       *)
(* settings.                                                                *)
KeyResolved(c) == c.enc = "on" => Keyring(c) # <<>>

(* EncryptionConfig.validate: and a tenant mode. *)
EncryptionConfigAccepts(c) ==
    c.enc = "on" => KeyResolved(c) /\ c.tenant \in {"single", "extractor"}

(* Interop mode: one tenant, MessagePack, and a UUID other SDKs can know. *)
InteropAccepts(c) ==
    c.interop => /\ c.tenant # "extractor"
                 /\ Canonical(c.ser) = "default"
                 /\ SingleTenant(c) => c.uuid = "given"

(* CacheSerializationHandler.__init__ *)
HandlerAccepts(c) ==
    /\ Available(c.ser, c.pyarrow)
    /\ Encrypts(c) => c.ser \in CrossSdk
    /\ InteropAccepts(c)

Accepts(c) == SettingsAccept(c) /\ EncryptionConfigAccepts(c) /\ HandlerAccepts(c)

Configs == {c \in {Resolve(r, env) : r \in Requests, env \in Envs} : Accepts(c)}

ASSUME FleetAssumption == Fleets \subseteq [Procs -> Configs]

(* The cache key, of one call: the generated key carries the integrity      *)
(* flag, the interop key only what all SDKs know.  Processes that differ in *)
(* these never see each other's entries.                                    *)
generate_key(c) == [kind |-> "native", integ |-> c.integ]
generate_interop_key == [kind |-> "interop", integ |-> FALSE]
get_cache_key(c) == IF c.interop THEN generate_interop_key ELSE generate_key(c)

(* supports_streaming_write on a backend that streams *)
Streams(c) == c.file /\ ~Encrypts(c) /\ ~c.interop /\ Canonical(c.ser) = "arrow"
NoResult == [how |-> "none", sealed |-> FALSE, damage |-> "none"]
--------------------------------------------------------------------------------
Init ==
    /\ cfg \in Fleets
    /\ \A p, q \in Procs : get_cache_key(cfg[p]) = get_cache_key(cfg[q]) /\ cfg[p].kind = cfg[q].kind
    /\ uuidFile = None
    /\ tenant = [p \in Procs |-> None]
    /\ l2 = None
    /\ l1 = [p \in Procs |-> None]
    /\ phase = [p \in Procs |-> "boot"]
    /\ seen = [p \in Procs |-> None]
    /\ result = [p \in Procs |-> NoResult]
    /\ damages = 0

Goto(p, ph) == phase' = [phase EXCEPT ![p] = ph]

(* The call is over: with an entry of the cache, or without. *)
Serve(p, how, e) ==
    /\ Goto(p, "idle")
    /\ result' = [result EXCEPT ![p] =
                    [how |-> how, sealed |-> e.enc, damage |-> e.damage]]
    /\ seen' = [seen EXCEPT ![p] = None]

Return(p, how) ==
    /\ Goto(p, "idle")
    /\ result' = [result EXCEPT ![p] = [NoResult EXCEPT !.how = how]]
    /\ seen' = [seen EXCEPT ![p] = None]

(* The call goes on after its read. *)
Pending(p, ph, found) ==
    /\ Goto(p, ph)
    /\ result' = [result EXCEPT ![p] = NoResult]
    /\ seen' = [seen EXCEPT ![p] = found]

(* _get_deterministic_deployment_uuid: the configured UUID, or the one in   *)
(* the file; the file is looked at before another one is made up.  A file   *)
(* that is still being written reads as none.                               *)
Boot(p) ==
    /\ phase[p] = "boot"
    /\ \/ /\ ~NeedsUuidFile(cfg[p])
          /\ tenant' = [tenant EXCEPT ![p] =
                          IF SingleTenant(cfg[p]) THEN "configured" ELSE "extracted"]
          /\ Goto(p, "idle")
       \/ /\ NeedsUuidFile(cfg[p]) /\ uuidFile # None
          /\ tenant' = [tenant EXCEPT ![p] = uuidFile]
          /\ Goto(p, "idle")
       \/ /\ NeedsUuidFile(cfg[p]) /\ uuidFile = None
          /\ Goto(p, "generate")
          /\ UNCHANGED tenant
    /\ UNCHANGED <<cfg, uuidFile, l2, l1, seen, result, damages>>

(* A fresh UUID, which the file keeps unless it cannot be written. *)
Generate(p, persisted) ==
    /\ phase[p] = "generate"
    /\ tenant' = [tenant EXCEPT ![p] = p]
    /\ uuidFile' = IF persisted THEN p ELSE uuidFile
    /\ Goto(p, "idle")
    /\ UNCHANGED <<cfg, l2, l1, seen, result, damages>>
--------------------------------------------------------------------------------
(* serialize_data can fail for a reason that stays: a type the serializer   *)
(* does not take, or a keyring that is refused (ValueError).                *)
CanSerialize(c) ==
    /\ IF c.interop THEN InteropSupports(c.kind) ELSE Supports(c.ser, c.kind)
    /\ Encrypts(c) => ~KeyringRefused(c)

(* EncryptionWrapper.serialize: under the current key, for a tenant. *)
SealFor(c, t) ==
    IF Encrypts(c) THEN [enc |-> TRUE, tenant |-> t, key |-> Head(Keyring(c))]
    ELSE [enc |-> FALSE, tenant |-> None, key |-> None]

(* The parts of an entry that can be damaged: the payload; the frame, or so *)
(* much of the header that it does not parse; and the fields of a header    *)
(* that does parse, which has no checksum of its own.  name: another        *)
(* serializer, or no format or no fields at all; noname: no serializer;     *)
(* type: another original_type, or format or tenant; enc: the flag;         *)
(* notenant: no tenant; fingerprint: that of no key.                        *)
Parts == {"payload", "frame", "name", "noname", "type", "enc", "notenant", "fingerprint"}

(* SerializationWrapper.wrap: the header before the payload.  unwrap looks  *)
(* at the frame only.                                                       *)
Wrap(name, payload, seal, by) ==
    [ser |-> name, type |-> payload.type, frame |-> payload.frame,
     enc |-> seal.enc, tenant |-> seal.tenant, key |-> seal.key,
     damage |-> "none", by |-> by]
Unwraps(e) == e.damage # "frame"

(* What the header says by now.  A header without a name is taken for one   *)
(* with the right name; one that was written in plaintext has no tenant.    *)
NameRefused(c, e) == e.damage = "name" \/ (e.damage # "noname" /\ e.ser # Canonical(c.ser))
SaysSealed(e) == IF e.damage = "enc" THEN ~e.enc ELSE e.enc
SaysTenant(e) == e.enc /\ e.damage # "notenant"

(* serialize_data: the entry p writes, and the header that says so. *)
Seal(p) ==
    LET c == cfg[p]
        payload == IF c.interop THEN InteropSerialize
                   ELSE Serialize(c.ser, c.kind, c.integ, c.pyarrow)
    IN  Wrap(Canonical(c.ser), payload, SealFor(c, tenant[p]), p)

(* A ciphertext that is taken for plaintext is as good as damaged. *)
PlainDecode(c, e) ==
    LET whole == e.damage # "payload" /\ ~e.enc
    IN  IF c.interop THEN InteropDeserialize(whole)
        ELSE IF e.ser # Canonical(c.ser) THEN Misread
        ELSE Deserialize(c.ser, e, whole, c.integ, c.pyarrow)

(* Mutant: an entry is opened with the reader's own deployment UUID. *)
ReadTenantOwn(p, e) == tenant[p]

(* The header names the tenant whose keys open the entry. *)
ReadTenant(p, e) == e.tenant

(* AES-GCM with _create_aad as associated data: the reader names the tenant *)
(* and the key of the seal, and nothing the tag covers has been changed.    *)
Authenticates(e, t, key) ==
    e.enc /\ e.tenant = t /\ e.key = key /\ e.damage \notin {"payload", "type"}

(* EncryptionWrapper.deserialize: the key with the fingerprint of the       *)
(* header.  If none has it, fail-closed does not try; else the current key  *)
(* is tried.                                                                *)
KeyFor(c, e) ==
    IF e.damage # "fingerprint" /\ e.key \in ToSet(Keyring(c)) THEN e.key
    ELSE IF c.closed THEN None ELSE Head(Keyring(c))

(* What was opened goes to the reader's serializer; its errors are          *)
(* EncryptionErrors.                                                        *)
Opened(c, e) == IF e.ser = Canonical(c.ser) THEN {"value"} ELSE Misread \ {"other"}

OpenSealed(p, e) ==
    LET c == cfg[p]
    IN  IF ~SaysTenant(e) THEN {"suspicious"}
        ELSE IF Keyring(c) = <<>> THEN {"corruption"}
        ELSE IF KeyringRefused(c) THEN {"other"}
        ELSE IF Authenticates(e, ReadTenant(p, e), KeyFor(c, e)) THEN Opened(c, e)
        ELSE {"auth"}

(* deserialize_without_key_identity: each key is tried in turn.  Too short  *)
(* a ciphertext is a KeyringConfigurationError when there is more than one. *)
OpenInterop(p, e) ==
    LET ring == Keyring(cfg[p])
    IN  IF \E key \in ToSet(ring) : Authenticates(e, tenant[p], key) THEN {"value"}
        ELSE {"auth"} \cup (IF Len(ring) > 1 THEN {"keyring"} ELSE {})

(* _deserialize_interop: the configuration says whether the bytes are       *)
(* sealed.                                                                  *)
DecodeInterop(p, e) ==
    LET c == cfg[p]
    IN  IF ~Encrypts(c) THEN IF e.enc THEN {"corruption"} ELSE PlainDecode(c, e)
        ELSE IF KeyringRefused(c) THEN {"other"}
        ELSE OpenInterop(p, e)

(* Mutant: a header that claims plaintext is believed. *)
DecodeDowngraded(p, e) ==
    LET c == cfg[p]
    IN  IF c.interop THEN DecodeInterop(p, e)
        ELSE IF ~Unwraps(e) THEN {"other"}
        ELSE IF NameRefused(c, e) THEN {"corruption"}
        ELSE IF SaysSealed(e) THEN OpenSealed(p, e)
        ELSE PlainDecode(c, e)

(* deserialize_data, as the kinds of outcome it may have.  A header that    *)
(* does not parse is a ValueError; one that parses to something else, lacks *)
(* its format or has another name is a SerializationError.                  *)
Decode(p, e) ==
    LET c == cfg[p]
    IN  IF c.interop THEN DecodeInterop(p, e)
        ELSE IF ~Unwraps(e) THEN {"other"}
        ELSE IF NameRefused(c, e) THEN {"corruption"}
        ELSE IF Encrypts(c) /\ ~SaysSealed(e) THEN {"suspicious"}
        ELSE IF SaysSealed(e) THEN OpenSealed(p, e)
        ELSE PlainDecode(c, e)
--------------------------------------------------------------------------------
(* An L1 copy is served without a look at L2.  It was encoded by this       *)
(* process, with the configuration it still has.                            *)
HitL1(p) ==
    /\ phase[p] = "idle" /\ l1[p] # None
    /\ Serve(p, "hit", l1[p])
    /\ UNCHANGED <<cfg, uuidFile, tenant, l2, l1, damages>>

(* Mutant: what fails to decode is evicted before the policy is asked. *)
FailReadEvictFirst(p, d) ==
    /\ d \in {"auth", "suspicious", "corruption"}
    /\ Pending(p, "evict", l2)

(* handle_decrypt_failure: fail-closed raises on what does not              *)
(* authenticate; the rest is evicted and read as a miss.                    *)
FailRead(p, d) ==
    /\ d \in {"auth", "suspicious", "corruption"}
    /\ IF d = "auth" /\ cfg[p].closed
       THEN Return(p, "raised")
       ELSE Pending(p, "evict", l2)

(* Mutant: after an unexpected exception the value is not stored. *)
MissUncached(p, found) ==
    IF found = None THEN Pending(p, "compute", found) ELSE Return(p, "computed")

(* A miss: nothing there, a backend that failed, or an exception that is    *)
(* neither a SerializationError nor a keyring fault.                        *)
Miss(p, found) == Pending(p, "compute", found)

(* get_cached_value, as the sync wrapper goes on after it: it returns a     *)
(* hit, and calls the function without storing after an exception.          *)
GetCachedValue(p, d) ==
    \/ d = "value" /\ Serve(p, "hit", l2)
    \/ d = "garbage" /\ Serve(p, "garbage", l2)
    \/ d = "keyring" /\ Return(p, "computed")
    \/ d = "other" /\ Miss(p, l2)
    \/ FailRead(p, d)

(* A call that L1 does not serve reads L2. *)
Read(p) ==
    /\ phase[p] = "idle" /\ l1[p] = None
    /\ \/ l2 = None /\ Miss(p, None)
       \/ l2 # None /\ \E d \in Decode(p, l2) : GetCachedValue(p, d)
    /\ UNCHANGED <<cfg, uuidFile, tenant, l2, l1, damages>>

(* The backend fails: logged by the handler, and a miss. *)
ReadFails(p) ==
    /\ phase[p] = "idle" /\ l1[p] = None
    /\ Miss(p, None)
    /\ UNCHANGED <<cfg, uuidFile, tenant, l2, l1, damages>>

(* What StandardCacheHandler's delete and set leave under the key; a        *)
(* failure is logged, and nobody looks at what they return.                 *)
AfterDelete(works) == IF works THEN None ELSE l2
AfterSet(p, works) == IF works THEN Seal(p) ELSE l2

(* _handle_l2_read_error: the key is deleted, whatever is under it by now. *)
Evict(p, works) ==
    /\ phase[p] = "evict"
    /\ l2' = AfterDelete(works)
    /\ Goto(p, "compute")
    /\ UNCHANGED <<cfg, uuidFile, tenant, l1, seen, result, damages>>

(* store_result: L1 gets its copy also when the backend did not take the    *)
(* entry.                                                                   *)
Store(p, works) ==
    /\ phase[p] = "compute" /\ CanSerialize(cfg[p]) /\ ~Streams(cfg[p])
    /\ l2' = AfterSet(p, works)
    /\ l1' = [l1 EXCEPT ![p] = Seal(p)]
    /\ Return(p, "computed")
    /\ UNCHANGED <<cfg, uuidFile, tenant, damages>>

(* write_serialized_to: the envelope serialize_data would make, unsealed. *)
write_serialized_to(p) ==
    Wrap("arrow", ArrowSerializeToSink, [enc |-> FALSE, tenant |-> None, key |-> None], p)

(* set_streaming: an entry that is written as it is made, appears whole or  *)
(* not at all and is never copied to L1.                                    *)
StoreStreamed(p, works) ==
    /\ phase[p] = "compute" /\ CanSerialize(cfg[p]) /\ Streams(cfg[p])
    /\ l2' = IF works THEN write_serialized_to(p) ELSE l2
    /\ Return(p, "computed")
    /\ UNCHANGED <<cfg, uuidFile, tenant, l1, damages>>

(* serialize_data raises (type, size, tenant, keyring): the value is        *)
(* returned uncached, or, if the interop data model refused it, not at all. *)
StoreFails(p) ==
    /\ phase[p] = "compute"
    /\ \E how \in {"computed", "raised"} :
         (how = "raised" => cfg[p].interop) /\ Return(p, how)
    /\ UNCHANGED <<cfg, uuidFile, tenant, l2, l1, damages>>
--------------------------------------------------------------------------------
(* The L1 copy expires or is evicted. *)
LoseL1(p) ==
    /\ l1[p] # None /\ phase[p] = "idle"
    /\ l1' = [l1 EXCEPT ![p] = None]
    /\ UNCHANGED <<cfg, uuidFile, tenant, l2, phase, seen, result, damages>>

(* The backend expires or evicts an entry. *)
LoseL2 ==
    /\ l2 # None
    /\ l2' = None
    /\ UNCHANGED <<cfg, uuidFile, tenant, l1, phase, seen, result, damages>>

(* Stored bytes are damaged, in the payload or in what is before it: not in *)
(* interop mode, which has no frame, nor in fields a plaintext header lacks. *)
Damage(part) ==
    /\ l2 # None /\ damages < MaxDamage
    /\ l2.damage = "none"
    /\ part # "payload" => ~cfg[l2.by].interop
    /\ part \in {"notenant", "fingerprint"} => l2.enc
    /\ l2' = [l2 EXCEPT !.damage = part]
    /\ damages' = damages + 1
    /\ UNCHANGED <<cfg, uuidFile, tenant, l1, phase, seen, result>>

Next ==
    \/ \E p \in Procs :
         \/ Boot(p) \/ HitL1(p) \/ Read(p) \/ ReadFails(p) \/ StoreFails(p) \/ LoseL1(p)
         \/ \E works \in BOOLEAN : 
              Generate(p, works) \/ Evict(p, works) \/ Store(p, works) \/ StoreStreamed(p, works)
    \/ LoseL2
    \/ \E part \in Parts : Damage(part)

(* A caller keeps calling, L1 copies expire, and the backend is not down    *)
(* for ever: reads, evictions and writes succeed again and again.           *)
Fairness ==
    \A p \in Procs :
        /\ WF_vars(Boot(p) \/ \E works \in BOOLEAN : Generate(p, works))
        /\ WF_vars(LoseL1(p))
        /\ SF_vars(Read(p))
        /\ SF_vars(Evict(p, TRUE))
        /\ SF_vars(Store(p, TRUE) \/ StoreStreamed(p, TRUE))
        /\ WF_vars(StoreFails(p))

Spec == Init /\ [][Next]_vars /\ Fairness
--------------------------------------------------------------------------------
Entry ==
    [ser : Registered, enc : BOOLEAN,
     type : {"msgpack", "orjson", "arrow", "numpy", "dataframe", "series", "interop"},
     frame : {"storage", "prefix", "bare"},
     tenant : Procs \cup {"configured", "extracted", None},
     key : (UNION {ToSet(Keyring(c)) : c \in Configs}) \cup {None},
     damage : {"none"} \cup Parts, by : Procs]

(* Entries are well formed; an encrypting process that has booted knows its *)
(* tenant, as serialize_data requires (cache_handler.py:885-890).           *)
TypeOK ==
    /\ cfg \in [Procs -> Configs]
    /\ uuidFile \in Procs \cup {None}
    /\ l2 \in Entry \cup {None}
    /\ l1 \in [Procs -> Entry \cup {None}]
    /\ phase \in [Procs -> {"boot", "generate", "idle", "evict", "compute"}]
    /\ \A p \in Procs : phase[p] \notin {"boot", "generate"} => tenant[p] # None
    /\ damages \in 0 .. MaxDamage

(* What an encrypting process serves from the cache was stored there        *)
(* sealed, and neither the payload nor a field of the header that decides   *)
(* how it is read has changed since, but for the name and the fingerprint   *)
(* (cache_handler.py:1076-1098, LAB-241).  One that does not encrypt has    *)
(* checksums to see that the payload is whole, whatever the serializer and  *)
(* the kind of value, but for what auto packs with MessagePack (see         *)
(* EveryChecksumCounts); its header has none.  And what is not damaged at   *)
(* all never decodes to a wrong value, whoever wrote it.                    *)
ServesOnlyWhatWasStored ==
    \A p \in Procs :
        LET c == cfg[p]
            r == result[p]
        IN  r.how \in {"hit", "garbage"} =>
              /\ Encrypts(c) => r.sealed /\ r.damage \in {"none", "noname", "fingerprint"}
              /\ c.integ /\ ~c.interop /\ ~(Canonical(c.ser) = "auto" /\ c.kind = "plain")
                   => r.damage # "payload"
              /\ r.how = "garbage" => r.damage # "none"

(* "Uses xxHash3-64 for all serializers" (cache_handler.py:342): with       *)
(* integrity checking on, a damaged payload is never served as a value.     *)
EveryChecksumCounts ==
    \A p \in Procs :
        cfg[p].integ /\ ~cfg[p].interop =>
            ~(result[p].how = "garbage" /\ result[p].damage = "payload")

(* Mixed fleets: an undamaged entry is readable by every process that       *)
(* writes the same format and is given the writer's key, as its current or  *)
(* as a previous one, whoever won the race for the deployment UUID file;    *)
(* in interop mode if both are told the same UUID.  An L1 copy can always   *)
(* be read by its process (so the error branch of the L1 read is for        *)
(* damaged memory only).                                                    *)
FleetReadable ==
    /\ \A p \in Procs : l1[p] # None => Decode(p, l1[p]) = {"value"}
    /\ l2 # None => \A p \in Procs :
        LET w == cfg[l2.by]
            c == cfg[p]
            given == IF c.key # None THEN c.key ELSE c.master
        IN  /\ l2.damage = "none"
            /\ phase[p] \notin {"boot", "generate"}
            /\ ~KeyringRefused(c)
            /\ Canonical(w.ser) = Canonical(c.ser)
            /\ l2.type = "arrow" => c.pyarrow
            /\ Encrypts(c) => Encrypts(w)
            /\ Encrypts(w) => /\ w.interop => Encrypts(c)
                              /\ given # None
                              /\ Head(Keyring(w)) \in {given} \cup ToSet(c.previous)
            => Decode(p, l2) = {"value"}

(* What the decorator asked for is what is at rest, in L1 and in L2: secure *)
(* always encrypts and always checks (config/decorator.py:425-427), an      *)
(* explicit encryption=False never encrypts, whatever key the environment   *)
(* has (issue #128, cache_handler.py:530-532).                              *)
EncryptedAsAsked ==
    \A p \in Procs, e \in {l2} \cup {l1[q] : q \in Procs} :
        e # None /\ e.by = p =>
            /\ cfg[p].intent = "secure" => e.enc /\ (e.frame # "bare" \/ cfg[p].interop)
            /\ cfg[p].intent = "none" /\ cfg[p].asked = "off" => ~e.enc

(* Every entry at rest, from whichever process and by either way of storing *)
(* it, is well formed and protected the way its decorator asked             *)
(* (cache_handler.py:525-546, 815-934).                                     *)
EntriesAsAsked == TypeOK /\ EncryptedAsAsked

(* "L2 remains the retained evidence" (wrapper.py:1205): a fail-closed      *)
(* process removes or overwrites an entry it cannot authenticate only if    *)
(* its call read L2 before that entry was there.                            *)
EvidenceRetained ==
    [][\A p \in Procs :
         /\ phase[p] \in {"evict", "compute"} /\ phase'[p] # phase[p]
         /\ cfg[p].closed
         /\ l2 # None /\ l2' # l2
         /\ Decode(p, l2) = {"auth"}
         => seen[p] # l2]_vars

(* The damage is one that p notices and does not have to keep as evidence,  *)
(* and p can write an entry in its place.                                   *)
Heals(p, e) ==
    \A d \in Decode(p, e) :
        \/ d \in {"corruption", "suspicious"}
        \/ d = "auth" /\ ~cfg[p].closed
        \/ d = "other" /\ CanSerialize(cfg[p])

(* "Self-healing overwrite" (cache_handler.py:1159): a damaged entry that   *)
(* some process notices does not stay, also when the header is broken and   *)
(* the failure is neither counted nor evicted.                              *)
DamageHeals ==
    (l2 # None /\ l2.damage # "none" /\ \E p \in Procs : Heals(p, l2))
    ~> (l2 = None \/ l2.damage = "none")
================================================================================
