---------------------------- MODULE EnvelopeProofs -----------------------------
(***************************************************************************)
(* Proofs about Envelope, for any number of processes with any accepted    *)
(* configurations: what a reader serves was stored, sealed if the reader   *)
(* encrypts; a fleet in transition can read what its members write; what   *)
(* is at rest is protected as asked; evidence of tampering is kept.        *)
(*                                                                         *)
(* The invariant traces every stored entry to the configuration of the     *)
(* process that wrote it.                                                  *)
(***************************************************************************)
EXTENDS Envelope, SequenceTheorems, TLAPS

Damages == {"none"} \cup Parts

Booted(p) == phase[p] \notin {"boot", "generate"}

(* What p stores, by either way of storing. *)
Made(p) == IF Streams(cfg[p]) THEN write_serialized_to(p) ELSE Seal(p)

Writer(p) == Booted(p) /\ CanSerialize(cfg[p])

(* e was stored by p and perhaps damaged since. *)
From(p, e) ==
    \E d \in Damages :
        (d \notin {"none", "payload"} => ~cfg[p].interop) /\ e = [Made(p) EXCEPT !.damage = d]

(* Processes that share a key differ in what is not in the key. *)
Paired ==
    \A p, q \in Procs : get_cache_key(cfg[p]) = get_cache_key(cfg[q]) /\ cfg[p].kind = cfg[q].kind

TenantType == Procs \cup {"configured", "extracted", None}

(* A process that runs knows its tenant; one makes up a UUID only if it     *)
(* needs the file.                                                          *)
TenantsKnown ==
    \A p \in Procs :
        /\ Booted(p) =>
             /\ tenant[p] # None
             /\ ~NeedsUuidFile(cfg[p]) =>
                  tenant[p] = IF SingleTenant(cfg[p]) THEN "configured" ELSE "extracted"
        /\ phase[p] = "generate" => NeedsUuidFile(cfg[p])

Stored ==
    /\ l2 # None => \E p \in Procs : Writer(p) /\ From(p, l2)
    /\ \A p \in Procs : l1[p] # None => Writer(p) /\ ~Streams(cfg[p]) /\ l1[p] = Seal(p)

(* A fail-closed call goes on only past entries it did not fail to          *)
(* authenticate.                                                            *)
SeenInnocent ==
    \A p \in Procs :
        /\ phase[p] \in {"evict", "compute"} /\ cfg[p].closed /\ seen[p] # None
        => Decode(p, seen[p]) # {"auth"}

Shape ==
    /\ cfg \in [Procs -> Configs]
    /\ uuidFile \in Procs \cup {None}
    /\ tenant \in [Procs -> TenantType]
    /\ l1 = [p \in Procs |-> l1[p]]
    /\ phase \in [Procs -> {"boot", "generate", "idle", "evict", "compute"}]
    /\ seen = [p \in Procs |-> seen[p]] /\ result = [p \in Procs |-> result[p]]
    /\ damages \in 0 .. MaxDamage

IInv == Shape /\ Paired /\ TenantsKnown /\ Stored /\ SeenInnocent /\ ServesOnlyWhatWasStored
--------------------------------------------------------------------------------
(* What the validations leave of the configurations. *)
LEMMA ConfigFacts ==
    ASSUME NEW c \in Configs
    PROVE  /\ SettingsAccept(c) /\ EncryptionConfigAccepts(c) /\ HandlerAccepts(c)
           /\ c.previous \in Seq(ToSet(c.previous))
           /\ c.intent = "secure" => c.enc = "on" /\ c.integ
           /\ c.intent = "none" => c.enc = c.asked
<1>1. PICK r \in Requests, env \in Envs : c = Resolve(r, env) /\ Accepts(c)
  BY DEF Configs
<1>2. c.previous = env.previous /\ c.intent = r.intent /\ c.asked = r.enc
      /\ c.enc = Preset(r).enc /\ c.integ = Preset(r).integ
  BY <1>1 DEF Resolve
<1>3. r.intent = "secure" => Preset(r).enc = "on" /\ Preset(r).integ
  BY DEF Preset, secure
<1>4. r.intent = "none" => Preset(r).enc = r.enc
  BY DEF Preset
<1> QED
  BY <1>1, <1>2, <1>3, <1>4, EnvelopeAssumption DEF Accepts

Current(c) == IF c.key # None THEN c.key ELSE c.master

(* The keyring: the current key, then the previous ones. *)
LEMMA KeyringFacts ==
    ASSUME NEW c \in Configs
    PROVE  /\ Current(c) = None => Keyring(c) = <<>>
           /\ Current(c) # None => /\ Keyring(c) # <<>>
                                   /\ Head(Keyring(c)) = Current(c)
                                   /\ Current(c) \in ToSet(Keyring(c))
                                   /\ ToSet(c.previous) \subseteq ToSet(Keyring(c))
           /\ Encrypts(c) => Current(c) # None
<1> DEFINE k == Current(c)
           s == c.previous
           S == ToSet(s) \cup {k}
<1>1. s \in Seq(S)
  <2>1. s \in Seq(ToSet(s))
    BY ConfigFacts
  <2> QED
    BY <2>1, SeqMonotonic
<1>2. Keyring(c) = IF k = None THEN <<>> ELSE <<k>> \o s
  BY DEF Keyring, Current
<1> DEFINE r == <<k>> \o s
<1>3. /\ Len(r) = 1 + Len(s) /\ r \in Seq(S) /\ r[1] = k
      /\ \A i \in 1 .. Len(s) : r[i + 1] = s[i]
  <2>1. <<k>> \in Seq(S) /\ Len(<<k>>) = 1 /\ <<k>>[1] = k
    OBVIOUS
  <2> QED
    BY <1>1, <2>1
<1>4. Len(s) \in Nat /\ DOMAIN s = 1 .. Len(s) /\ DOMAIN r = 1 .. Len(r)
  BY <1>1, <1>3
<1> HIDE DEF r
<1>5. r # <<>> /\ Head(r) = k /\ k \in ToSet(r)
  BY <1>3, <1>4 DEF ToSet
<1>6. ToSet(s) \subseteq ToSet(r)
  <2> SUFFICES ASSUME NEW i \in 1 .. Len(s) PROVE s[i] \in ToSet(r)
    BY <1>4 DEF ToSet
  <2>1. i + 1 \in DOMAIN r /\ r[i + 1] = s[i]
    BY <1>3, <1>4
  <2> QED
    BY <2>1 DEF ToSet
<1>7. Encrypts(c) => k # None
  <2>1. c.enc = "on" => Keyring(c) # <<>>
    BY ConfigFacts DEF EncryptionConfigAccepts, KeyResolved
  <2>2. c.enc # "on" /\ Encrypts(c) => k # None
    BY DEF Encrypts, Current
  <2> QED
    BY <1>2, <2>1, <2>2
<1> QED
  BY <1>2, <1>5, <1>6, <1>7 DEF r

(* Whole bytes decode, but for Arrow without pyarrow. *)
LEMMA WholeDecodes ==
    ASSUME NEW name, NEW e, NEW integ, NEW pyarrow,
           e.damage = "none", e.type = "arrow" => pyarrow
    PROVE  Deserialize(name, e, TRUE, integ, pyarrow) = {"value"}
BY DEF Deserialize, StandardDeserialize, OrjsonDeserialize, ArrowDeserialize, AutoDeserialize,
       NumpyDeserialize, TabularDeserialize, Checked, Unchecked

(* With integrity checking on, damage to the payload shows, but for what    *)
(* auto packs with MessagePack.                                             *)
LEMMA DamageShows ==
    ASSUME NEW name \in Registered, NEW e, NEW integ, NEW pyarrow, integ, e.damage # "type",
           Canonical(name) = "auto" =>
               \/ e.type \in {"arrow", "dataframe", "series"}
               \/ e.type = "numpy" /\ e.frame = "prefix"
    PROVE  Deserialize(name, e, FALSE, integ, pyarrow) = {"corruption"}
<1>1. CASE Canonical(name) # "auto"
  <2>1. Canonical(name) = "default" \/ name = "orjson" \/ name = "arrow"
    BY <1>1 DEF Canonical, Registered
  <2> QED
    BY <2>1 DEF Deserialize, StandardDeserialize, OrjsonDeserialize, ArrowDeserialize, Checked, Canonical
<1>2. CASE Canonical(name) = "auto"
  <2>1. name \in {"auto", "pythonic"}
    BY <1>2 DEF Canonical, Registered
  <2>2. Deserialize(name, e, FALSE, integ, pyarrow) = AutoDeserialize(e.type, e.frame, integ, pyarrow, FALSE)
    BY <1>2, <2>1 DEF Deserialize
  <2> QED
    BY <1>2, <2>2 DEF AutoDeserialize, NumpyDeserialize, ArrowDeserialize, TabularDeserialize, Checked
<1> QED
  BY <1>1, <1>2

(* What a serializer writes. *)
LEMMA SerializeFacts ==
    ASSUME NEW name \in Registered, NEW kind \in Kinds, NEW integ, NEW pyarrow
    PROVE  LET s == Serialize(name, kind, integ, pyarrow)
           IN  /\ s = [type |-> s.type, frame |-> s.frame]
               /\ s.type \in {"msgpack", "orjson", "arrow", "numpy", "dataframe", "series"}
               /\ s.frame \in {"storage", "prefix", "bare"}
               /\ integ => s.frame # "bare"
               /\ Canonical(name) = "auto" /\ kind # "plain" /\ integ =>
                    \/ s.type \in {"arrow", "dataframe", "series"}
                    \/ s.type = "numpy" /\ s.frame = "prefix"
<1> USE DEF Serialize, Framed, IfIntegrity
<1>1. CASE name \in {"default", "std"}
  BY <1>1 DEF StandardSerialize, Canonical
<1>2. CASE name = "orjson"
  BY <1>2 DEF OrjsonSerialize, Canonical
<1>3. CASE name = "arrow"
  BY <1>3 DEF ArrowSerialize, Canonical
<1>4. CASE name \in {"auto", "pythonic"}
  <2>1. Serialize(name, kind, integ, pyarrow) = AutoSerialize(kind, integ, pyarrow)
    BY <1>4 DEF Canonical
  <2>2. CASE kind = "numpy"
    BY <2>1, <2>2 DEF AutoSerialize, NumpySerialize
  <2>3. CASE kind = "dataframe"
    BY <2>1, <2>3 DEF AutoSerialize, DataframeSerialize, ArrowSerialize
  <2>4. CASE kind = "series"
    BY <2>1, <2>4 DEF AutoSerialize, SeriesSerialize
  <2>5. CASE kind = "plain"
    BY <2>1, <2>5 DEF AutoSerialize, MsgpackSerialize
  <2> QED
    BY <2>2, <2>3, <2>4, <2>5 DEF Kinds
<1> QED
  BY <1>1, <1>2, <1>3, <1>4 DEF Registered

(* What an entry that p wrote says, and that it is well formed. *)
Tells(p, e) ==
    LET c == cfg[p]
    IN  /\ e \in Entry
        /\ e.by = p
        /\ e.damage \notin {"none", "payload"} => ~c.interop
        /\ e.ser = Canonical(c.ser)
        /\ e.enc <=> Encrypts(c)
        /\ Encrypts(c) => e.tenant = tenant[p] /\ e.key = Current(c)
        /\ ~c.interop => /\ c.integ => e.frame # "bare"
                         /\ Canonical(c.ser) = "auto" /\ c.kind # "plain" /\ c.integ =>
                              \/ e.type \in {"arrow", "dataframe", "series"}
                              \/ e.type = "numpy" /\ e.frame = "prefix"

(* What p stores. *)
LEMMA MadeTells ==
    ASSUME Shape, NEW p \in Procs, Writer(p)
    PROVE  Tells(p, Made(p)) /\ Made(p).damage = "none"
           /\ (Made(p).type = "arrow" /\ ~Streams(cfg[p]) => cfg[p].pyarrow)
<1> DEFINE c == cfg[p]
<1>1. /\ c \in Configs /\ tenant[p] \in TenantType
      /\ CanSerialize(c)
  BY DEF Shape, Writer
<1>2. c.ser \in Registered /\ (c.ser = "arrow" => c.pyarrow)
  BY <1>1, ConfigFacts DEF HandlerAccepts, Available
<1>3. Canonical(c.ser) \in Registered
  BY <1>2 DEF Canonical, Registered
<1>4. Encrypts(c) => Current(c) \in UNION {ToSet(Keyring(d)) : d \in Configs}
                     /\ Head(Keyring(c)) = Current(c)
  BY <1>1, KeyringFacts
<1> DEFINE seal == SealFor(c, tenant[p])
<1>5. /\ seal.enc \in BOOLEAN /\ (seal.enc <=> Encrypts(c))
      /\ seal.tenant \in TenantType
      /\ seal.key \in (UNION {ToSet(Keyring(d)) : d \in Configs}) \cup {None}
      /\ Encrypts(c) => seal.tenant = tenant[p] /\ seal.key = Current(c)
  <2>1. CASE Encrypts(c)
    <3>1. seal = [enc |-> TRUE, tenant |-> tenant[p], key |-> Head(Keyring(c))]
      BY <2>1 DEF SealFor
    <3>2. seal.enc = TRUE /\ seal.tenant = tenant[p] /\ seal.key = Head(Keyring(c))
      BY <3>1
    <3> HIDE DEF seal, c
    <3> QED
      BY <1>1, <1>4, <2>1, <3>2
  <2>2. CASE ~Encrypts(c)
    <3>1. seal = [enc |-> FALSE, tenant |-> None, key |-> None]
      BY <2>2 DEF SealFor
    <3>2. seal.enc = FALSE /\ seal.tenant = None /\ seal.key = None
      BY <3>1
    <3> HIDE DEF seal, c
    <3> QED
      BY <2>2, <3>2 DEF TenantType
  <2> QED
    BY <2>1, <2>2
<1> HIDE DEF seal, c
<1>6. CASE Streams(c)
  <2> DEFINE m == [ser |-> "arrow", type |-> "arrow", frame |-> "prefix", enc |-> FALSE,
                   tenant |-> None, key |-> None, damage |-> "none", by |-> p]
  <2>1. Made(p) = m
    <3>1. ArrowSerializeToSink.type = "arrow" /\ ArrowSerializeToSink.frame = "prefix"
      BY DEF ArrowSerializeToSink, Framed
    <3> QED
      BY <1>6, <3>1 DEF Made, write_serialized_to, Wrap, c
  <2>2. ~Encrypts(c) /\ ~c.interop /\ Canonical(c.ser) = "arrow"
    BY <1>6 DEF Streams
  <2>3. m \in Entry
    BY DEF Entry, Registered
  <2> QED
    BY <1>6, <2>1, <2>2, <2>3 DEF Tells, c
<1>7. CASE ~Streams(c) /\ c.interop
  <2> DEFINE m == [ser |-> Canonical(c.ser), type |-> "interop", frame |-> "bare",
                   enc |-> seal.enc, tenant |-> seal.tenant, key |-> seal.key,
                   damage |-> "none", by |-> p]
  <2>1. Made(p) = m
    BY <1>7 DEF Made, Seal, Wrap, InteropSerialize, Framed, c, seal
  <2>2. m \in Entry
    BY <1>3, <1>5 DEF Entry, TenantType
  <2> QED
    BY <1>5, <1>7, <2>1, <2>2 DEF Tells, c
<1>8. CASE ~Streams(c) /\ ~c.interop
  <2> DEFINE s == Serialize(c.ser, c.kind, c.integ, c.pyarrow)
             m == [ser |-> Canonical(c.ser), type |-> s.type, frame |-> s.frame,
                   enc |-> seal.enc, tenant |-> seal.tenant, key |-> seal.key,
                   damage |-> "none", by |-> p]
  <2>1. Made(p) = m
    BY <1>8 DEF Made, Seal, Wrap, c, seal
  <2>2. Supports(c.ser, c.kind)
    BY <1>1, <1>8 DEF CanSerialize
  <2>3. c.kind \in Kinds
    BY <2>2 DEF Supports, StandardSupports, OrjsonSupports, ArrowSupports, Kinds
  <2>4. /\ s.type \in {"msgpack", "orjson", "arrow", "numpy", "dataframe", "series"}
        /\ s.frame \in {"storage", "prefix", "bare"}
        /\ c.integ => s.frame # "bare"
        /\ Canonical(c.ser) = "auto" /\ c.kind # "plain" /\ c.integ =>
             \/ s.type \in {"arrow", "dataframe", "series"}
             \/ s.type = "numpy" /\ s.frame = "prefix"
    BY <1>2, <2>3, SerializeFacts
  <2>5. s.type = "arrow" => c.pyarrow
    BY <1>2 DEF Serialize, StandardSerialize, OrjsonSerialize, AutoSerialize, NumpySerialize,
                DataframeSerialize, SeriesSerialize, MsgpackSerialize, Framed, Registered, Canonical
  <2> HIDE DEF s
  <2>6. m \in Entry
    BY <1>3, <1>5, <2>4 DEF Entry, TenantType
  <2> QED
    BY <1>5, <1>8, <2>1, <2>4, <2>5, <2>6 DEF Tells, c
<1> QED
  BY <1>6, <1>7, <1>8

(* An entry keeps saying so when it is damaged. *)
LEMMA FromTells ==
    ASSUME Shape, NEW p \in Procs, Writer(p), NEW e, From(p, e)
    PROVE  Tells(p, e)
<1> DEFINE m == Made(p)
<1>1. Tells(p, m)
  BY MadeTells
<1>2. PICK d \in Damages :
          (d \notin {"none", "payload"} => ~cfg[p].interop) /\ e = [m EXCEPT !.damage = d]
  BY DEF From
<1>3. m \in Entry
  BY <1>1 DEF Tells
<1> HIDE DEF m
<1>4. /\ e.by = m.by /\ e.ser = m.ser /\ e.enc = m.enc /\ e.tenant = m.tenant /\ e.key = m.key
      /\ e.frame = m.frame /\ e.type = m.type /\ e.damage = d /\ e \in Entry
  BY <1>2, <1>3 DEF Entry, Damages
<1> QED
  BY <1>1, <1>2, <1>4 DEF Tells

(* Processes that see each other's entries agree on the kind of value, on   *)
(* interop mode and, outside it, on integrity checking.                     *)
LEMMA PairedFacts ==
    ASSUME Paired, NEW p \in Procs, NEW q \in Procs
    PROVE  /\ cfg[p].kind = cfg[q].kind
           /\ cfg[p].interop <=> cfg[q].interop
           /\ ~cfg[p].interop => cfg[p].integ = cfg[q].integ
<1>1. get_cache_key(cfg[p]) = get_cache_key(cfg[q]) /\ cfg[p].kind = cfg[q].kind
  BY DEF Paired
<1>2. generate_interop_key.kind = "interop"
  BY DEF generate_interop_key
<1>3. \A c : generate_key(c).kind = "native" /\ generate_key(c).integ = c.integ
  BY DEF generate_key
<1> QED
  BY <1>1, <1>2, <1>3 DEF get_cache_key

(* A call that ended with an entry of the cache. *)
Sound(c, r) ==
    r.how \in {"hit", "garbage"} =>
        /\ Encrypts(c) => r.sealed /\ r.damage \in {"none", "noname", "fingerprint"}
        /\ c.integ /\ ~c.interop /\ ~(Canonical(c.ser) = "auto" /\ c.kind = "plain")
             => r.damage # "payload"
        /\ r.how = "garbage" => r.damage # "none"

(* Whole bytes never decode to a wrong value. *)
LEMMA WholeIsRight ==
    ASSUME NEW name, NEW e, NEW integ, NEW pyarrow, e.damage = "none"
    PROVE  "garbage" \notin Deserialize(name, e, TRUE, integ, pyarrow)
BY DEF Deserialize, StandardDeserialize, OrjsonDeserialize, ArrowDeserialize, AutoDeserialize,
       NumpyDeserialize, TabularDeserialize, Checked, Unchecked

(* What a reader takes for a value. *)
Fit(c, e, d) ==
    /\ Encrypts(c) => e.enc /\ e.damage \in {"none", "noname", "fingerprint"}
    /\ c.integ /\ ~c.interop /\ ~(Canonical(c.ser) = "auto" /\ c.kind = "plain")
         => e.damage # "payload"
    /\ d = "garbage" => e.damage # "none"

LEMMA ServedIsSound ==
    ASSUME Shape, Paired, NEW p \in Procs, NEW q \in Procs, NEW e, Tells(q, e),
           NEW d \in Decode(p, e), d \in {"value", "garbage"}
    PROVE  Fit(cfg[p], e, d)
<1> DEFINE c == cfg[p]
<1>1. c \in Configs /\ e \in Entry
  BY DEF Shape, Tells
<1>2. c.ser \in Registered
  BY <1>1, ConfigFacts DEF HandlerAccepts, Available
<1>3. e.enc \in BOOLEAN /\ e.damage \in {"none"} \cup Parts
  BY <1>1 DEF Entry
<1>4. \A t, key : Authenticates(e, t, key) => e.enc /\ e.damage \notin {"payload", "type"}
  BY DEF Authenticates
<1>5. d \in OpenSealed(p, e) =>
        e.enc /\ e.damage \notin {"payload", "type", "notenant"} /\ d \in Opened(c, e)
  BY <1>4 DEF OpenSealed, SaysTenant
<1>6. d \in OpenInterop(p, e) =>
        e.enc /\ e.damage \notin {"payload", "type"} /\ d = "value"
  BY <1>4 DEF OpenInterop
<1>7. CASE c.interop
  <2>1. e.damage \in {"none", "payload"}
    BY <1>3, <1>7, PairedFacts DEF Tells
  <2>2. CASE Encrypts(c)
    <3>1. d \in OpenInterop(p, e)
      BY <1>7, <2>2 DEF Decode, DecodeInterop
    <3> QED
      BY <1>6, <1>7, <2>1, <2>2, <3>1 DEF Fit
  <2>3. CASE ~Encrypts(c)
    <3>1. ~e.enc /\ d \in InteropDeserialize(e.damage # "payload" /\ ~e.enc)
      BY <1>7, <2>3 DEF Decode, DecodeInterop, PlainDecode
    <3>2. d = "garbage" => e.damage # "none"
      BY <3>1 DEF InteropDeserialize, Unchecked
    <3> QED
      BY <1>7, <2>3, <3>2 DEF Fit
  <2> QED
    BY <2>2, <2>3
<1>8. CASE ~c.interop
  <2>1. e.damage # "frame" /\ ~NameRefused(c, e)
    BY <1>8 DEF Decode, Unwraps
  <2>2. e.damage # "name" /\ (e.damage # "noname" => e.ser = Canonical(c.ser))
    BY <2>1 DEF NameRefused
  <2>3. CASE SaysSealed(e)
    <3>1. d \in OpenSealed(p, e)
      BY <1>8, <2>1, <2>3 DEF Decode
    <3>2. e.damage # "enc"
      BY <1>5, <2>3, <3>1 DEF SaysSealed
    <3>3. e.damage \in {"none", "noname", "fingerprint"}
      BY <1>3, <1>5, <2>1, <2>2, <3>1, <3>2 DEF Parts
    <3>4. e.damage = "none" => d = "value"
      BY <1>5, <2>2, <3>1 DEF Opened
    <3> QED
      BY <1>5, <3>1, <3>3, <3>4 DEF Fit
  <2>4. CASE ~SaysSealed(e)
    <3>1. ~Encrypts(c) /\ d \in PlainDecode(c, e)
      BY <1>8, <2>1, <2>4 DEF Decode
    <3>2. e.damage # "enc" => ~e.enc
      BY <2>4 DEF SaysSealed
    <3>3. ASSUME e.damage \in {"none", "payload"}
          PROVE  d \in Deserialize(c.ser, e, e.damage # "payload", c.integ, c.pyarrow)
      BY <1>8, <2>2, <3>1, <3>2, <3>3 DEF PlainDecode
    <3>4. d = "garbage" => e.damage # "none"
      BY <3>3, WholeIsRight
    <3>5. ASSUME c.integ, ~(Canonical(c.ser) = "auto" /\ c.kind = "plain"), e.damage = "payload"
          PROVE  FALSE
      <4>1. Canonical(c.ser) = "auto" => \/ e.type \in {"arrow", "dataframe", "series"}
                                         \/ e.type = "numpy" /\ e.frame = "prefix"
        BY <1>8, <2>2, <3>5, PairedFacts DEF Tells
      <4> HIDE DEF c
      <4>2. Deserialize(c.ser, e, FALSE, c.integ, c.pyarrow) = {"corruption"}
        BY <1>2, <3>5, <4>1, DamageShows
      <4> QED
        BY <3>3, <3>5, <4>2
    <3> QED
      BY <3>1, <3>4, <3>5 DEF Fit
  <2> QED
    BY <2>3, <2>4
<1> QED
  BY <1>7, <1>8

(* What p makes of an undamaged entry of q when p has the key to it. *)
LEMMA Readable ==
    ASSUME Shape, Paired, NEW p \in Procs, NEW q \in Procs, NEW e, Tells(q, e),
           e.damage = "none",
           Canonical(cfg[q].ser) = Canonical(cfg[p].ser),
           e.type = "arrow" => cfg[p].pyarrow,
           Encrypts(cfg[p]) => Encrypts(cfg[q]),
           cfg[q].interop /\ Encrypts(cfg[q]) => Encrypts(cfg[p]) /\ tenant[q] = tenant[p],
           Encrypts(cfg[q]) => /\ Keyring(cfg[p]) # <<>> /\ ~KeyringRefused(cfg[p])
                               /\ Current(cfg[q]) \in ToSet(Keyring(cfg[p]))
    PROVE  Decode(p, e) = {"value"}
<1> DEFINE c == cfg[p]
           w == cfg[q]
<1>1. /\ c.interop <=> w.interop
      /\ e.ser = Canonical(c.ser) /\ (e.enc <=> Encrypts(w))
      /\ Encrypts(w) => e.tenant = tenant[q] /\ e.key = Current(w)
  BY PairedFacts DEF Tells
<1>2. e.enc => Authenticates(e, e.tenant, e.key) /\ e.key \in ToSet(Keyring(c))
  BY <1>1 DEF Authenticates
<1>3. CASE c.interop
  <2>1. CASE Encrypts(c)
    <3>1. Decode(p, e) = OpenInterop(p, e)
      BY <1>1, <1>3, <2>1 DEF Decode, DecodeInterop
    <3>2. Authenticates(e, tenant[p], e.key) /\ e.key \in ToSet(Keyring(c))
      BY <1>1, <1>2, <1>3, <2>1
    <3> QED
      BY <3>1, <3>2 DEF OpenInterop
  <2>2. CASE ~Encrypts(c)
    <3>1. ~e.enc
      BY <1>1, <1>3, <2>2
    <3>2. Decode(p, e) = PlainDecode(c, e)
      BY <1>3, <2>2, <3>1 DEF Decode, DecodeInterop
    <3> QED
      BY <1>3, <3>1, <3>2 DEF PlainDecode, InteropDeserialize, Unchecked
  <2> QED
    BY <2>1, <2>2
<1>4. CASE ~c.interop
  <2>1. Unwraps(e) /\ ~NameRefused(c, e) /\ SaysSealed(e) = e.enc
    BY <1>1 DEF Unwraps, NameRefused, SaysSealed
  <2>2. CASE e.enc
    <3>1. Decode(p, e) = OpenSealed(p, e)
      BY <1>1, <1>4, <2>1, <2>2 DEF Decode
    <3>2. SaysTenant(e) /\ KeyFor(c, e) = e.key /\ ReadTenant(p, e) = e.tenant
      BY <1>2, <2>2 DEF SaysTenant, KeyFor, ReadTenant
    <3>3. Opened(c, e) = {"value"}
      BY <1>1 DEF Opened
    <3> QED
      BY <1>1, <1>2, <2>2, <3>1, <3>2, <3>3 DEF OpenSealed
  <2>3. CASE ~e.enc
    <3>1. Decode(p, e) = PlainDecode(c, e)
      BY <1>1, <1>4, <2>1, <2>3 DEF Decode
    <3>2. PlainDecode(c, e) = Deserialize(c.ser, e, TRUE, c.integ, c.pyarrow)
      BY <1>1, <1>4, <2>3 DEF PlainDecode
    <3> HIDE DEF c
    <3>3. Deserialize(c.ser, e, TRUE, c.integ, c.pyarrow) = {"value"}
      BY WholeDecodes DEF c
    <3> QED
      BY <3>1, <3>2, <3>3
  <2> QED
    BY <2>2, <2>3
<1> QED
  BY <1>3, <1>4

(* p reads what it has stored itself. *)
LEMMA OwnReadable ==
    ASSUME Shape, Paired, NEW p \in Procs, Writer(p), ~Streams(cfg[p])
    PROVE  Decode(p, Seal(p)) = {"value"}
<1> DEFINE c == cfg[p]
           e == Seal(p)
<1>1. /\ Tells(p, e) /\ e.damage = "none"
      /\ e.type = "arrow" => c.pyarrow
  BY MadeTells DEF Made
<1>2. Encrypts(c) => /\ Keyring(c) # <<>> /\ ~KeyringRefused(c)
                     /\ Current(c) \in ToSet(Keyring(c))
  <2>1. c \in Configs
    BY DEF Shape
  <2> QED
    BY <2>1, KeyringFacts DEF Writer, CanSerialize
<1> HIDE DEF e
<1>3. Decode(p, e) = {"value"}
  BY <1>1, <1>2, Readable
<1> QED
  BY <1>3 DEF e

(* In interop mode processes that encrypt have been told their UUID. *)
LEMMA InteropTenant ==
    ASSUME Shape, TenantsKnown, NEW p \in Procs, Booted(p), cfg[p].interop, Encrypts(cfg[p])
    PROVE  tenant[p] = "configured"
<1>1. cfg[p] \in Configs
  BY DEF Shape
<1>2. SingleTenant(cfg[p]) /\ cfg[p].uuid = "given"
  BY <1>1, ConfigFacts DEF HandlerAccepts, InteropAccepts, SingleTenant
<1> QED
  BY <1>2 DEF TenantsKnown, NeedsUuidFile

(* The invariant is enough for mixed fleets. *)
LEMMA FleetFollows == ASSUME IInv PROVE FleetReadable
<1> USE DEF IInv
<1>1. ASSUME NEW p \in Procs, l1[p] # None
      PROVE  Decode(p, l1[p]) = {"value"}
  BY <1>1, OwnReadable DEF Stored
<1>2. ASSUME l2 # None, NEW p \in Procs,
             l2.damage = "none", Booted(p), ~KeyringRefused(cfg[p]),
             Canonical(cfg[l2.by].ser) = Canonical(cfg[p].ser),
             l2.type = "arrow" => cfg[p].pyarrow,
             Encrypts(cfg[p]) => Encrypts(cfg[l2.by]),
             Encrypts(cfg[l2.by]) =>
                 /\ cfg[l2.by].interop => Encrypts(cfg[p])
                 /\ Current(cfg[p]) # None
                 /\ Head(Keyring(cfg[l2.by])) \in {Current(cfg[p])} \cup ToSet(cfg[p].previous)
      PROVE  Decode(p, l2) = {"value"}
  <2>1. PICK q \in Procs : Writer(q) /\ From(q, l2)
    BY <1>2 DEF Stored
  <2>2. Tells(q, l2) /\ l2.by = q
    BY <2>1, FromTells DEF Tells
  <2>3. cfg[p] \in Configs /\ cfg[q] \in Configs
    BY DEF Shape
  <2>4. Encrypts(cfg[q]) => /\ Keyring(cfg[p]) # <<>>
                            /\ Current(cfg[q]) \in ToSet(Keyring(cfg[p]))
    <3> SUFFICES ASSUME Encrypts(cfg[q])
                 PROVE  Keyring(cfg[p]) # <<>> /\ Current(cfg[q]) \in ToSet(Keyring(cfg[p]))
      OBVIOUS
    <3>1. Head(Keyring(cfg[q])) = Current(cfg[q])
      BY <2>3, KeyringFacts
    <3>2. /\ Keyring(cfg[p]) # <<>> /\ Current(cfg[p]) \in ToSet(Keyring(cfg[p]))
          /\ ToSet(cfg[p].previous) \subseteq ToSet(Keyring(cfg[p]))
      BY <1>2, <2>2, <2>3, KeyringFacts
    <3> QED
      BY <1>2, <2>2, <3>1, <3>2
  <2>5. cfg[q].interop /\ Encrypts(cfg[q]) => Encrypts(cfg[p]) /\ tenant[q] = tenant[p]
    <3> SUFFICES ASSUME cfg[q].interop, Encrypts(cfg[q])
                 PROVE  Encrypts(cfg[p]) /\ tenant[q] = tenant[p]
      OBVIOUS
    <3>1. Encrypts(cfg[p]) /\ cfg[p].interop
      BY <1>2, <2>2, PairedFacts
    <3> QED
      BY <1>2, <2>1, <3>1, InteropTenant DEF Writer
  <2> QED
    BY <1>2, <2>2, <2>4, <2>5, Readable
<1> QED
  BY <1>1, <1>2 DEF FleetReadable, Booted, Current

(* What is at rest is well formed and protected as asked. *)
LEMMA AskedFollows == ASSUME IInv PROVE EntriesAsAsked
<1> USE DEF IInv
<1>1. ASSUME l2 # None
      PROVE  \E q \in Procs : Tells(q, l2)
  BY <1>1, FromTells DEF Stored
<1>2. ASSUME NEW p \in Procs, l1[p] # None
      PROVE  Tells(p, l1[p])
  BY <1>2, MadeTells DEF Stored, Made
<1>3. TypeOK
  <2>1. l2 \in Entry \cup {None}
    BY <1>1 DEF Tells
  <2>2. l1 \in [Procs -> Entry \cup {None}]
    <3>1. \A p \in Procs : l1[p] \in Entry \cup {None}
      BY <1>2 DEF Tells
    <3> QED
      BY <3>1 DEF Shape
  <2> QED
    BY <2>1, <2>2 DEF TypeOK, Shape, TenantsKnown, Booted
<1>4. EncryptedAsAsked
  <2> SUFFICES ASSUME NEW p \in Procs, NEW e \in {l2} \cup {l1[q] : q \in Procs},
                      e # None, e.by = p
               PROVE  /\ cfg[p].intent = "secure" => e.enc /\ (e.frame # "bare" \/ cfg[p].interop)
                      /\ cfg[p].intent = "none" /\ cfg[p].asked = "off" => ~e.enc
    BY DEF EncryptedAsAsked
  <2>1. Tells(p, e)
    BY <1>1, <1>2 DEF Tells
  <2>2. cfg[p] \in Configs
    BY DEF Shape
  <2>3. /\ cfg[p].intent = "secure" => Encrypts(cfg[p]) /\ cfg[p].integ
        /\ cfg[p].intent = "none" /\ cfg[p].asked = "off" => ~Encrypts(cfg[p])
    BY <2>2, ConfigFacts DEF Encrypts
  <2> QED
    BY <2>1, <2>3 DEF Tells
<1> QED
  BY <1>3, <1>4 DEF EntriesAsAsked

(* A step changes no configuration, and no tenant but of who boots. *)
Steady ==
    /\ cfg' = cfg
    /\ tenant' \in [Procs -> TenantType]
    /\ phase' \in [Procs -> {"boot", "generate", "idle", "evict", "compute"}]
    /\ \A p \in Procs : Booted(p) => Booted(p)' /\ tenant'[p] = tenant[p]

(* So what a process has written, it would write again. *)
LEMMA WritersKept ==
    ASSUME Steady, NEW p \in Procs, Writer(p)
    PROVE  /\ Writer(p)' /\ Made(p)' = Made(p) /\ Seal(p)' = Seal(p)
           /\ Streams(cfg[p])' <=> Streams(cfg[p])
<1>1. cfg' = cfg /\ tenant'[p] = tenant[p] /\ Booted(p)'
  BY DEF Steady, Writer
<1>2. Writer(p)' /\ (Streams(cfg[p])' <=> Streams(cfg[p]))
  BY <1>1 DEF Writer
<1>3. Seal(p)' = Seal(p)
  BY <1>1 DEF Seal
<1>4. write_serialized_to(p)' = write_serialized_to(p)
  BY DEF write_serialized_to
<1> QED
  BY <1>2, <1>3, <1>4 DEF Made

(* And what it makes of an entry, it would make of it again. *)
LEMMA DecodesAgain ==
    ASSUME Steady, NEW p \in Procs, Booted(p), NEW e, seen'[p] = e
    PROVE  Decode(p, seen[p])' = Decode(p, e)
<1>1. cfg' = cfg /\ tenant'[p] = tenant[p]
  BY DEF Steady
<1> QED
  BY <1>1 DEF Decode, DecodeInterop, OpenInterop, OpenSealed, ReadTenant

(* A booted process goes on with its call. *)
LEMMA GotoSteady ==
    ASSUME IInv, NEW p \in Procs, Booted(p), NEW ph \in {"idle", "evict", "compute"},
           Goto(p, ph), UNCHANGED <<cfg, uuidFile, tenant>>
    PROVE  Steady /\ Paired' /\ TenantsKnown'
<1>1. phase' = [phase EXCEPT ![p] = ph] /\ phase \in [Procs -> {"boot", "generate", "idle", "evict", "compute"}]
      /\ tenant \in [Procs -> TenantType]
  BY DEF Goto, IInv, Shape
<1>2. \A q \in Procs : (Booted(q)' <=> Booted(q)) /\ (phase'[q] = "generate" => phase[q] = "generate")
  BY <1>1 DEF Booted
<1>3. Steady
  BY <1>1, <1>2 DEF Steady
<1>4. Paired'
  BY DEF IInv, Paired
<1>5. TenantsKnown'
  BY <1>2 DEF IInv, TenantsKnown
<1> QED
  BY <1>3, <1>4, <1>5

(* Entries stay or go. *)
LEMMA StoredKept ==
    ASSUME IInv, Steady, l2' \in {l2, None}, \A q \in Procs : l1'[q] \in {l1[q], None}
    PROVE  Stored'
<1>1. ASSUME l2' # None
      PROVE  \E q \in Procs : Writer(q)' /\ From(q, l2)'
  <2>1. l2' = l2 /\ l2 # None
    BY <1>1
  <2>2. PICK q \in Procs : Writer(q) /\ From(q, l2)
    BY <2>1 DEF IInv, Stored
  <2>3. Writer(q)' /\ Made(q)' = Made(q) /\ cfg' = cfg
    BY <2>2, WritersKept DEF Steady
  <2> QED
    BY <2>1, <2>2, <2>3 DEF From
<1>2. ASSUME NEW q \in Procs, l1'[q] # None
      PROVE  Writer(q)' /\ ~Streams(cfg[q])' /\ l1'[q] = Seal(q)'
  <2>1. l1'[q] = l1[q] /\ l1[q] # None
    BY <1>2
  <2>2. Writer(q) /\ ~Streams(cfg[q]) /\ l1[q] = Seal(q)
    BY <2>1 DEF IInv, Stored
  <2> QED
    BY <2>1, <2>2, WritersKept
<1> QED
  BY <1>1, <1>2 DEF Stored

(* A call ends or goes on: r is its result. *)
LEMMA ServesKept ==
    ASSUME IInv, Steady, NEW p \in Procs, NEW r,
           result' = [result EXCEPT ![p] = r], Sound(cfg[p], r)
    PROVE  ServesOnlyWhatWasStored' /\ result' = [q \in Procs |-> result'[q]]
<1>1. cfg' = cfg /\ result = [q \in Procs |-> result[q]]
  BY DEF Steady, IInv, Shape
<1>2. \A q \in Procs : result'[q] = IF q = p THEN r ELSE result[q]
  BY <1>1
<1>3. ASSUME NEW q \in Procs
      PROVE  Sound(cfg[q], result'[q])
  BY <1>2 DEF IInv, ServesOnlyWhatWasStored, Sound
<1> QED
  BY <1>1, <1>3 DEF ServesOnlyWhatWasStored, Sound

(* A call goes on past e, or ends. *)
LEMMA SeenKept ==
    ASSUME IInv, Steady, NEW p \in Procs, Booted(p), NEW ph, Goto(p, ph),
           NEW e, seen' = [seen EXCEPT ![p] = e],
           ph \in {"evict", "compute"} /\ cfg[p].closed /\ e # None => Decode(p, e) # {"auth"}
    PROVE  SeenInnocent' /\ seen' = [q \in Procs |-> seen'[q]]
<1>1. /\ cfg' = cfg /\ seen = [q \in Procs |-> seen[q]]
      /\ phase' = [phase EXCEPT ![p] = ph]
      /\ phase \in [Procs -> {"boot", "generate", "idle", "evict", "compute"}]
  BY DEF Steady, IInv, Shape, Goto
<1>2. ASSUME NEW q \in Procs, phase'[q] \in {"evict", "compute"}, cfg[q].closed, seen'[q] # None
      PROVE  Decode(q, seen[q])' # {"auth"}
  <2>1. CASE q = p
    <3>1. seen'[p] = e /\ phase'[p] = ph
      BY <1>1
    <3> QED
      BY <1>2, <2>1, <3>1, DecodesAgain
  <2>2. CASE q # p
    <3>1. seen'[q] = seen[q] /\ phase'[q] = phase[q]
      BY <1>1, <2>2
    <3>2. Decode(q, seen[q])' = Decode(q, seen[q])
      BY <1>2, <3>1, DecodesAgain DEF Booted
    <3> QED
      BY <1>2, <3>1, <3>2 DEF IInv, SeenInnocent
  <2> QED
    BY <2>1, <2>2
<1> QED
  BY <1>1, <1>2 DEF SeenInnocent

(* A new fleet. *)
LEMMA InitInv == ASSUME Init PROVE IInv
<1>1. Shape
  BY EnvelopeAssumption, FleetAssumption DEF Init, Shape, TenantType
<1>2. Paired /\ TenantsKnown /\ Stored /\ SeenInnocent
  BY DEF Init, Paired, TenantsKnown, Stored, SeenInnocent, Booted
<1>3. ServesOnlyWhatWasStored
  BY DEF Init, ServesOnlyWhatWasStored, NoResult
<1> QED
  BY <1>1, <1>2, <1>3 DEF IInv

(* A call that reads the cache and changes nothing at rest. *)
LEMMA CallInv ==
    ASSUME IInv, NEW p \in Procs, Booted(p), NEW ph \in {"idle", "evict", "compute"}, Goto(p, ph),
           NEW e, seen' = [seen EXCEPT ![p] = e],
           NEW r, result' = [result EXCEPT ![p] = r],
           Sound(cfg[p], r),
           ph \in {"evict", "compute"} /\ cfg[p].closed /\ e # None => Decode(p, e) # {"auth"},
           UNCHANGED <<cfg, uuidFile, tenant, l2, l1, damages>>
    PROVE  IInv'
<1>1. Steady /\ Paired' /\ TenantsKnown'
  BY GotoSteady
<1>2. Stored'
  BY <1>1, StoredKept
<1>3. ServesOnlyWhatWasStored' /\ result' = [q \in Procs |-> result'[q]]
  BY <1>1, ServesKept
<1>4. SeenInnocent' /\ seen' = [q \in Procs |-> seen'[q]]
  BY <1>1, SeenKept
<1>5. Shape'
  BY <1>1, <1>3, <1>4 DEF IInv, Shape, Steady
<1> QED
  BY <1>1, <1>2, <1>3, <1>4, <1>5 DEF IInv

(* A call that ends without the cache, or is not over, is sound. *)
LEMMA UnservedSound ==
    ASSUME NEW c, NEW how \in {"none", "computed", "raised"}
    PROVE  Sound(c, NoResult) /\ Sound(c, [NoResult EXCEPT !.how = how])
BY DEF Sound, NoResult

(* A hit in L1. *)
LEMMA HitL1Inv == ASSUME IInv, NEW p \in Procs, HitL1(p) PROVE IInv'
<1>1. /\ phase[p] = "idle" /\ l1[p] # None /\ Serve(p, "hit", l1[p])
      /\ UNCHANGED <<cfg, uuidFile, tenant, l2, l1, damages>>
  BY DEF HitL1
<1> DEFINE r == [how |-> "hit", sealed |-> l1[p].enc, damage |-> l1[p].damage]
<1>2. Goto(p, "idle") /\ result' = [result EXCEPT ![p] = r] /\ seen' = [seen EXCEPT ![p] = None]
  BY <1>1 DEF Serve
<1>3. Sound(cfg[p], r)
  <2>1. Writer(p) /\ l1[p] = Made(p)
    BY <1>1 DEF IInv, Stored, Made
  <2>2. (Encrypts(cfg[p]) => l1[p].enc) /\ l1[p].damage = "none"
    BY <2>1, MadeTells DEF IInv, Tells
  <2> QED
    BY <2>2 DEF Sound
<1> HIDE DEF r
<1>4. Booted(p)
  BY <1>1 DEF Booted
<1> QED
  BY <1>1, <1>2, <1>3, <1>4, CallInv

(* A read of L2: each outcome of decoding what is there. *)
LEMMA ReadInv == ASSUME IInv, NEW p \in Procs, Read(p) PROVE IInv'
<1>1. phase[p] = "idle" /\ UNCHANGED <<cfg, uuidFile, tenant, l2, l1, damages>>
  BY DEF Read
<1>2. Booted(p)
  BY <1>1 DEF Booted
<1>3. ASSUME NEW found, Miss(p, found), found # None => Decode(p, found) # {"auth"}
      PROVE  IInv'
  <2>1. /\ Goto(p, "compute") /\ result' = [result EXCEPT ![p] = NoResult]
        /\ seen' = [seen EXCEPT ![p] = found]
    BY <1>3 DEF Miss, Pending
  <2>2. Sound(cfg[p], NoResult)
    BY UnservedSound
  <2> QED
    BY <1>1, <1>2, <1>3, <2>1, <2>2, CallInv
<1>4. ASSUME NEW how \in {"computed", "raised"}, Return(p, how)
      PROVE  IInv'
  <2> DEFINE r == [NoResult EXCEPT !.how = how]
  <2>1. /\ Goto(p, "idle") /\ result' = [result EXCEPT ![p] = r]
        /\ seen' = [seen EXCEPT ![p] = None]
    BY <1>4 DEF Return
  <2>2. Sound(cfg[p], r)
    BY <1>4, UnservedSound
  <2> HIDE DEF r
  <2> QED
    BY <1>1, <1>2, <2>1, <2>2, CallInv
<1>5. CASE l2 = None /\ Miss(p, None)
  BY <1>3, <1>5
<1>6. ASSUME l2 # None, NEW d \in Decode(p, l2), GetCachedValue(p, d)
      PROVE  IInv'
  <2>1. ASSUME NEW how \in {"hit", "garbage"}, d = (IF how = "hit" THEN "value" ELSE "garbage"),
               Serve(p, how, l2)
        PROVE  IInv'
    <3> DEFINE r == [how |-> how, sealed |-> l2.enc, damage |-> l2.damage]
    <3>1. Goto(p, "idle") /\ result' = [result EXCEPT ![p] = r] /\ seen' = [seen EXCEPT ![p] = None]
      BY <2>1 DEF Serve
    <3>2. PICK q \in Procs : Tells(q, l2)
      BY <1>6, FromTells DEF IInv, Stored
    <3>3. Fit(cfg[p], l2, d)
      BY <1>6, <2>1, <3>2, ServedIsSound DEF IInv
    <3>4. Sound(cfg[p], r)
      BY <2>1, <3>3 DEF Sound, Fit
    <3> HIDE DEF r
    <3> QED
      BY <1>1, <1>2, <3>1, <3>4, CallInv
  <2>2. CASE d = "value" /\ Serve(p, "hit", l2)
    BY <2>1, <2>2
  <2>3. CASE d = "garbage" /\ Serve(p, "garbage", l2)
    BY <2>1, <2>3
  <2>4. CASE d = "keyring" /\ Return(p, "computed")
    BY <1>4, <2>4
  <2>5. CASE d = "other" /\ Miss(p, l2)
    BY <1>3, <1>6, <2>5
  <2>6. CASE FailRead(p, d)
    <3>1. CASE d = "auth" /\ cfg[p].closed
      BY <1>4, <2>6, <3>1 DEF FailRead
    <3>2. CASE ~(d = "auth" /\ cfg[p].closed)
      <4>1. /\ Goto(p, "evict") /\ result' = [result EXCEPT ![p] = NoResult]
            /\ seen' = [seen EXCEPT ![p] = l2]
        BY <2>6, <3>2 DEF FailRead, Pending
      <4>2. cfg[p].closed => Decode(p, l2) # {"auth"}
        BY <1>6, <3>2
      <4>3. Sound(cfg[p], NoResult)
        BY UnservedSound
      <4> QED
        BY <1>1, <1>2, <4>1, <4>2, <4>3, CallInv
    <3> QED
      BY <3>1, <3>2
  <2> QED
    BY <1>6, <2>2, <2>3, <2>4, <2>5, <2>6 DEF GetCachedValue
<1> QED
  BY <1>5, <1>6 DEF Read

(* The backend does not answer. *)
LEMMA ReadFailsInv == ASSUME IInv, NEW p \in Procs, ReadFails(p) PROVE IInv'
<1>1. /\ phase[p] = "idle" /\ UNCHANGED <<cfg, uuidFile, tenant, l2, l1, damages>>
      /\ Goto(p, "compute") /\ result' = [result EXCEPT ![p] = NoResult]
      /\ seen' = [seen EXCEPT ![p] = None]
  BY DEF ReadFails, Miss, Pending
<1>2. Booted(p) /\ Sound(cfg[p], NoResult)
  BY <1>1, UnservedSound DEF Booted
<1> QED
  BY <1>1, <1>2, CallInv

(* A call ends without the cache. *)
LEMMA ReturnFacts ==
    ASSUME IInv, NEW p \in Procs, Booted(p), NEW how \in {"computed", "raised"}, Return(p, how),
           UNCHANGED <<cfg, uuidFile, tenant>>
    PROVE  /\ Steady /\ Paired' /\ TenantsKnown' /\ SeenInnocent' /\ ServesOnlyWhatWasStored'
           /\ result' = [q \in Procs |-> result'[q]] /\ seen' = [q \in Procs |-> seen'[q]]
<1> DEFINE r == [NoResult EXCEPT !.how = how]
<1>1. /\ Goto(p, "idle") /\ result' = [result EXCEPT ![p] = r]
      /\ seen' = [seen EXCEPT ![p] = None]
  BY DEF Return
<1>2. Sound(cfg[p], r)
  BY UnservedSound
<1> HIDE DEF r
<1>3. Steady /\ Paired' /\ TenantsKnown'
  BY <1>1, GotoSteady
<1>4. ServesOnlyWhatWasStored' /\ result' = [q \in Procs |-> result'[q]]
  BY <1>1, <1>2, <1>3, ServesKept
<1>5. SeenInnocent' /\ seen' = [q \in Procs |-> seen'[q]]
  BY <1>1, <1>3, SeenKept
<1> QED
  BY <1>3, <1>4, <1>5

(* What p stores is traced to p. *)
LEMMA StoresOwn ==
    ASSUME IInv, Steady, NEW p \in Procs, Writer(p),
           l2' \in {l2, Made(p)},
           \/ l1' = l1
           \/ ~Streams(cfg[p]) /\ l1' = [l1 EXCEPT ![p] = Seal(p)]
    PROVE  Stored' /\ l1' = [q \in Procs |-> l1'[q]]
<1>1. cfg' = cfg /\ l1 = [q \in Procs |-> l1[q]]
  BY DEF Steady, IInv, Shape
<1>2. ASSUME l2' # None
      PROVE  \E q \in Procs : Writer(q)' /\ From(q, l2)'
  <2>1. CASE l2' = Made(p)
    <3>1. Writer(p)' /\ Made(p)' = Made(p)
      BY WritersKept
    <3>2. Made(p) \in Entry /\ Made(p).damage = "none"
      BY MadeTells DEF IInv, Tells
    <3>3. Made(p) = [Made(p) EXCEPT !.damage = "none"]
      BY <3>2 DEF Entry
    <3>4. From(p, l2)'
      BY <2>1, <3>1, <3>3 DEF From, Damages
    <3> QED
      BY <3>1, <3>4
  <2>2. CASE l2' = l2
    <3>1. PICK q \in Procs : Writer(q) /\ From(q, l2)
      BY <1>2, <2>2 DEF IInv, Stored
    <3>2. Writer(q)' /\ Made(q)' = Made(q)
      BY <3>1, WritersKept
    <3> QED
      BY <1>1, <2>2, <3>1, <3>2 DEF From
  <2> QED
    BY <2>1, <2>2
<1>3. ASSUME NEW q \in Procs, l1'[q] # None
      PROVE  Writer(q)' /\ ~Streams(cfg[q])' /\ l1'[q] = Seal(q)'
  <2>1. Writer(q) /\ ~Streams(cfg[q]) /\ l1'[q] = Seal(q)
    BY <1>1, <1>3 DEF IInv, Stored
  <2> QED
    BY <2>1, WritersKept
<1>4. l1' = [q \in Procs |-> l1'[q]]
  BY <1>1
<1> QED
  BY <1>2, <1>3, <1>4 DEF Stored

(* The value is stored, in L2 and in L1 ... *)
LEMMA StoreInv == ASSUME IInv, NEW p \in Procs, NEW works \in BOOLEAN, Store(p, works) PROVE IInv'
<1>1. /\ phase[p] = "compute" /\ CanSerialize(cfg[p]) /\ ~Streams(cfg[p])
      /\ l2' = AfterSet(p, works) /\ l1' = [l1 EXCEPT ![p] = Seal(p)]
      /\ Return(p, "computed") /\ UNCHANGED <<cfg, uuidFile, tenant, damages>>
  BY DEF Store
<1>2. Booted(p) /\ Writer(p)
  BY <1>1 DEF Booted, Writer
<1>3. /\ Steady /\ Paired' /\ TenantsKnown' /\ SeenInnocent' /\ ServesOnlyWhatWasStored'
      /\ result' = [q \in Procs |-> result'[q]] /\ seen' = [q \in Procs |-> seen'[q]]
  BY <1>1, <1>2, ReturnFacts
<1>4. l2' \in {l2, Made(p)}
  BY <1>1 DEF AfterSet, Made
<1>5. Stored' /\ l1' = [q \in Procs |-> l1'[q]]
  BY <1>1, <1>2, <1>3, <1>4, StoresOwn
<1>6. Shape'
  BY <1>1, <1>3, <1>5 DEF IInv, Shape, Steady
<1> QED
  BY <1>3, <1>5, <1>6 DEF IInv

(* ... or streamed to L2. *)
LEMMA StoreStreamedInv ==
    ASSUME IInv, NEW p \in Procs, NEW works \in BOOLEAN, StoreStreamed(p, works)
    PROVE  IInv'
<1>1. /\ phase[p] = "compute" /\ CanSerialize(cfg[p]) /\ Streams(cfg[p])
      /\ l2' = IF works THEN write_serialized_to(p) ELSE l2
      /\ Return(p, "computed") /\ UNCHANGED <<cfg, uuidFile, tenant, l1, damages>>
  BY DEF StoreStreamed
<1>2. Booted(p) /\ Writer(p)
  BY <1>1 DEF Booted, Writer
<1>3. /\ Steady /\ Paired' /\ TenantsKnown' /\ SeenInnocent' /\ ServesOnlyWhatWasStored'
      /\ result' = [q \in Procs |-> result'[q]] /\ seen' = [q \in Procs |-> seen'[q]]
  BY <1>1, <1>2, ReturnFacts
<1>4. l2' \in {l2, Made(p)}
  BY <1>1 DEF Made
<1>5. Stored' /\ l1' = [q \in Procs |-> l1'[q]]
  BY <1>1, <1>2, <1>3, <1>4, StoresOwn
<1>6. Shape'
  BY <1>1, <1>3, <1>5 DEF IInv, Shape, Steady
<1> QED
  BY <1>3, <1>5, <1>6 DEF IInv

(* The value cannot be stored. *)
LEMMA StoreFailsInv == ASSUME IInv, NEW p \in Procs, StoreFails(p) PROVE IInv'
<1>1. /\ phase[p] = "compute" /\ UNCHANGED <<cfg, uuidFile, tenant, l2, l1, damages>>
      /\ \E how \in {"computed", "raised"} : Return(p, how)
  BY DEF StoreFails
<1>2. Booted(p)
  BY <1>1 DEF Booted
<1>3. /\ Steady /\ Paired' /\ TenantsKnown' /\ SeenInnocent' /\ ServesOnlyWhatWasStored'
      /\ result' = [q \in Procs |-> result'[q]] /\ seen' = [q \in Procs |-> seen'[q]]
  BY <1>1, <1>2, ReturnFacts
<1>4. Stored'
  BY <1>1, <1>3, StoredKept
<1>5. Shape'
  BY <1>1, <1>3 DEF IInv, Shape, Steady
<1> QED
  BY <1>3, <1>4, <1>5 DEF IInv

(* An entry that did not decode is deleted, or whatever replaced it. *)
LEMMA EvictInv == ASSUME IInv, NEW p \in Procs, NEW works \in BOOLEAN, Evict(p, works) PROVE IInv'
<1>1. /\ phase[p] = "evict" /\ Goto(p, "compute") /\ l2' \in {l2, None}
      /\ UNCHANGED <<cfg, uuidFile, tenant, l1, seen, result, damages>>
  BY DEF Evict, AfterDelete
<1>2. Booted(p)
  BY <1>1 DEF Booted
<1>3. Steady /\ Paired' /\ TenantsKnown'
  BY <1>1, <1>2, GotoSteady
<1>4. Stored'
  BY <1>1, <1>3, StoredKept
<1>5. seen' = [seen EXCEPT ![p] = seen[p]]
  BY <1>1 DEF IInv, Shape
<1>6. cfg[p].closed /\ seen[p] # None => Decode(p, seen[p]) # {"auth"}
  BY <1>1 DEF IInv, SeenInnocent
<1>7. SeenInnocent'
  BY <1>1, <1>2, <1>3, <1>5, <1>6, SeenKept
<1>8. ServesOnlyWhatWasStored'
  BY <1>1 DEF IInv, ServesOnlyWhatWasStored
<1>9. Shape'
  BY <1>1, <1>3 DEF IInv, Shape, Steady
<1> QED
  BY <1>3, <1>4, <1>7, <1>8, <1>9 DEF IInv

(* A step after which every process that had booted is where it was. *)
LEMMA RestKept ==
    ASSUME IInv, Steady, UNCHANGED <<seen, result>>,
           \A q \in Procs : phase'[q] \in {"evict", "compute"} => phase'[q] = phase[q]
    PROVE  Paired' /\ SeenInnocent' /\ ServesOnlyWhatWasStored'
<1>1. cfg' = cfg
  BY DEF Steady
<1>2. Paired' /\ ServesOnlyWhatWasStored'
  BY <1>1 DEF IInv, Paired, ServesOnlyWhatWasStored
<1>3. ASSUME NEW q \in Procs, phase'[q] \in {"evict", "compute"}, cfg[q].closed, seen'[q] # None
      PROVE  Decode(q, seen[q])' # {"auth"}
  <2>1. seen'[q] = seen[q] /\ phase'[q] = phase[q]
    BY <1>3
  <2>2. Decode(q, seen[q])' = Decode(q, seen[q])
    BY <1>3, <2>1, DecodesAgain DEF Booted
  <2> QED
    BY <1>3, <2>1, <2>2 DEF IInv, SeenInnocent
<1>4. SeenInnocent'
  BY <1>1, <1>3 DEF SeenInnocent
<1> QED
  BY <1>2, <1>4

(* A process gets to know its tenant: t, the file, or its own new UUID. *)
LEMMA BootedInv ==
    ASSUME IInv, NEW p \in Procs, ~Booted(p), NEW t \in TenantType, t # None,
           ~NeedsUuidFile(cfg[p]) => t = IF SingleTenant(cfg[p]) THEN "configured" ELSE "extracted",
           tenant' = [tenant EXCEPT ![p] = t], Goto(p, "idle"),
           uuidFile' \in Procs \cup {None},
           UNCHANGED <<cfg, l2, l1, seen, result, damages>>
    PROVE  IInv'
<1>1. /\ phase' = [phase EXCEPT ![p] = "idle"]
      /\ phase \in [Procs -> {"boot", "generate", "idle", "evict", "compute"}]
      /\ tenant \in [Procs -> TenantType]
  BY DEF Goto, IInv, Shape
<1>2. /\ tenant'[p] = t /\ tenant' \in [Procs -> TenantType] /\ phase'[p] = "idle"
      /\ \A q \in Procs \ {p} : tenant'[q] = tenant[q] /\ phase'[q] = phase[q]
      /\ phase' \in [Procs -> {"boot", "generate", "idle", "evict", "compute"}]
  BY <1>1
<1>3. Steady
  BY <1>2 DEF Steady, Booted
<1>4. TenantsKnown'
  <2>1. ASSUME NEW q \in Procs, Booted(q)'
        PROVE  /\ tenant'[q] # None
               /\ ~NeedsUuidFile(cfg[q]) =>
                    tenant'[q] = IF SingleTenant(cfg[q]) THEN "configured" ELSE "extracted"
    <3>1. CASE q = p
      BY <1>2, <3>1
    <3>2. CASE q # p
      BY <1>2, <2>1, <3>2 DEF IInv, TenantsKnown, Booted
    <3> QED
      BY <3>1, <3>2
  <2>2. \A q \in Procs : phase'[q] = "generate" => NeedsUuidFile(cfg[q])
    BY <1>2 DEF IInv, TenantsKnown
  <2> QED
    BY <2>1, <2>2 DEF TenantsKnown
<1>5. Paired' /\ SeenInnocent' /\ ServesOnlyWhatWasStored'
  BY <1>2, <1>3, RestKept
<1>6. Stored'
  BY <1>3, StoredKept
<1>7. Shape'
  BY <1>2 DEF IInv, Shape
<1> QED
  BY <1>4, <1>5, <1>6, <1>7 DEF IInv

(* The configured UUID, or a look at the file. *)
LEMMA BootInv == ASSUME IInv, NEW p \in Procs, Boot(p) PROVE IInv'
<1>1. phase[p] = "boot" /\ UNCHANGED <<cfg, uuidFile, l2, l1, seen, result, damages>>
  BY DEF Boot
<1>2. ~Booted(p) /\ uuidFile \in Procs \cup {None}
  BY <1>1 DEF Booted, IInv, Shape
<1>3. ASSUME ~NeedsUuidFile(cfg[p]), Goto(p, "idle"),
             tenant' = [tenant EXCEPT ![p] =
                          IF SingleTenant(cfg[p]) THEN "configured" ELSE "extracted"]
      PROVE  IInv'
  <2> DEFINE t == IF SingleTenant(cfg[p]) THEN "configured" ELSE "extracted"
  <2>1. t \in TenantType /\ t # None
    BY EnvelopeAssumption DEF TenantType
  <2> QED
    BY <1>1, <1>2, <1>3, <2>1, BootedInv
<1>4. ASSUME NeedsUuidFile(cfg[p]), uuidFile # None, Goto(p, "idle"),
             tenant' = [tenant EXCEPT ![p] = uuidFile]
      PROVE  IInv'
  <2>1. uuidFile \in TenantType
    BY <1>2 DEF TenantType
  <2> QED
    BY <1>1, <1>2, <1>4, <2>1, BootedInv
<1>5. ASSUME NeedsUuidFile(cfg[p]), Goto(p, "generate"), UNCHANGED tenant
      PROVE  IInv'
  <2>1. /\ phase \in [Procs -> {"boot", "generate", "idle", "evict", "compute"}]
        /\ phase' = [phase EXCEPT ![p] = "generate"] /\ tenant \in [Procs -> TenantType]
    BY <1>5 DEF Goto, IInv, Shape
  <2>2. /\ phase' \in [Procs -> {"boot", "generate", "idle", "evict", "compute"}]
        /\ \A q \in Procs \ {p} : phase'[q] = phase[q] /\ phase'[p] = "generate"
    BY <2>1
  <2>3. \A q \in Procs : (Booted(q)' <=> Booted(q))
    BY <1>1, <2>1, <2>2 DEF Booted
  <2>4. Steady
    BY <1>1, <1>5, <2>1, <2>2, <2>3 DEF Steady
  <2>5. TenantsKnown'
    BY <1>1, <1>5, <2>2, <2>3 DEF IInv, TenantsKnown
  <2>6. Paired' /\ SeenInnocent' /\ ServesOnlyWhatWasStored'
    BY <1>1, <2>1, <2>2, <2>4, RestKept
  <2>7. Stored'
    BY <1>1, <2>4, StoredKept
  <2>8. Shape'
    BY <1>1, <1>5, <2>2 DEF IInv, Shape
  <2> QED
    BY <2>5, <2>6, <2>7, <2>8 DEF IInv
<1> QED
  BY <1>3, <1>4, <1>5 DEF Boot

(* A UUID of its own. *)
LEMMA GenerateInv ==
    ASSUME IInv, NEW p \in Procs, NEW persisted \in BOOLEAN, Generate(p, persisted)
    PROVE  IInv'
<1>1. /\ phase[p] = "generate" /\ tenant' = [tenant EXCEPT ![p] = p] /\ Goto(p, "idle")
      /\ uuidFile' = IF persisted THEN p ELSE uuidFile
      /\ UNCHANGED <<cfg, l2, l1, seen, result, damages>>
  BY DEF Generate
<1>2. ~Booted(p) /\ p \in TenantType /\ p # None /\ uuidFile' \in Procs \cup {None}
  BY <1>1, EnvelopeAssumption DEF Booted, TenantType, IInv, Shape
<1>3. NeedsUuidFile(cfg[p])
  BY <1>1 DEF IInv, TenantsKnown
<1> QED
  BY <1>1, <1>2, <1>3, BootedInv

(* A step outside the calls: nobody moves. *)
LEMMA OutsideKept ==
    ASSUME IInv, UNCHANGED <<cfg, uuidFile, tenant, phase, seen, result>>
    PROVE  Steady /\ Paired' /\ TenantsKnown' /\ SeenInnocent' /\ ServesOnlyWhatWasStored'
<1>1. Steady
  BY DEF IInv, Shape, Steady, Booted
<1>2. TenantsKnown'
  BY DEF IInv, TenantsKnown, Booted
<1>3. Paired' /\ SeenInnocent' /\ ServesOnlyWhatWasStored'
  BY <1>1, RestKept
<1> QED
  BY <1>1, <1>2, <1>3

(* An L1 copy goes. *)
LEMMA LoseL1Inv == ASSUME IInv, NEW p \in Procs, LoseL1(p) PROVE IInv'
<1>1. /\ l1' = [l1 EXCEPT ![p] = None] /\ l1 = [q \in Procs |-> l1[q]]
      /\ UNCHANGED <<cfg, uuidFile, tenant, l2, phase, seen, result, damages>>
  BY DEF LoseL1, IInv, Shape
<1>2. Steady /\ Paired' /\ TenantsKnown' /\ SeenInnocent' /\ ServesOnlyWhatWasStored'
  BY <1>1, OutsideKept
<1>3. l1' = [q \in Procs |-> l1'[q]] /\ \A q \in Procs : l1'[q] \in {l1[q], None}
  BY <1>1
<1>4. Stored'
  BY <1>1, <1>2, <1>3, StoredKept
<1>5. Shape'
  BY <1>1, <1>3 DEF IInv, Shape
<1> QED
  BY <1>2, <1>4, <1>5 DEF IInv

(* The L2 entry goes. *)
LEMMA LoseL2Inv == ASSUME IInv, LoseL2 PROVE IInv'
<1>1. l2' = None /\ UNCHANGED <<cfg, uuidFile, tenant, l1, phase, seen, result, damages>>
  BY DEF LoseL2
<1>2. Steady /\ Paired' /\ TenantsKnown' /\ SeenInnocent' /\ ServesOnlyWhatWasStored'
  BY <1>1, OutsideKept
<1>3. Stored'
  BY <1>1, <1>2, StoredKept
<1>4. Shape'
  BY <1>1 DEF IInv, Shape
<1> QED
  BY <1>2, <1>3, <1>4 DEF IInv

(* The L2 entry is damaged: it is still traced to its writer. *)
LEMMA DamageInv == ASSUME IInv, NEW part \in Parts, Damage(part) PROVE IInv'
<1>1. /\ l2 # None /\ damages < MaxDamage /\ l2' = [l2 EXCEPT !.damage = part]
      /\ part # "payload" => ~cfg[l2.by].interop
      /\ damages' = damages + 1
      /\ UNCHANGED <<cfg, uuidFile, tenant, l1, phase, seen, result>>
  BY DEF Damage
<1>2. Steady /\ Paired' /\ TenantsKnown' /\ SeenInnocent' /\ ServesOnlyWhatWasStored'
  BY <1>1, OutsideKept
<1>3. PICK q \in Procs : Writer(q) /\ From(q, l2)
  BY <1>1 DEF IInv, Stored
<1>4. From(q, l2)' /\ Writer(q)'
  <2>1. Tells(q, l2) /\ Tells(q, Made(q))
    BY <1>3, FromTells, MadeTells DEF IInv
  <2>2. l2.by = q /\ l2 \in Entry /\ Made(q) \in Entry
    BY <2>1 DEF Tells
  <2>3. PICK d \in Damages : l2 = [Made(q) EXCEPT !.damage = d]
    BY <1>3 DEF From
  <2>4. Writer(q)' /\ Made(q)' = Made(q)
    BY <1>2, <1>3, WritersKept
  <2>5. l2' = [Made(q) EXCEPT !.damage = part]
    BY <1>1, <2>2, <2>3 DEF Entry
  <2> QED
    BY <1>1, <2>2, <2>4, <2>5 DEF From, Damages
<1>5. Stored'
  <2>1. \A r \in Procs : l1[r] # None =>
          Writer(r)' /\ (Streams(cfg[r])' <=> Streams(cfg[r])) /\ ~Streams(cfg[r])
          /\ l1[r] = Seal(r)'
    BY <1>2, WritersKept DEF IInv, Stored
  <2> QED
    BY <1>1, <1>4, <2>1 DEF Stored
<1>6. Shape'
  BY <1>1, EnvelopeAssumption DEF IInv, Shape
<1> QED
  BY <1>2, <1>5, <1>6 DEF IInv

(* Nothing happens. *)
LEMMA StutterInv == ASSUME IInv, UNCHANGED vars PROVE IInv'
<1>1. UNCHANGED <<cfg, uuidFile, tenant, l2, l1, phase, seen, result, damages>>
  BY DEF vars
<1>2. Steady /\ Paired' /\ TenantsKnown' /\ SeenInnocent' /\ ServesOnlyWhatWasStored'
  BY <1>1, OutsideKept
<1>3. Stored'
  BY <1>1, <1>2, StoredKept
<1>4. Shape'
  BY <1>1 DEF IInv, Shape
<1> QED
  BY <1>2, <1>3, <1>4 DEF IInv
--------------------------------------------------------------------------------
(* Every entry at rest is what its writer made of it, perhaps damaged; who  *)
(* runs knows its tenant; a fail-closed call goes on only past what it did  *)
(* not fail to authenticate (cache_handler.py:642-735, 815-934, 1002-1148). *)
THEOREM InductiveInvariant == Spec => []IInv
<1>1. Init => IInv
  BY InitInv
<1>2. ASSUME IInv, [Next]_vars
      PROVE  IInv'
  <2>1. CASE UNCHANGED vars
    BY <1>2, <2>1, StutterInv
  <2>2. ASSUME NEW p \in Procs,
               Boot(p) \/ HitL1(p) \/ Read(p) \/ ReadFails(p) \/ StoreFails(p) \/ LoseL1(p)
        PROVE  IInv'
    BY <1>2, <2>2, BootInv, HitL1Inv, ReadInv, ReadFailsInv, StoreFailsInv, LoseL1Inv
  <2>3. ASSUME NEW p \in Procs, NEW works \in BOOLEAN,
               Generate(p, works) \/ Evict(p, works) \/ Store(p, works) \/ StoreStreamed(p, works)
        PROVE  IInv'
    BY <1>2, <2>3, GenerateInv, EvictInv, StoreInv, StoreStreamedInv
  <2>4. CASE LoseL2
    BY <1>2, <2>4, LoseL2Inv
  <2>5. ASSUME NEW part \in Parts, Damage(part)
        PROVE  IInv'
    BY <1>2, <2>5, DamageInv
  <2> QED
    BY <1>2, <2>1, <2>2, <2>3, <2>4, <2>5 DEF Next
<1> QED
  BY <1>1, <1>2, PTL DEF Spec

(* An encrypting process serves from the cache only what was stored sealed, *)
(* with the payload it had then and the header, but for the serializer's    *)
(* name and the key's fingerprint; integrity checks notice a damaged        *)
(* payload where they are on; and nobody gets a wrong value from an entry   *)
(* that is not damaged (cache_handler.py:1050-1148), in every fleet.  The   *)
(* header has no checksum, and a plaintext entry whose header was changed   *)
(* may well be served as something else.                                    *)
THEOREM ServedWasStored == Spec => []ServesOnlyWhatWasStored
<1>1. IInv => ServesOnlyWhatWasStored
  BY DEF IInv
<1> QED
  BY <1>1, InductiveInvariant, PTL

(* A fleet in the middle of a key rotation or of a change of configuration  *)
(* can read what its members write, whoever won the race for the deployment *)
(* UUID file (cache_handler.py:642-735, 1002-1148).                         *)
THEOREM FleetIsReadable == Spec => []FleetReadable
<1>1. IInv => FleetReadable
  BY FleetFollows
<1> QED
  BY <1>1, InductiveInvariant, PTL

(* What the decorator asked for is what is at rest, in L1 and in L2         *)
(* (cache_handler.py:525-546, 815-934).                                     *)
THEOREM AtRestAsAsked == Spec => []EntriesAsAsked
<1>1. IInv => EntriesAsAsked
  BY AskedFollows
<1> QED
  BY <1>1, InductiveInvariant, PTL

(* "L2 remains the retained evidence" (wrapper.py:1205): a fail-closed      *)
(* process never removes or overwrites an entry that its call found there   *)
(* and could not authenticate.                                              *)
THEOREM EvidenceIsRetained == Spec => EvidenceRetained
<1>1. IInv => [\A p \in Procs :
         /\ phase[p] \in {"evict", "compute"} /\ phase'[p] # phase[p]
         /\ cfg[p].closed
         /\ l2 # None /\ l2' # l2
         /\ Decode(p, l2) = {"auth"}
         => seen[p] # l2]_vars
  BY DEF IInv, SeenInnocent
<1> QED
  BY <1>1, InductiveInvariant, PTL DEF EvidenceRetained
================================================================================
