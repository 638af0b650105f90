------------------------------- MODULE Serializers -----------------------------
(***************************************************************************)
(* The base serializers (serializers/): how each frames a value of a kind  *)
(* and what each makes of bytes that may have been damaged since.          *)
(*                                                                         *)
(* A payload is its original_type, its frame ("storage": ByteStorage,      *)
(* compressed and checksummed; "prefix": an xxHash3-64 before the bytes;   *)
(* "bare": neither) and whether it is whole.  Decoding is the set of       *)
(* outcomes: "value", "garbage" (a wrong value, without an error),         *)
(* "corruption" (SerializationError) or "other" (another exception).       *)
(***************************************************************************)

Kinds == {"plain", "numpy", "dataframe", "series"}

Framed(type, frame) == [type |-> type, frame |-> frame]
IfIntegrity(integ, frame) == IF integ THEN frame ELSE "bare"

(* A checksum over all the bytes notices damage; without one the damage may *)
(* show in the decoder, or not at all.                                      *)
Checked(whole) == IF whole THEN {"value"} ELSE {"corruption"}
Unchecked(whole) == IF whole THEN {"value"} ELSE {"garbage", "corruption"}

(* Bytes decoded as what they are not, by another serializer than wrote     *)
(* them or by another original_type: what comes out depends on the bytes.   *)
Misread == {"value", "garbage", "corruption", "other"}
--------------------------------------------------------------------------------
(* StandardSerializer: language-universal types only. *)
StandardSupports(kind) == kind = "plain"
StandardSerialize(integ) == Framed("msgpack", IfIntegrity(integ, "storage"))
StandardDeserialize(integ, whole) == IF integ THEN Checked(whole) ELSE Unchecked(whole)

(* OrjsonSerializer: what JSON can hold. *)
OrjsonSupports(kind) == kind = "plain"
OrjsonSerialize(integ) == Framed("orjson", IfIntegrity(integ, "prefix"))
OrjsonDeserialize(integ, whole) == IF integ THEN Checked(whole) ELSE Unchecked(whole)

(* ArrowSerializer: tables.  The checksum is unconditional, and a reader    *)
(* goes by the magic it finds; damage to the magic is an error too.         *)
ArrowSupports(kind) == kind = "dataframe"
ArrowSerialize == Framed("arrow", "prefix")

(* serialize_to_sink: the same bytes; the checksum, which is stored first,  *)
(* is patched in when the last batch has been written.                      *)
ArrowSerializeToSink == Framed("arrow", "prefix")
ArrowDeserialize(whole) == Checked(whole)

(* InteropSerializer: plain MessagePack, for every SDK. *)
InteropSupports(kind) == kind = "plain"
InteropSerialize == Framed("interop", "bare")
InteropDeserialize(whole) == Unchecked(whole)
--------------------------------------------------------------------------------
(* AutoSerializer. *)
NumpySerialize(integ) == Framed("numpy", IfIntegrity(integ, "prefix"))
DataframeSerialize(integ) == Framed("dataframe", IfIntegrity(integ, "storage"))
SeriesSerialize(integ) == Framed("series", IfIntegrity(integ, "storage"))
MsgpackSerialize(integ) == Framed("msgpack", IfIntegrity(integ, "storage"))

(* DataFrames go to Arrow where pyarrow is installed. *)
AutoSerialize(kind, integ, pyarrow) ==
    CASE kind = "numpy" -> NumpySerialize(integ)
      [] kind = "dataframe" -> IF pyarrow THEN ArrowSerialize ELSE DataframeSerialize(integ)
      [] kind = "series" -> SeriesSerialize(integ)
      [] OTHER -> MsgpackSerialize(integ)

(* The prefix is recognised by the magic after it. *)
NumpyDeserialize(frame, whole) == IF frame = "prefix" THEN Checked(whole) ELSE Unchecked(whole)

(* _deserialize_dataframe and _deserialize_series, on what retrieve()       *)
(* returned or, with integrity off, on the bytes: MessagePack's ValueError  *)
(* is not wrapped then.                                                     *)
TabularDeserialize(integ, whole) ==
    IF integ \/ whole THEN Checked(whole) ELSE Unchecked(whole) \cup {"other"}

(* deserialize: by original_type.  The generic branch catches the           *)
(* ValueError of a failed checksum and parses the bytes as if they had no   *)
(* envelope (see EveryChecksumCounts).                                      *)
AutoDeserialize(type, frame, integ, pyarrow, whole) ==
    CASE type = "numpy" -> NumpyDeserialize(frame, whole)
      [] type = "arrow" -> IF pyarrow THEN ArrowDeserialize(whole) ELSE {"corruption"}
      [] type \in {"dataframe", "series"} -> TabularDeserialize(integ, whole)
      [] OTHER -> Unchecked(whole)
--------------------------------------------------------------------------------
(* get_serializer: the registry, but for "encrypted", which only the        *)
(* handler makes use of, through Envelope's SealFor.                        *)
Registered == {"auto", "pythonic", "default", "std", "arrow", "orjson"}
Available(name, pyarrow) == name \in Registered /\ (name = "arrow" => pyarrow)

(* _SERIALIZER_NAME_ALIASES: the name an entry carries. *)
Canonical(name) ==
    CASE name \in {"std", "standard"} -> "default"
      [] name = "pythonic" -> "auto"
      [] OTHER -> name

Supports(name, kind) ==
    CASE Canonical(name) = "default" -> StandardSupports(kind)
      [] name = "orjson" -> OrjsonSupports(kind)
      [] name = "arrow" -> ArrowSupports(kind)
      [] OTHER -> kind \in Kinds

Serialize(name, kind, integ, pyarrow) ==
    CASE Canonical(name) = "default" -> StandardSerialize(integ)
      [] name = "orjson" -> OrjsonSerialize(integ)
      [] name = "arrow" -> ArrowSerialize
      [] OTHER -> AutoSerialize(kind, integ, pyarrow)

(* Only auto goes by the original_type of the header. *)
Deserialize(name, e, whole, integ, pyarrow) ==
    CASE Canonical(name) = "default" -> StandardDeserialize(integ, whole)
      [] name = "orjson" -> OrjsonDeserialize(integ, whole)
      [] name = "arrow" -> ArrowDeserialize(whole)
      [] e.damage = "type" -> Misread
      [] OTHER -> AutoDeserialize(e.type, e.frame, integ, pyarrow, whole)
================================================================================
