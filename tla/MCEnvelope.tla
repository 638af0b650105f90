------------------------------- MODULE MCEnvelope ------------------------------
(* TLC instance of Envelope: two processes with every pair of these configurations, in *)
(* one order of each pair: the processes are alike but for their configuration.  The   *)
(* auto serializer, which is never sealed, has the same part with and without keys     *)
(* around, and needs pyarrow, or the lack of it, for a DataFrame only; the test preset *)
(* is tried without a key, as minimal with one is the same but for the serializer.     *)
EXTENDS Envelope, TLC

CONSTANTS p1, p2, k1, k2

MCProcs == {p1, p2}

Plain == [intent |-> "production", kind |-> "plain", ser |-> "default", enc |-> "detect", key |-> None,
          tenant |-> "none", uuid |-> "file", closed |-> FALSE, integ |-> TRUE,
          interop |-> FALSE, file |-> FALSE]

Secure == [Plain EXCEPT !.intent = "secure"]
Optout == [Plain EXCEPT !.intent = "none", !.enc = "off"]

MCRequests ==
    {Plain,
     [Optout EXCEPT !.ser = "auto"],
     [Plain EXCEPT !.intent = "minimal"],
     [Plain EXCEPT !.intent = "test", !.ser = "orjson"],
     [Optout EXCEPT !.ser = "arrow", !.kind = "dataframe", !.file = TRUE],
     [Optout EXCEPT !.ser = "auto", !.kind = "dataframe"],
     [Optout EXCEPT !.ser = "auto", !.kind = "series", !.integ = FALSE],
     [Optout EXCEPT !.ser = "pythonic", !.kind = "numpy"],
     [Plain EXCEPT !.interop = TRUE, !.uuid = "given", !.closed = TRUE],
     [Secure EXCEPT !.ser = "std", !.closed = TRUE],
     [Secure EXCEPT !.key = k1, !.tenant = "extractor"]}

MCEnvs ==
    {[master |-> None, previous |-> <<>>, pyarrow |-> FALSE],
     [master |-> k2, previous |-> <<k1>>, pyarrow |-> TRUE]}

Chosen ==
    {c \in Configs : /\ Canonical(c.ser) = "auto" /\ c.kind # "dataframe" => c.master # None
                    /\ c.intent = "test" => c.master = None}

MCFleets ==
    {CHOOSE f \in [MCProcs -> Chosen] : {f[p] : p \in MCProcs} = {c, d} : c, d \in Chosen}
================================================================================
