---------------------------- MODULE UnraidSource ----------------------------
(***************************************************************************)
(* The collectors behind core.UnraidSource (internal/unraid): how the      *)
(* answers of unraid-api, of the emhttp files and of smartctl become a     *)
(* reading, a fallback or an error.                                        *)
(***************************************************************************)
EXTENDS Integers, Sequences

\* What unraid-api may answer: nothing, HTTP 401 or 403, no JSON, an error that
\* is or reads like a rejected credential, another error, data.
ApiReplies == {"unreachable", "http401", "garbled", "autherror", "error", "data"}

\* graphqlClient.do.
do(reply) ==
    CASE reply = "data" -> "ok"
      [] reply \in {"http401", "autherror"} -> "unauthenticated"
      [] OTHER -> "error"

\* Array and HostInfo: the local files are read when, and only when, unraid-api
\* rejects the credential.
WithFallback(reply, filesReadable) ==
    CASE do(reply) = "ok" -> "unraid-api"
      [] do(reply) = "unauthenticated" /\ filesReadable -> "emhttp"
      [] OTHER -> "error"

\* Shares: the API's list is completed from the files, so it needs both.
SharesFrom(reply, filesReadable) ==
    IF do(reply) = "ok" /\ ~filesReadable THEN "error"
    ELSE WithFallback(reply, filesReadable)

\* A size in kibibytes. A field the files lack or that is no number reads as 0.
kibField(fields, key) ==
    IF key \in DOMAIN fields THEN 1024 * fields[key] ELSE 0

NoDevice == ""

\* The slots unraid-api lists in its disks, caches and parities are taken as they
\* come, empty ones too.
mapArrayDisks(deviceOf) == DOMAIN deviceOf \ {"flash"}

\* disks.ini lists the boot device and the empty slots as well; both are left out.
readArrayStateFromEmhttp(deviceOf) ==
    {s \in DOMAIN deviceOf : s # "flash" /\ deviceOf[s] # NoDevice}

\* The slots of an array reading.
DisksFrom(source, deviceOf) ==
    IF source = "emhttp" THEN readArrayStateFromEmhttp(deviceOf) ELSE mapArrayDisks(deviceOf)

\* smartctl -n standby ends with a status whose bits say why. Bit 1 (the value
\* 2) means that the device could not be opened or is asleep; the code takes it
\* for asleep. Any other bit, those of a failing disk included, is an error.
standbyExitBit == 1

runSmartctl(bits) ==
    CASE standbyExitBit \in bits -> "standby"
      [] standbyExitBit \notin bits /\ bits # {} -> "error"
      [] OTHER -> "ok"
=============================================================================
