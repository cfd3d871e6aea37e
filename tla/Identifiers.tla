---------------------------- MODULE Identifiers ----------------------------
(***************************************************************************)
(* The checked newtypes (dmr-types/src, bridge/src/types.rs): a value the  *)
(* program holds of one of these types went through its TryFrom or its     *)
(* Deserialize, which refuse what does not fit the field it is sent in.    *)
(***************************************************************************)
EXTENDS Integers

CONSTANT None   \* no value: Option::None

Ok(v) == [err |-> None, val |-> v]
Err(e) == [err |-> e, val |-> None]
IsOk(result) == result.err = None

MAX_24BIT == 2 ^ 24 - 1
MAX_COLOR_CODE == 15
DEFAULT_COLOR_CODE == 1

TryDmrId(v) == IF v = 0 THEN Err("DmrIdZero") ELSE Ok(v)

TrySubscriberId(v) ==
  CASE v = 0 -> Err("SubscriberIdZero")
    [] v > MAX_24BIT -> Err("SubscriberIdTooLarge")
    [] OTHER -> Ok(v)

TryTalkgroup(v) ==
  CASE v = 0 -> Err("TalkgroupZero")
    [] v > MAX_24BIT -> Err("TalkgroupTooLarge")
    [] OTHER -> Ok(v)

TryColorCode(v) == IF v > MAX_COLOR_CODE THEN Err("ColorCodeTooLarge") ELSE Ok(v)
TrySlot(v) == IF v \in {1, 2} THEN Ok(v) ELSE Err("SlotInvalid")

\* The three low bytes, as the air and DMRD carry an ID.
ToBytes3(id) == id % 2 ^ 24

-----------------------------------------------------------------------------
MAX_FREQ_HZ == 999999999
TryFrequency(hz) ==
  IF hz = 0 \/ hz > MAX_FREQ_HZ THEN Err("Frequency") ELSE Ok(hz)

\* A callsign by its length and whether it is ASCII alphanumeric.
MAX_CALLSIGN_LEN == 8
TryCallsign(s) ==
  IF s.len = 0 \/ s.len > MAX_CALLSIGN_LEN \/ ~s.alphanumeric
  THEN Err("Callsign") ELSE Ok(s)
=============================================================================
