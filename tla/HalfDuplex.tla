----------------------------- MODULE HalfDuplex -----------------------------
(***************************************************************************)
(* What a half-duplex gateway promises its two sides: one party has the    *)
(* floor; the FM line carries a DMR call's voice only while that party is  *)
(* the DMR side, the DMR line holds a call open only while it is the FM    *)
(* side, and a DMR talker gives the floor up through a hang time in which  *)
(* the FM side is unkeyed and cannot yet talk.                             *)
(***************************************************************************)
CONSTANTS RxStreams, TxStreams, NoStream

VARIABLES
  floor,    \* "free", "dmr", "hang", "fm", or "over" once shutting down
  fmLine,   \* the stream the FM line ends up keyed for
  dmrLine   \* the call the DMR line ends up holding open

vars == <<floor, fmLine, dmrLine>>

Init == floor = "free" /\ fmLine = NoStream /\ dmrLine = NoStream

\* A DMR talker takes the floor, keeps it, or takes it from another one.
DmrTalks ==
  /\ floor \in {"free", "dmr", "hang"}
  /\ floor' = "dmr"
  /\ \E s \in RxStreams : fmLine' \in {fmLine, s, NoStream}
  /\ UNCHANGED dmrLine

DmrStops ==
  /\ floor = "dmr"
  /\ floor' = "hang"
  /\ fmLine' = NoStream
  /\ UNCHANGED dmrLine

HangEnds ==
  /\ floor = "hang"
  /\ floor' = "free"
  /\ UNCHANGED <<fmLine, dmrLine>>

FmTalks ==
  /\ floor = "free"
  /\ floor' = "fm"
  /\ \E s \in TxStreams : dmrLine' = s
  /\ UNCHANGED fmLine

FmStops ==
  /\ floor = "fm"
  /\ floor' = "free"
  /\ dmrLine' = NoStream
  /\ UNCHANGED fmLine

\* The DMR line goes down with its session, before the talker notices.
LineLost ==
  /\ dmrLine' = NoStream
  /\ UNCHANGED <<floor, fmLine>>

\* Nothing is promised of a gateway that is shutting down.
Over ==
  /\ floor' = "over"
  /\ fmLine' \in RxStreams \cup {NoStream}
  /\ dmrLine' \in TxStreams \cup {NoStream}

Next == DmrTalks \/ DmrStops \/ HangEnds \/ FmTalks \/ FmStops \/ LineLost
        \/ Over

Spec == Init /\ [][Next]_vars

-----------------------------------------------------------------------------
\* The two lines are never in use together, nor one without its floor.
OneDirection ==
  floor # "over" =>
    /\ fmLine # NoStream => floor = "dmr"
    /\ dmrLine # NoStream => floor = "fm"
=============================================================================
