-------------------------------- MODULE MCRtc --------------------------------
(***************************************************************************)
(* The clock in two halves: the time and the alarm without the periodic    *)
(* and update interrupts, and the interrupts over one second.              *)
(***************************************************************************)
EXTENDS Rtc

VARIABLE rtcPart

ClockNext ==
    /\ over = "no"
    /\ \/ Tick \/ vrtc_update_timer
       \/ \E b \in RegBs : ~b.pie /\ ~b.uie /\ WriteRegB(b)
       \/ \E div \in BOOLEAN : WriteRegA(div, 0)
       \/ ReadRegC \/ ReadTime \/ WriteDate \/ WriteAlarm \/ WriteCentury

LineNext ==
    /\ over = "no"
    /\ \/ r.now < 1 /\ Tick
       \/ vrtc_update_timer \/ vrtc_periodic_timer
       \/ \E b \in RegBs : WriteRegB(b)
       \/ \E div \in BOOLEAN, rate \in Rates : WriteRegA(div, rate)
       \/ ReadRegC

MCRtcInit == RtcInit /\ rtcPart \in {"clock", "line"}

MCRtcNext ==
    /\ UNCHANGED rtcPart
    /\ IF rtcPart = "clock" THEN ClockNext ELSE LineNext

MCRtcSpec == MCRtcInit /\ [][MCRtcNext]_<<rtcVars, rtcPart>>
=============================================================================
