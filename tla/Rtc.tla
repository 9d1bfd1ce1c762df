--------------------------------- MODULE Rtc ---------------------------------
(***************************************************************************)
(* The real-time clock (rtc.c).  The time is kept lazily: base_rtctime is  *)
(* what the clock showed when the host's clock showed base_uptime.  The    *)
(* guest's accesses and the expiries of the update timer (each second) and *)
(* of the periodic timer run under vrtc->mtx and are one step each.        *)
(*                                                                         *)
(* r.fields are the date and time registers as seconds, or Broken if they  *)
(* are no date; RtcTime has the conversion.  r.alarm is the second of a    *)
(* Minute the alarm asks for, or AnySecond.  ref is a clock that is simply *)
(* advanced each second; rung tells whether the step before raised the     *)
(* alarm flag.                                                             *)
(***************************************************************************)
EXTENDS Integers, FiniteSets

CONSTANTS MaxNow,   \* seconds of the host's clock (a bound)
          MaxTime,  \* latest date the guest goes to by a century (a bound)
          Dates,    \* what the guest writes into the date registers
          Minute,   \* seconds after which the alarm matches again
          Century,  \* seconds of a century
          Rates     \* rate selections: 0 is none

\* Dates, rates and seconds count from 0.
ASSUME RtcAssumption ==
    Dates \subseteq Nat /\ Rates \subseteq Nat /\ Century \in Nat /\ Minute \in Nat

VARIABLES r, ref, rung, over

rtcVars == <<r, ref, rung, over>>

Broken == -1
AnySecond == -1
OneSecond == -1

-----------------------------------------------------------------------------
(* The functions of rtc.c *)

update_enabled(q) == q.div /\ ~q.halt /\ q.time # Broken

vrtc_curtime(q) == IF update_enabled(q) THEN q.time + (q.now - q.up) ELSE q.time
Basetime(q) == IF update_enabled(q) THEN q.now ELSE q.up

vrtc_freq(q) ==
    IF q.pie /\ q.div THEN q.rate ELSE IF (q.aie \/ q.uie) /\ update_enabled(q) THEN OneSecond ELSE 0

\* The guest owns the registers while the clock is halted.
secs_to_rtc(q, t, force) == IF t < 0 \/ (q.halt /\ ~force) THEN q ELSE [q EXCEPT !.fields = t]

\* The interrupt flag is what is flagged and enabled; the line follows it.
vrtc_set_reg_c(q, flags) ==
    [q EXCEPT !.flags = flags, !.swallowed = FALSE,
              !.irq = \/ q.aie /\ "alarm" \in flags
                      \/ q.pie /\ "period" \in flags
                      \/ q.uie /\ "update" \in flags]

Matches(q, t) == q.alarm = AnySecond \/ t % Minute = q.alarm

\* Mutant: the clock goes to the new time at once.
VisitedLast(q, t) == {t}

\* With the alarm on every second up to the new time is visited.
Visited(q, t) == IF q.aie /\ q.time # Broken THEN q.time + 1 .. t ELSE {t}

Rings(q, t) == IF q.aie THEN {s \in Visited(q, t) : Matches(q, s)} ELSE {}

\* The new time is not before the old one (see Backwards).
vrtc_time_update(q, t, base) ==
    LET b == [q EXCEPT !.up = base]
        moved == [b EXCEPT !.time = t, !.rung = @ \/ Rings(q, t) # {}]
        shown == IF q.aie THEN secs_to_rtc(moved, t, FALSE) ELSE moved
        flags == (IF Rings(q, t) # {} THEN {"alarm"} ELSE {}) \union (IF q.uie THEN {"update"} ELSE {})
    IN  IF t = q.time THEN b
        ELSE IF t = Broken THEN [b EXCEPT !.time = Broken]
        ELSE IF q.halt THEN b
        ELSE IF flags = {} THEN shown ELSE vrtc_set_reg_c(shown, q.flags \union flags)

\* Counting seconds up never meets an earlier time.
Backwards(q, t) == q.aie /\ q.time # Broken /\ t # Broken /\ t < q.time

\* The periodic timer is made again when its frequency has changed.
Retime(q, old) == IF q.pie /\ vrtc_freq(q) # old THEN [q EXCEPT !.timer = vrtc_freq(q)] ELSE q

\* Each access first brings the clock up to date.
Updated(q) == vrtc_time_update(q, vrtc_curtime(q), Basetime(q))

\* Halting shows the time, gives the registers to the guest and drops the
\* update interrupt, without another look at the flags (swallowed).
Halted(q) ==
    LET s == secs_to_rtc(q, q.time, TRUE)
    IN  vrtc_time_update([s EXCEPT !.uie = FALSE, !.swallowed = @ \/ (q.uie /\ q.irq)], Broken, q.up)

vrtc_set_reg_b(q, b) ==
    LET n == [q EXCEPT !.halt = b.halt, !.pie = b.pie, !.aie = b.aie, !.uie = b.uie]
        h == IF b.halt = q.halt THEN n
             ELSE IF b.halt THEN Halted(n) ELSE vrtc_time_update(n, n.fields, n.now)
        c == IF <<b.pie, b.aie, b.uie>> # <<q.pie, q.aie, q.uie>> THEN vrtc_set_reg_c(h, h.flags) ELSE h
    IN  Retime(c, vrtc_freq(q))

\* Mutant: the time the dividers were held in reset is not taken out.
vrtc_set_reg_aRunning(q, div, rate) == Retime([q EXCEPT !.div = div, !.rate = rate], vrtc_freq(q))

vrtc_set_reg_a(q, div, rate) ==
    Retime([q EXCEPT !.div = div, !.rate = rate, !.up = IF ~q.div /\ div THEN q.now ELSE @], vrtc_freq(q))

-----------------------------------------------------------------------------
(* Steps.  over: the port handler failed, which ends the VM ("abort"), or   *)
(* counts for ever ("hang").                                               *)

RtcInit ==
    /\ \E t \in Dates :
         /\ r = [now |-> 0, up |-> 0, time |-> t, fields |-> t, div |-> TRUE, rate |-> 0, halt |-> FALSE,
                 pie |-> FALSE, aie |-> FALSE, uie |-> FALSE, flags |-> {}, irq |-> FALSE, swallowed |-> FALSE,
                 timer |-> 0, alarm |-> 0, rung |-> FALSE]
         /\ ref = t
    /\ rung = FALSE /\ over = "no"

To(q) == r' = [q EXCEPT !.rung = FALSE] /\ rung' = q.rung

Tick ==
    /\ r.now < MaxNow
    /\ To([r EXCEPT !.now = @ + 1])
    /\ ref' = IF update_enabled(r) THEN ref + 1 ELSE ref
    /\ UNCHANGED over

vrtc_update_timer ==
    /\ r.aie \/ r.uie
    /\ To(Updated(r))
    /\ UNCHANGED <<ref, over>>

vrtc_periodic_timer ==
    /\ r.timer > 0 /\ r.pie
    /\ To(vrtc_set_reg_c(r, r.flags \union {"period"}))
    /\ UNCHANGED <<ref, over>>

\* Unhalting with registers that are no date fails the port access.
WriteRegB(b) ==
    LET u == Updated(r)
    IN  IF u.halt /\ ~b.halt /\ u.fields = Broken
        THEN over' = "abort" /\ UNCHANGED <<r, ref, rung>>
        ELSE /\ To(vrtc_set_reg_b(u, b))
             /\ ref' = IF b.halt THEN Broken ELSE IF u.halt THEN u.fields ELSE ref
             /\ UNCHANGED over

WriteRegA(div, rate) ==
    /\ To(vrtc_set_reg_a(Updated(r), div, rate))
    /\ UNCHANGED <<ref, over>>

ReadRegC ==
    /\ To(vrtc_set_reg_c(Updated(r), {}))
    /\ UNCHANGED <<ref, over>>

ReadTime ==
    /\ LET u == Updated(r) IN To(secs_to_rtc(u, vrtc_curtime(u), FALSE))
    /\ UNCHANGED <<ref, over>>

\* Unless the clock is halted the next access overwrites the registers.
WriteDate ==
    \E d \in Dates \union {Broken} :
        /\ LET u == Updated(r) IN To([secs_to_rtc(u, vrtc_curtime(u), FALSE) EXCEPT !.fields = d])
        /\ UNCHANGED <<ref, over>>

WriteAlarm ==
    \E a \in {AnySecond} \union (0 .. Minute - 1) :
        /\ To([Updated(r) EXCEPT !.alarm = a])
        /\ UNCHANGED <<ref, over>>

\* The century is taken at once, with the date of the moment.
WriteCentury ==
    \E d \in {-Century, Century} :
        LET u == Updated(r)
            t == u.time + d
        IN  /\ ~r.halt /\ r.time # Broken /\ t <= MaxTime
            /\ IF t < 0 THEN over' = "abort" /\ UNCHANGED <<r, ref, rung>>
               ELSE IF Backwards(u, t) THEN over' = "hang" /\ UNCHANGED <<r, ref, rung>>
               ELSE /\ To([vrtc_time_update(u, t, u.now) EXCEPT !.fields = t])
                    /\ ref' = t
                    /\ UNCHANGED over

RegBs == [halt : BOOLEAN, pie : BOOLEAN, aie : BOOLEAN, uie : BOOLEAN]

Guest ==
    \/ \E b \in RegBs : WriteRegB(b)
    \/ \E div \in BOOLEAN, rate \in Rates : WriteRegA(div, rate)
    \/ ReadRegC \/ ReadTime \/ WriteDate \/ WriteAlarm \/ WriteCentury

RtcNext == over = "no" /\ (Tick \/ vrtc_update_timer \/ vrtc_periodic_timer \/ Guest)

RtcSpec == RtcInit /\ [][RtcNext]_rtcVars

-----------------------------------------------------------------------------
(* Properties *)

\* The time the registers would show is that of a clock which is advanced each
\* second while the guest lets it run, whatever was read, written and halted
\* in between (vrtc_curtime, vrtc_time_update, vrtc_set_reg_a, vrtc_set_reg_b).
ClockKept == vrtc_curtime(r) = ref

\* The line is up exactly if a flag is raised whose interrupt is enabled, but
\* for an update interrupt that halting dropped; and as long as the periodic
\* interrupt is enabled its timer has the selected rate, if one is selected
\* (vrtc_set_reg_c, vrtc_set_reg_b, vrtc_set_reg_a).
RtcLines ==
    /\ r.irq <=> \/ r.swallowed
                 \/ r.aie /\ "alarm" \in r.flags
                 \/ r.pie /\ "period" \in r.flags
                 \/ r.uie /\ "update" \in r.flags
    /\ r.pie /\ r.div /\ r.rate > 0 => r.timer = r.rate

\* Seconds that have passed, that the alarm asks for, and that the lazy clock
\* has not visited yet.
Due == IF r.aie /\ update_enabled(r) THEN {t \in r.time + 1 .. vrtc_curtime(r) : Matches(r, t)} ELSE {}

\* No such second is passed over: an access or an expiry that moves the clock
\* past it, changes the alarm, or stops the clock raises the alarm flag first (vrtc_data_handler, vrtc_time_update).
AlarmNotSkipped == [][over' = "no" => Due \subseteq Due' \/ rung']_rtcVars

\* Time and line together, through reads, writes, halts and late timers.
RtcSound == ClockKept /\ RtcLines
=============================================================================
