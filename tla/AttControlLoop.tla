--------------------------- MODULE AttControlLoop ---------------------------
(***************************************************************************)
(* The control task of mc_att_control: MulticopterAttitudeControl::run().  *)
(* One gyro sample wakes the task; it copies every topic that changed into *)
(* its caches (PollInputs), then runs one iteration to completion:        *)
(* a UDE variant when UDE_SWITCH # 0, else the classical attitude (or      *)
(* acro, or external rate setpoint) path followed by the rate controller;  *)
(* it publishes the actuator controls and finally applies the flight       *)
(* termination override.  The task is single threaded, so one iteration   *)
(* is one atomic step; the topics are written by other tasks at any time,  *)
(* which the model covers by letting each poll read any message, or none. *)
(*                                                                         *)
(* Not modelled here: the bench "platform" mode, dt and the loop-rate      *)
(* estimate (see LoopRate).                                                *)
(***************************************************************************)
EXTENDS UdeControl, LPFwithDelay, Sequences

CONSTANTS
    ControlModes,   \* the vehicle_control_mode messages the commander publishes
    Statuses,       \* the vehicle_status messages (is_vtol, is_rotary_wing)
    Params,         \* the parameter sets the task may load
    GyroRates,      \* values of one corrected gyro rate
    RateSetpoints,  \* values of one rate setpoint (after the rate limits)
    Thrusts,        \* values of the thrust setpoint
    NoMsg,          \* "no new message on this topic"
    SatInputs,      \* the saturation flags multirotor_motor_limits gives an axis
    StickInputs,    \* whether the roll/pitch stick is beyond RATT_TH
    StreakBound     \* cap of the count of consecutive finite iterations

ModeRec == [armed: BOOLEAN, att: BOOLEAN, rates: BOOLEAN, manual: BOOLEAN,
            autovel: BOOLEAN, ratt: BOOLEAN, term: BOOLEAN]
StatusRec == [vtol: BOOLEAN, rotary: BOOLEAN]
ParamRec == [lim: [Axes -> Nat \ {0}], ude: {0, 1, 2, 3}, td: {0, 1},
             mixer: BOOLEAN, cb: BOOLEAN]

ASSUME LoopConstAssumption ==
    /\ ControlModes \subseteq ModeRec
    /\ Statuses \subseteq StatusRec /\ Statuses # {}
    /\ Params \subseteq ParamRec /\ Params # {}
    /\ GyroRates \subseteq Val /\ RateSetpoints \subseteq Val
    /\ Thrusts \subseteq Val
    /\ SatInputs \subseteq SatFlags /\ {} \in SatInputs
    /\ StickInputs \subseteq BOOLEAN /\ FALSE \in StickInputs
    /\ NoMsg \notin ModeRec \cup StatusRec
    /\ StreakBound \in Nat \ {0}

\* The actuator channels written: one per modelled axis and 3 for thrust.
Chans == Axes \cup {3}
\* A published channel is an exact zero or some finite value.
OutVals == {"zero", "value"}
ZeroOut == [c \in Chans |-> "zero"]
\* The (PX4_ISFINITE(x)) ? x : 0.0f substitution of every published channel.
Out(fin) == IF fin THEN "value" ELSE "zero"

\* Variant C's filter memories, per axis, kept as "finite or not":
\* LPFdelay[i] (low-pass of u_total), HPF[i] and HPF2[i] (of the measured
\* rate), LPF[i] and BPF[i] (of the torque estimate).
MFiltRec == [lpfd: [UdeAxes -> BOOLEAN], hpf: [UdeAxes -> BOOLEAN],
             lpf: [UdeAxes -> BOOLEAN]]

\* The steps of an iteration, recorded for the properties.
Ops == {"att", "acro", "rsp", "rates", "ude", "term"}

VARIABLES
    pc,             \* "wait": blocked in px4_poll; "run": inputs copied
    cm,             \* _v_control_mode, the cached control mode
    cm_msg,         \* the last vehicle_control_mode message copied
    status,         \* _vehicle_status
    act_id,         \* _actuators_id: chosen on the first status message
    prm,            \* the loaded parameters
    gyro,           \* the corrected gyro rates of this sample
    sat,            \* _saturation_status, per axis
    stick,          \* roll or pitch stick beyond RATT_TH this iteration
    thrust_sp,      \* _thrust_sp
    ude_thr,        \* _ude.thrust_sp: control_attitude's copy of _thrust_sp
    rates_int,      \* _rates_int
    int_lim_used,   \* _rate_int_lim when control_attitude_rates last ran
    prev_filt_fin,  \* _rates_prev_filtered is finite, per axis
    integral_ude,   \* integral_ude (roll, pitch)
    u_total_fin,    \* _ude.u_total is finite, per axis
    td_ref_fin,     \* attitude_sp_last is finite (PD+UDE memory)
    td_dot_fin,     \* attitude_dot_sp_last is finite (PD+UDE memory)
    mfilt,          \* variant C's filter memories are finite
    pubs,           \* the actuator_controls published in this iteration
    ran,            \* the steps run in this iteration
    fin_streak,     \* consecutive UDE iterations with finite inputs
    rates_streak    \* consecutive control_attitude_rates calls with finite inputs

vars == <<pc, cm, cm_msg, status, act_id, prm, gyro, sat, stick, thrust_sp,
          ude_thr, rates_int, int_lim_used, prev_filt_fin, integral_ude,
          u_total_fin, td_ref_fin, td_dot_fin, mfilt, pubs, ran, fin_streak,
          rates_streak>>

TypeOK ==
    /\ pc \in {"wait", "run"}
    /\ cm \in ModeRec /\ cm_msg \in ModeRec
    /\ status \in StatusRec
    /\ act_id \in {"none", "mc", "virtual"}
    /\ prm \in Params
    /\ gyro \in [Axes -> Val]
    /\ sat \in [Axes -> SatFlags]
    /\ stick \in BOOLEAN
    /\ thrust_sp \in Val /\ ude_thr \in Val
    /\ rates_int \in [Axes -> Int]
    /\ int_lim_used \in [Axes -> Nat]
    /\ prev_filt_fin \in [Axes -> BOOLEAN]
    /\ integral_ude \in [UdeAxes -> Int]
    /\ u_total_fin \in [Axes -> BOOLEAN]
    /\ td_ref_fin \in [UdeAxes -> BOOLEAN] /\ td_dot_fin \in [UdeAxes -> BOOLEAN]
    /\ mfilt \in MFiltRec
    /\ pubs \in Seq([Chans -> OutVals])
    /\ ran \subseteq Ops
    /\ fin_streak \in 0..StreakBound
    /\ rates_streak \in 0..StreakBound

-----------------------------------------------------------------------------
(* Construction: all controller state zeroed, is_rotary_wing true, the     *)
(* control mode zero-initialised, the parameters loaded once.              *)
Init ==
    /\ pc = "wait"
    /\ cm = [armed |-> FALSE, att |-> FALSE, rates |-> FALSE, manual |-> FALSE,
             autovel |-> FALSE, ratt |-> FALSE, term |-> FALSE]
    /\ cm_msg = cm
    /\ status = [vtol |-> FALSE, rotary |-> TRUE]
    /\ act_id = "none"
    /\ prm \in Params
    /\ gyro = ZeroVector(Axes)
    /\ sat = [a \in Axes |-> {}]
    /\ stick = FALSE
    /\ thrust_sp = 0
    /\ ude_thr = 0
    /\ rates_int = ZeroVector(Axes)
    /\ int_lim_used = prm.lim
    /\ prev_filt_fin = [a \in Axes |-> TRUE]
    /\ integral_ude = ZeroVector(UdeAxes)
    /\ u_total_fin = [a \in Axes |-> TRUE]
    /\ td_ref_fin = [i \in UdeAxes |-> TRUE]
    /\ td_dot_fin = [i \in UdeAxes |-> TRUE]
    /\ mfilt = [lpfd |-> [i \in UdeAxes |-> LpfInit.out_fin],
                hpf |-> [i \in UdeAxes |-> TRUE], lpf |-> [i \in UdeAxes |-> TRUE]]
    /\ pubs = << >>
    /\ ran = {}
    /\ fin_streak = 0
    /\ rates_streak = 0

\* Rattitude: with the roll or pitch stick beyond the threshold, attitude
\* control is switched off in the cached control mode itself.
RattitudeOverride(mode, beyond) ==
    IF mode.ratt /\ beyond THEN [mode EXCEPT !.att = FALSE] ELSE mode

\* A gyro sample arrived: copy it and every changed topic, then apply the
\* rattitude override.  The first status message fixes the output topic.
PollInputs ==
    /\ pc = "wait"
    /\ \E g \in [Axes -> GyroRates], cmNew \in ControlModes \cup {NoMsg},
          stNew \in Statuses \cup {NoMsg}, p \in Params,
          s \in [Axes -> SatInputs], beyond \in StickInputs :
         LET mode == IF cmNew = NoMsg THEN cm ELSE cmNew
         IN  /\ cm_msg' = IF cmNew = NoMsg THEN cm_msg ELSE cmNew
             /\ cm' = RattitudeOverride(mode, beyond)
             /\ status' = IF stNew = NoMsg THEN status ELSE stNew
             /\ act_id' = IF stNew # NoMsg /\ act_id = "none"
                          THEN IF stNew.vtol THEN "virtual" ELSE "mc"
                          ELSE act_id
             /\ prm' = p
             /\ gyro' = g
             /\ sat' = s
             /\ stick' = beyond
    /\ pc' = "run"
    /\ pubs' = << >>
    /\ ran' = {}
    /\ UNCHANGED <<thrust_sp, ude_thr, rates_int, int_lim_used, prev_filt_fin,
                   integral_ude, u_total_fin, td_ref_fin, td_dot_fin, mfilt,
                   fin_streak, rates_streak>>

-----------------------------------------------------------------------------
(* Helpers of an iteration.                                                *)

\* armed and rotary wing: the integrators are kept, not reset.
Active == cm.armed /\ status.rotary

\* orb_publish of actuator_controls, unless the rate-control circuit breaker
\* is set or no status message fixed the topic yet.
Publish(vec) == IF ~prm.cb /\ act_id # "none" THEN << vec >> ELSE << >>

\* control_attitude's VTOL weather-vane branch zeroes the yaw integrator.
WeathervaneInt(int, wv) ==
    IF 2 \in Axes /\ status.vtol /\ wv /\ cm.autovel
    THEN [int EXCEPT ![2] = 0] ELSE int

\* The rate error of every axis for a rate setpoint.
RateErr(sp) == [a \in Axes |-> Minus(sp[a], gyro[a])]

\* _att_control is finite, per axis.
AttCtlFin(sp) ==
    [a \in Axes |-> AttControlFinite(sp[a], gyro[a], IsFinite(gyro[a]),
                                     prev_filt_fin[a])]

\* The low-pass filtered rates are finite where the sample is.
FiltFin == [a \in Axes |-> IsFinite(gyro[a])]

\* The end of every iteration: the flight-termination override (non-VTOL)
\* zeroes the setpoints, thrust, integrators and _att_control and publishes
\* a zero actuator vector after whatever the iteration published.
\* _ude.thrust_sp is not touched by the override.
Finish(thr, uthr, ri, lu, pf, iu, utf, tdr, tdd, mf, pb, r, streak) ==
    LET term == cm.term /\ ~status.vtol
    IN  /\ thrust_sp' = IF term THEN 0 ELSE thr
        /\ ude_thr' = uthr
        /\ mfilt' = mf
        /\ rates_int' = IF term THEN ZeroVector(Axes) ELSE ri
        /\ integral_ude' = IF term THEN ZeroVector(UdeAxes) ELSE iu
        /\ pubs' = IF term THEN pb \o Publish(ZeroOut) ELSE pb
        /\ ran' = IF term THEN r \cup {"term"} ELSE r
        /\ int_lim_used' = lu
        /\ prev_filt_fin' = pf
        /\ u_total_fin' = utf
        /\ td_ref_fin' = tdr
        /\ td_dot_fin' = tdd
        /\ fin_streak' = streak
        /\ pc' = "wait"
        /\ UNCHANGED <<cm, cm_msg, status, act_id, prm, gyro, sat, stick>>

\* mixer(): every motor thrust F1..F4 combines all three torques and the
\* thrust, constrain and the polynomial conversions let NaN through, and the
\* re-mixed outputs combine all four throttles: the outputs are NaN-free iff
\* every input is (an infinite input, not modelled, would be clamped).
MixerFinite(utf, thr) == (\A a \in Axes : utf[a]) /\ IsFinite(thr)

\* The actuator vector of a UDE iteration: the torques and thrust directly,
\* or re-mixed through the four motors.
UdeOut(utf, thr) ==
    IF ~prm.mixer
    THEN [c \in Chans |-> IF c = 3 THEN Out(IsFinite(thr)) ELSE Out(utf[c])]
    ELSE [c \in Chans |-> Out(MixerFinite(utf, thr))]

\* The UDE inputs of the controlled axes are all finite.
UdeInputsFinite(sp, ref) ==
    \A i \in UdeAxes : IsFinite(sp[i]) /\ IsFinite(gyro[i]) /\ ref[i]

NextStreak(fin) == IF fin THEN IMin(fin_streak + 1, StreakBound) ELSE 0

\* control_attitude_rates ran on a finite rate setpoint and gyro rate: the
\* rates streak grows, otherwise it restarts.
NextRatesStreak(sp) ==
    IF \A a \in Axes : IsFinite(sp[a]) /\ IsFinite(gyro[a])
    THEN IMin(rates_streak + 1, StreakBound) ELSE 0

-----------------------------------------------------------------------------
(* UDE iterations: reset integral_ude when disarmed, control_attitude     *)
(* (attitude setpoint poll, rate setpoint, references, weather-vane),     *)
(* control_attitude_rates (whose yaw output becomes u_total[2]), the UDE   *)
(* law on roll and pitch, then the actuator output.  sp, thr, ref and wv   *)
(* are what control_attitude derives from the attitude setpoint it polls;  *)
(* ref says whether the Euler reference angle is finite.                  *)

\* UDE_SWITCH = 2: control_attitude_cascade_ude.
CascadeUdeStep(sp, thr, ref, wv) ==
    LET iu0 == UdeReset(integral_ude, Active)
        err == RateErr(sp)
        ri == RatesIntStep(WeathervaneInt(rates_int, wv), prm.lim,
                           Active, thr, err, sat)
        acf == AttCtlFin(sp)
        iu == [i \in UdeAxes |-> CascadeIntegral(iu0[i], err[i], thr)]
        utf == [a \in Axes |-> IF a \in UdeAxes THEN IsFinite(err[a])
                               ELSE acf[a]]
    IN  Finish(thr, thr, ri, prm.lim, FiltFin, iu, utf, td_ref_fin, td_dot_fin,
               mfilt, Publish(UdeOut(utf, thr)), {"att", "rates", "ude"},
               NextStreak(UdeInputsFinite(sp, ref)))
        /\ rates_streak' = NextRatesStreak(sp)

CascadeUdeIteration ==
    /\ pc = "run" /\ prm.ude = 2
    /\ \E sp \in [Axes -> RateSetpoints], thr \in Thrusts,
          ref \in [UdeAxes -> BOOLEAN], wv \in BOOLEAN :
         CascadeUdeStep(sp, thr, ref, wv)

\* Fault model: the UDE_TD test inverted.
PdRateErrFiniteInverted(hpfFin, gyroFin, errFin) ==
    IF prm.td = 0 THEN hpfFin /\ gyroFin ELSE errFin

\* The PD+UDE rate error is finite: with UDE_TD = 1 it is the high-pass
\* reference rate minus the measured rate, otherwise the rate setpoint
\* minus the measured rate.
PdRateErrFinite(hpfFin, gyroFin, errFin) ==
    IF prm.td = 1 THEN hpfFin /\ gyroFin ELSE errFin

\* UDE_SWITCH = 1: control_attitude_ude (PD+UDE).  With UDE_TD = 1 the rate
\* error uses the high-pass reference derivative instead of the rate
\* setpoint.  step is the integrator step when its terms are finite.
PdUdeStep(sp, thr, ref, wv, step) ==
    LET iu0 == UdeReset(integral_ude, Active)
        err == RateErr(sp)
        ri == RatesIntStep(WeathervaneInt(rates_int, wv), prm.lim,
                           Active, thr, err, sat)
        acf == AttCtlFin(sp)
        hpf == [i \in UdeAxes |-> TdHpfFinite(td_dot_fin[i], td_ref_fin[i], ref[i])]
        eRate == [i \in UdeAxes |->
                    PdRateErrFinite(hpf[i], IsFinite(gyro[i]), IsFinite(err[i]))]
        iu == [i \in UdeAxes |->
                 PdIntegral(iu0[i], IF ref[i] /\ eRate[i] THEN step[i] ELSE NaN, thr)]
        utf == [a \in Axes |-> IF a \in UdeAxes THEN ref[a] /\ eRate[a]
                               ELSE acf[a]]
    IN  Finish(thr, thr, ri, prm.lim, FiltFin, iu, utf, ref, hpf, mfilt,
               Publish(UdeOut(utf, thr)), {"att", "rates", "ude"},
               NextStreak(UdeInputsFinite(sp, ref)))
        /\ rates_streak' = NextRatesStreak(sp)

PdUdeIteration ==
    /\ pc = "run" /\ prm.ude = 1
    /\ \E sp \in [Axes -> RateSetpoints], thr \in Thrusts,
          ref \in [UdeAxes -> BOOLEAN], wv \in BOOLEAN,
          step \in [UdeAxes -> UdeSteps] :
         PdUdeStep(sp, thr, ref, wv, step)

\* UDE_SWITCH = 3: control_attitude_m_ude.  The reset test reads
\* _ude.thrust_sp before control_attitude refreshes it; the filters then
\* take the previous u_total (LPFdelay), the measured rate (HPF, HPF2) and
\* the torque estimate (LPF, BPF); u_total and the integrator step are
\* finite iff the reference, the rate error and all filter outputs are.
MUdeStep(sp, thr, ref, wv, step) ==
    LET iu0 == MUdeReset(integral_ude, ude_thr, Active)
        err == RateErr(sp)
        ri == RatesIntStep(WeathervaneInt(rates_int, wv), prm.lim,
                           Active, thr, err, sat)
        acf == AttCtlFin(sp)
        tq == [i \in UdeAxes |-> LowPassFinite(mfilt.lpfd[i], u_total_fin[i])]
        hp == [i \in UdeAxes |-> LowPassFinite(mfilt.hpf[i], IsFinite(gyro[i]))]
        lp == [i \in UdeAxes |-> LowPassFinite(mfilt.lpf[i], tq[i])]
        fin == [i \in UdeAxes |-> ref[i] /\ IsFinite(err[i]) /\ hp[i] /\ lp[i]]
        iu == [i \in UdeAxes |->
                 PdIntegral(iu0[i], IF fin[i] THEN step[i] ELSE NaN, thr)]
        utf == [a \in Axes |-> IF a \in UdeAxes THEN fin[a] ELSE acf[a]]
    IN  Finish(thr, thr, ri, prm.lim, FiltFin, iu, utf, td_ref_fin, td_dot_fin,
               [lpfd |-> tq, hpf |-> hp, lpf |-> lp],
               Publish(UdeOut(utf, thr)), {"att", "rates", "ude"},
               NextStreak(UdeInputsFinite(sp, ref)))
        /\ rates_streak' = NextRatesStreak(sp)

MUdeIteration ==
    /\ pc = "run" /\ prm.ude = 3
    /\ \E sp \in [Axes -> RateSetpoints], thr \in Thrusts,
          ref \in [UdeAxes -> BOOLEAN], wv \in BOOLEAN,
          step \in [UdeAxes -> UdeSteps] :
         MUdeStep(sp, thr, ref, wv, step)

-----------------------------------------------------------------------------
(* Classical iterations (UDE_SWITCH = 0): a rate setpoint from the         *)
(* attitude law, the pilot's sticks (acro) or the rate setpoint topic,     *)
(* then, if rate control is enabled, control_attitude_rates and the       *)
(* actuator output.                                                       *)

\* Fault model: control_attitude_rates accumulating the filtered rate,
\* _rates_prev_filtered += rates_filtered, so a NaN once stored stays.
PidTailPrevAccumulated(ri0, sp, thr, r) ==
    LET acf == AttCtlFin(sp)
        ri == RatesIntStep(ri0, prm.lim, Active, thr, RateErr(sp), sat)
        vec == [c \in Chans |-> IF c = 3 THEN Out(IsFinite(thr)) ELSE Out(acf[c])]
        utf == IF 2 \in Axes THEN [u_total_fin EXCEPT ![2] = acf[2]] ELSE u_total_fin
        uthr == IF "att" \in r THEN thr ELSE ude_thr
    IN  IF cm.rates
        THEN /\ Finish(thr, uthr, ri, prm.lim,
                       [a \in Axes |-> prev_filt_fin[a] /\ FiltFin[a]], integral_ude, utf,
                       td_ref_fin, td_dot_fin, mfilt, Publish(vec), r \cup {"rates"}, 0)
             /\ rates_streak' = NextRatesStreak(sp)
        ELSE /\ Finish(thr, uthr, ri0, int_lim_used, prev_filt_fin, integral_ude,
                       u_total_fin, td_ref_fin, td_dot_fin, mfilt, << >>, r, 0)
             /\ UNCHANGED rates_streak

\* control_attitude_rates and the actuator publication, when enabled;
\* control_attitude (r contains "att") also refreshed _ude.thrust_sp.
\* Skipping rate control keeps _rates_prev_filtered, and with it the
\* rates streak, from the last call.
PidTail(ri0, sp, thr, r) ==
    LET acf == AttCtlFin(sp)
        ri == RatesIntStep(ri0, prm.lim, Active, thr, RateErr(sp), sat)
        vec == [c \in Chans |-> IF c = 3 THEN Out(IsFinite(thr)) ELSE Out(acf[c])]
        utf == IF 2 \in Axes THEN [u_total_fin EXCEPT ![2] = acf[2]] ELSE u_total_fin
        uthr == IF "att" \in r THEN thr ELSE ude_thr
    IN  IF cm.rates
        THEN /\ Finish(thr, uthr, ri, prm.lim, FiltFin, integral_ude, utf, td_ref_fin,
                       td_dot_fin, mfilt, Publish(vec), r \cup {"rates"}, 0)
             /\ rates_streak' = NextRatesStreak(sp)
        ELSE /\ Finish(thr, uthr, ri0, int_lim_used, prev_filt_fin, integral_ude,
                       u_total_fin, td_ref_fin, td_dot_fin, mfilt, << >>, r, 0)
             /\ UNCHANGED rates_streak

\* Attitude control enabled: control_attitude, then the rate controller.
AttitudeIteration ==
    /\ pc = "run" /\ prm.ude = 0 /\ cm.att
    /\ \E sp \in [Axes -> RateSetpoints], thr \in Thrusts, wv \in BOOLEAN :
         PidTail(WeathervaneInt(rates_int, wv), sp, thr, {"att"})

\* Acro: the rate setpoint and thrust come from the sticks.
AcroIteration ==
    /\ pc = "run" /\ prm.ude = 0 /\ ~cm.att /\ cm.manual
    /\ \E sp \in [Axes -> RateSetpoints], thr \in Thrusts :
         PidTail(rates_int, sp, thr, {"acro"})

\* Neither: the rate setpoint topic is polled and used.
RatesSetpointIteration ==
    /\ pc = "run" /\ prm.ude = 0 /\ ~cm.att /\ ~cm.manual
    /\ \E sp \in [Axes -> RateSetpoints], thr \in Thrusts :
         PidTail(rates_int, sp, thr, {"rsp"})

Next ==
    \/ PollInputs
    \/ CascadeUdeIteration
    \/ PdUdeIteration
    \/ MUdeIteration
    \/ AttitudeIteration
    \/ AcroIteration
    \/ RatesSetpointIteration

Spec == Init /\ [][Next]_vars

-----------------------------------------------------------------------------
(* Properties.                                                             *)

\* The rate integrator never exceeds the integral limit that was in force
\* the last time control_attitude_rates ran (its explicit clamp after the
\* discard-or-commit step), across limit changes, resets and overrides.
IntegratorWithinLimit ==
    \A a \in Axes : -int_lim_used[a] <= rates_int[a] /\ rates_int[a] <= int_lim_used[a]

\* Conditional anti-windup of control_attitude_rates: in an iteration where
\* an axis is flagged positively saturated its integrator never rises above
\* max(old value, 0), and where negatively saturated never falls below
\* min(old value, 0); only resets to zero and the clamp may move it back.
AntiWindupStep ==
    \A a \in Axes :
        /\ "pos" \in sat'[a] => rates_int'[a] <= IMax(rates_int[a], 0)
        /\ "neg" \in sat'[a] => rates_int'[a] >= IMin(rates_int[a], 0)

\* Every step of the task keeps the conditional anti-windup above.
AntiWindup == [][AntiWindupStep]_vars

\* The thrust gate of both integrators (spec 8: below the minimum effective
\* thrust the integrator is not updated): in an iteration whose thrust
\* setpoint is not above MIN_TAKEOFF_THRUST, NaN included, neither the
\* rate integrator nor the UDE integrator moves away from zero.
ThrustGateStep ==
    pc = "run" /\ ~Greater(thrust_sp', MinTakeoffThrust)
        => /\ \A a \in Axes : IAbs(rates_int'[a]) <= IAbs(rates_int[a])
           /\ \A i \in UdeAxes : IAbs(integral_ude'[i]) <= IAbs(integral_ude[i])

\* Every step of the task respects the thrust gate above.
ThrustGate == [][ThrustGateStep]_vars

\* A UDE law recovers from a NaN input: once its inputs (gyro rate,
\* rate setpoint, reference angle) have been finite for StreakBound
\* consecutive iterations, its roll/pitch torque u_total is finite again.
UdeRecovers ==
    (pc = "wait" /\ "ude" \in ran /\ fin_streak >= StreakBound)
        => \A i \in UdeAxes : u_total_fin[i]

\* The D term recovers from a NaN gyro sample: control_attitude_rates
\* differentiates against _rates_prev_filtered, which it writes only when
\* it runs, so a NaN sample poisons the next call's torque as well, however
\* many iterations skip rate control in between.  Once rate control has run
\* on a finite rate setpoint and gyro rate in StreakBound consecutive calls,
\* every torque channel a classical iteration publishes is finite.
PidRecovers ==
    (pc = "wait" /\ "rates" \in ran /\ "ude" \notin ran /\ "term" \notin ran
       /\ rates_streak >= StreakBound)
        => \A k \in 1..Len(pubs) : \A a \in Axes : pubs[k][a] = "value"

\* Variant C's low-thrust reset (design 4.3: the uncertainty state resets
\* to zero below the minimum effective thrust): after a motor-dynamics UDE
\* iteration whose thrust setpoint is below MIN_TAKEOFF_THRUST, integral_ude
\* is zero.
MUdeResetBelowThrust ==
    (pc = "wait" /\ "ude" \in ran /\ prm.ude = 3
       /\ Less(thrust_sp, MinTakeoffThrust))
        => integral_ude = ZeroVector(UdeAxes)

\* Output substitution (spec 4.6: any non-finite actuator channel is
\* replaced by zero, so a finite one is passed on): in an iteration not
\* overridden by termination whose thrust setpoint is finite, every
\* published actuator vector carries a non-zero-substituted thrust.
ThrustOutputFollowsSetpoint ==
    (pc = "wait" /\ ran # {} /\ "term" \notin ran /\ IsFinite(thrust_sp))
        => \A k \in 1..Len(pubs) : pubs[k][3] = "value"

\* Flight termination (spec 4.6): on a termination command a non-VTOL
\* vehicle's actuator outputs are zeroed immediately, i.e. every actuator
\* vector published in that iteration is zero.
TerminationOutputsZero ==
    (pc = "wait" /\ "term" \in ran) => \A k \in 1..Len(pubs) : pubs[k] = ZeroOut

\* Rattitude (spec 4.6): the stick beyond the threshold disables attitude
\* control "for that tick" only; in any other classical iteration the
\* attitude law runs whenever the commanded mode enables it.
AttitudeControlFollowsCommand ==
    (pc = "wait" /\ ran # {} /\ prm.ude = 0 /\ cm_msg.att
       /\ ~(cm_msg.ratt /\ stick))
        => "att" \in ran

\* Disarm reset (spec 8): after one update while disarmed the rate
\* integrator and the UDE integrator are exactly zero.
DisarmedIntegratorsZero ==
    (pc = "wait" /\ ~cm.armed /\ "rates" \in ran)
        => /\ rates_int = ZeroVector(Axes)
           /\ ("ude" \in ran => integral_ude = ZeroVector(UdeAxes))

=============================================================================
