-------------------------- MODULE MCAttControlLoop --------------------------
(***************************************************************************)
(* Model-checking instances of AttControlLoop.  Every set below is what   *)
(* the commander, the sensors and the parameter system can really publish *)
(* (the control-mode records are the flag sets the commander produces for  *)
(* the navigation states named); each run picks the sets its question      *)
(* needs in its .cfg.                                                      *)
(***************************************************************************)
EXTENDS AttControlLoop

\* A vehicle_control_mode message.
Mode(armed, att, rates, manual, autovel, ratt, term) ==
    [armed |-> armed, att |-> att, rates |-> rates, manual |-> manual,
     autovel |-> autovel, ratt |-> ratt, term |-> term]

Stabilized == Mode(TRUE, TRUE, TRUE, TRUE, FALSE, FALSE, FALSE)
AcroMode == Mode(TRUE, FALSE, TRUE, TRUE, FALSE, FALSE, FALSE)
OffboardRates == Mode(TRUE, FALSE, TRUE, FALSE, FALSE, FALSE, FALSE)
AutoMission == Mode(TRUE, TRUE, TRUE, FALSE, TRUE, FALSE, FALSE)
RattitudeMode == Mode(TRUE, TRUE, TRUE, TRUE, FALSE, TRUE, FALSE)
DisarmedMode == Mode(FALSE, TRUE, TRUE, TRUE, FALSE, FALSE, FALSE)
Termination == Mode(TRUE, FALSE, FALSE, FALSE, FALSE, FALSE, TRUE)

\* The modes of the classical paths: attitude, acro, external rates,
\* disarmed and flight termination.
PidModes == {Stabilized, AcroMode, OffboardRates, AutoMission, DisarmedMode,
             Termination}
\* Rattitude, and the stabilized mode the pilot leaves it for.
RattModes == {RattitudeMode, Stabilized}
\* A VTOL in multicopter phase: auto (weather-vane) and termination.
VtolModes == {AutoMission, Stabilized, Termination}
\* Flying, then flight termination.
TermModes == {Stabilized, Termination}
DisarmModes == {DisarmedMode}

\* Signal values: a gyro rate of zero or non-finite, rate setpoints of
\* either sign (finite or not), thrust below, above or not a number.
MCGyro == {0, NaN}
MCRateSp == {-1, 1}
MCRateSpNaN == {-1, 1, NaN}
MCThrust == {0, 2, NaN}
MCSteps == {-1, 1}
\* An axis unsaturated, or saturated in one direction.
MCSat == {{}, {"pos"}, {"neg"}}

\* The UDE path runs whatever the attitude and rate flags: armed and
\* disarmed suffice.
UdeModes == {Stabilized, DisarmedMode}

MCAxes == {1, 2}
MCYawOnly == {2}
MCPitchOnly == {1}

\* Multicopter and VTOL (in multicopter phase) status messages.
MCStatus == {[vtol |-> FALSE, rotary |-> TRUE]}
VtolStatus == {[vtol |-> TRUE, rotary |-> TRUE], [vtol |-> TRUE, rotary |-> FALSE]}
\* Either kind of vehicle, as the commander may announce it.
AnyStatus == MCStatus \cup VtolStatus

\* A parameter set: the integral limit of every axis, UDE_SWITCH, UDE_TD,
\* the mixer switch and the circuit breaker.
Prm(l, u, td, mx, cb) ==
    [lim |-> [a \in Axes |-> l], ude |-> u, td |-> td, mixer |-> mx, cb |-> cb]

\* The classical path with the integral limit lowered and raised.
PidParams == {Prm(1, 0, 0, FALSE, FALSE), Prm(3, 0, 0, FALSE, FALSE)}
\* The same with the rate-control circuit breaker set.
PidParamsCb == {Prm(3, 0, 0, FALSE, FALSE), Prm(3, 0, 0, FALSE, TRUE)}
\* The cascade and the PD+UDE law without the filtered derivative, direct
\* output and through the mixer.
UdeParams == {Prm(3, 2, 0, FALSE, FALSE), Prm(3, 2, 0, TRUE, FALSE),
              Prm(3, 1, 0, FALSE, FALSE), Prm(3, 1, 0, TRUE, FALSE)}
\* The motor-dynamics law, direct output and through the mixer.
MUdeParams == {Prm(3, 3, 0, FALSE, FALSE), Prm(3, 3, 0, TRUE, FALSE)}
\* The PD+UDE law with the filtered reference derivative (UDE_TD = 1).
UdeTdParams == {Prm(3, 1, 1, FALSE, FALSE)}

=============================================================================
