--------------------------- MODULE MCEffectEngine ---------------------------
(* EffectEngine on small instances: what the UI may set each setting to.   *)
EXTENDS EffectEngine

Off == [s \in Settings |-> {}]

\* Rates 1 and 2, a delay, a jitter, and one extra copy.
ThrottleInputs == [Off EXCEPT !["throttle"] = {-1, 1, 2}, !["delay"] = {1},
                              !["jitter"] = {1}, !["duplicate_rate"] = {1}]

\* These, and bursts of up to 3 packets with random drops set as well.
AllInputs == [ThrottleInputs EXCEPT !["burst_enabled"] = BOOLEAN, !["burst_rate"] = {1},
                                    !["burst_length"] = {0, 3}, !["drop_rate"] = {1}]
=============================================================================
