---------------------------- MODULE MCAudioVoices ----------------------------
(* Three short voices, the real PWM period, and extreme samples.             *)
EXTENDS AudioVoices, TLC

MCLen == 0 :> 2 @@ 1 :> 3 @@ 2 :> 2
MCSamples == {-32768, -1, 0, 32767}
=============================================================================
