--------------------------- MODULE MCCaptureLoop ---------------------------
EXTENDS CaptureLoop, TLC

OneHarmonic == {<<2, 1>>}
TwoWindows  == <<1, 2>>

\* One band that is still below its knee at the gain and then rises by 10 dB
\* and 8, which is linear; one that rises by 10 dB and 6.5, which is not.
TwoBands ==
  (1 :> (0 :> 0 @@ 1 :> 3 @@ 2 :> 10 @@ 3 :> 110 @@ 4 :> 190)) @@
  (2 :> (0 :> 0 @@ 1 :> 100 @@ 2 :> 165 @@ 3 :> 200 @@ 4 :> 210))
=============================================================================
