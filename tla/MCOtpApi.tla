------------------------------- MODULE MCOtpApi --------------------------------
(***************************************************************************)
(* Three connections for two descriptors and two poll items.              *)
(***************************************************************************)
EXTENDS OtpApiProperties
CONSTANTS k1, k2, k3

Three == {k1, k2, k3}

\* The first client sends a line in parts, the second a request and headers.
Lines(k) == IF k = k1 THEN {"part", "line"} ELSE IF k = k2 THEN {"line", "bad"} ELSE {"line"}

TwoDescriptors == {7, 8}
================================================================================
