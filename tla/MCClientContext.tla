-------------------------- MODULE MCClientContext --------------------------
(* Instances of ClientContext for TLC: a few calls, two closers, and the   *)
(* configuration the constructor resolves before there is a context.       *)
EXTENDS ClientContext, ConfigResolution

CONSTANTS c1, c2, c3, w1, w2

MCCalls == {c1, c2, c3}
MCTwoCalls == {c1, c2}
MCClosers == {w1, w2}
MCOneCloser == {w1}

============================================================================
