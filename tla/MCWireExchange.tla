---------------------------- MODULE MCWireExchange ----------------------------
(* The exchange with the clock of the decoder at 20 seconds and problems   *)
(* of status 409; six operations have two members altered.  With it goes   *)
(* the policy that decides whether a text of the answer is Marked, for     *)
(* small words and every text of up to four characters.                    *)
EXTENDS WireExchange, BoundaryPolicy

MCNow == 20
MCHttpStatus == 409
MCTwice ==
  {"agentSessions.agentAuth", "agentSessions.create", "agentSessions.createTerminalConnection",
   "capabilities.get", "workspaceBindings.get", "workspaces.sync.chunkDownload"}

MCVendorNames == {<<LowerA, LowerA>>}
MCGenericWords == {<<LowerA, LowerB>>, <<LowerA, LowerA, LowerB>>}

\* Rolling the hash finds exactly the windows that hash to a word.
ASSUME ScanIsExact ==
  \A text \in UNION {[1..n -> Written] : n \in 0..4} :
    LET decoded == decodeEscapes(text)
    IN containsProhibitedMarker(text) = SomeWindowCounts(decoded, toLowerCase(decoded))
===============================================================================
