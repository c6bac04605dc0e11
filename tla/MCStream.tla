------------------------------ MODULE MCStream ------------------------------
(***************************************************************************)
(* StreamProxy for TLC.  A calm request is one whose client waits for the  *)
(* end of the stream, from a server that does not tell the length, while   *)
(* no take timeout expires: only such a one is sure to end.                *)
(***************************************************************************)
EXTENDS StreamProxy

VARIABLE calm
allVars == <<pvars, calm>>

WaitsForEnd == ~known' /\ (aborting' => aborting \/ outcome # "none")
ConnGoesOn == ConnStep /\ (calm => WaitsForEnd)
Init == PInit /\ calm \in BOOLEAN
Next ==
  /\ \/ CurlStep
     \/ ConnGoesOn
     \/ ~calm /\ TakeLate
     \/ XWakeup /\ UNCHANGED <<cvars, mpc, reader>>
  /\ UNCHANGED calm
\* The fairness of PFairSpec, for calm requests.
Spec == /\ Init /\ [][Next]_allVars
        /\ WF_allVars(calm /\ CurlStep /\ UNCHANGED calm)
        /\ WF_allVars(calm /\ ConnGoesOn /\ UNCHANGED calm)

-----------------------------------------------------------------------------
(* Properties. *)

\* The client gets the units it asked for in order, through retries, unless
\* contentRead() dropped units or there was a range; END_OF_STREAM comes after all
\* its units; and a calm request decides at its end from a status that was set
\* (contentRead, curl_write_cb, fetchDone).
StreamInOrder == PTypeOK /\ RetryInOrder /\ EosComplete /\ (calm => CodeInitialised)
\* A calm request ends, and when its headers arrive, whatever errors follow, it
\* ends with its reader and transfer released (~ContentReader, ~CurlFetch).  When
\* they do not, the answer is sent and both are kept (answerConn).
CalmRequestEnds == calm => RequestEnds

\* The invariant behind StreamInOrder: without a timeout take() fails only once the
\* fetch is done.
StreamInv == PInv /\ calm \in BOOLEAN /\ (calm => ~ uninit /\ (mpc = "takefailed" => done))
=============================================================================
