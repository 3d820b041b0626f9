------------------------------ MODULE MCServices ------------------------------
(***************************************************************************)
(* What the daemon keeps of one service and its run: the watcher of its    *)
(* files, the proxy that captures its API calls, the manifest, the tail of *)
(* its log.  The models of these components share no state, so a behaviour *)
(* exercises one of them, chosen at the start, while the others stay as    *)
(* they are.                                                               *)
(***************************************************************************)
EXTENDS Watchers, ApiCapture, Manifests, LogTails, TLC

VARIABLE part     \* the component this behaviour is about

servicesVars == <<part, watchVars, captureVars, manifestVars, tailVars>>

ServicesInit ==
    /\ part \in {"watchers", "capture", "manifests", "tails"}
    /\ WatchInit /\ CaptureInit /\ ManifestInit /\ TailInit

ServicesNext ==
    \/ part = "watchers" /\ WatchNext /\ UNCHANGED <<part, captureVars, manifestVars, tailVars>>
    \/ part = "capture" /\ CaptureNext /\ UNCHANGED <<part, watchVars, manifestVars, tailVars>>
    \/ part = "manifests" /\ ManifestNext /\ UNCHANGED <<part, watchVars, captureVars, tailVars>>
    \/ part = "tails" /\ TailNext /\ UNCHANGED <<part, watchVars, captureVars, manifestVars>>

ServicesSpec == ServicesInit /\ [][ServicesNext]_servicesVars

\* The configuration uses the same values for the interchangeable members of the
\* components, so that two small groups of permutations serve all of them.
Interchangeable == Permutations(WatchHandles) \cup Permutations(WatchCallers)

ASSUME SharedSymmetry ==
    /\ Proxies = WatchHandles /\ Persisters = WatchHandles /\ TailTasks = WatchHandles
    /\ ProxyCallers = WatchCallers /\ ApiRequests = WatchCallers /\ Clients = WatchCallers
=============================================================================
